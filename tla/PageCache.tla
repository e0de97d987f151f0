------------------------------ MODULE PageCache ------------------------------
(***************************************************************************)
(* The page microcache of one browser session                              *)
(* (net/infrastructure/page_cache.py, with the session that Django loads at *)
(* the start of a request and saves as a whole at its end).  The displayed *)
(* data is a version number that every committed change increases; a cached *)
(* page is found under the epoch of the session and the generation of the   *)
(* cache.                                                                  *)
(***************************************************************************)
EXTENDS Naturals, Functions

CONSTANTS
  Requests,        \* requests of the session; the ids serve as epochs, too
  NoEpoch, NoGeneration,
  Lifetime,        \* NET_PAGE_CACHE_SECONDS
  RequestTime,     \* a request takes at most this long (bound)
  CachePlans,      \* [displays, lists, posts, outages, topology, elsewhere]: requests of
                   \* each kind and faults that happen
  MaxSeconds

ASSUME PageCacheAssumption ==
  /\ Lifetime \in Nat \ {0} /\ RequestTime \in Nat /\ MaxSeconds \in Nat
  /\ NoEpoch \notin Requests /\ NoGeneration \notin Nat
  /\ CachePlans \subseteq [displays : SUBSET Requests, lists : SUBSET Requests,
                           posts : SUBSET Requests, outages : BOOLEAN,
                           topology : Nat, elsewhere : Nat]
  /\ \A plan \in CachePlans :  \* a request is of one kind
       /\ plan.displays \cap (plan.lists \cup plan.posts) = {}
       /\ plan.lists \cap plan.posts = {}

VARIABLES
  cache_plan,   \* the member of CachePlans (never changes)
  page_clock,       \* clock
  shown,        \* version of the displayed data
  epoch,        \* SESSION_EPOCH of the saved session
  generation,   \* GENERATION_KEY, a number, or NoGeneration
  pages,        \* cached pages: key -> [version, expires]
  request,
  pending,      \* an invalidation waits for its commit hook
  changes,      \* [topology, elsewhere]: changes made outside the session
  promised,     \* [own, topology, lasting]: versions that pages must show (history)
  restored      \* an older session was saved over a newer epoch (history)

cacheVars == <<cache_plan, page_clock, shown, epoch, generation, pages, request, pending,
               changes, promised, restored>>

NoKey    == <<NoEpoch, NoGeneration>>
Unsent   == [stage |-> "none", started |-> 0, epoch |-> NoEpoch, key |-> NoKey, version |-> 0,
             own |-> 0, topology |-> 0, lasting |-> 0, blind |-> FALSE]
NoPages  == [key \in {} |-> [version |-> 0, expires |-> 0]]

PageCacheInit ==
  /\ cache_plan \in CachePlans
  /\ page_clock = 0 /\ shown = 0
  /\ epoch = NoEpoch /\ generation = NoGeneration /\ pages = NoPages
  /\ request = [r \in Requests |-> Unsent]
  /\ pending = FALSE /\ changes = [topology |-> 0, elsewhere |-> 0]
  /\ promised = [own |-> 0, topology |-> 0, lasting |-> [s \in 0 .. MaxSeconds |-> 0]]
  /\ restored = FALSE

-----------------------------------------------------------------------------
(* Every request first loads its session.                                  *)

\* The changes that had to be visible when the request came: those of finished requests
\* of the session, invalidated ones, and any that is older than a cached page can be.
Arrive(r, stage, session_epoch) ==
  LET oldest == Lifetime + RequestTime
  IN request' = [request EXCEPT ![r] =
       [Unsent EXCEPT !.stage = stage, !.started = page_clock, !.epoch = session_epoch,
                      !.own = promised.own, !.topology = promised.topology,
                      !.lasting = IF page_clock < oldest THEN 0
                                  ELSE promised.lasting[page_clock - oldest]]]

Come(r, kind, stage, session_epoch) ==
  /\ request[r].stage = "none" /\ r \in kind
  /\ Arrive(r, stage, session_epoch)
  /\ UNCHANGED <<cache_plan, page_clock, shown, generation, pages, pending, changes, promised,
                 restored>>

\* process_request: GET keeps the epoch, an unsafe method rotates it in its own copy.
StartDisplay(r) == Come(r, cache_plan.displays, "lookup", epoch) /\ UNCHANGED epoch
StartList(r)    == Come(r, cache_plan.lists, "handling", epoch) /\ UNCHANGED epoch

\* Mutant: the new epoch is saved before the change is made.
StartPost_Saved(r) == Come(r, cache_plan.posts, "handling", r) /\ epoch' = r

StartPost(r) == Come(r, cache_plan.posts, "handling", r) /\ UNCHANGED epoch

-----------------------------------------------------------------------------
(* Display pages.                                                          *)

\* The generation cannot be read while the cache is out.
readable == IF cache_plan.outages THEN {generation, NoGeneration} ELSE {generation}

key_of(e, g) == <<e, g>>

\* Mutant: a hit starts the lifetime anew.
after_hit_Renewed(key) == [pages EXCEPT ![key].expires = page_clock + Lifetime]

after_hit(key) == pages

\* process_view: a cached page is the answer, or the view is called.
Lookup(r) ==
  /\ request[r].stage = "lookup"
  /\ \E g \in readable :
       LET key == key_of(request[r].epoch, g)
           hit == key \in DOMAIN pages /\ page_clock < pages[key].expires
           known == [request EXCEPT ![r].key = key, ![r].blind = g # generation]
       IN \/ /\ hit
             /\ request' = [known EXCEPT ![r].stage = "answered",
                                         ![r].version = pages[key].version]
             /\ pages' = after_hit(key)
          \/ /\ ~ hit \/ cache_plan.outages
             /\ request' = [known EXCEPT ![r].stage = "view"]
             /\ UNCHANGED pages
  /\ UNCHANGED <<cache_plan, page_clock, shown, epoch, generation, pending, changes, promised,
                 restored>>

\* The view reads the data.
Render(r) ==
  /\ request[r].stage = "view"
  /\ request' = [request EXCEPT ![r].stage = "rendered", ![r].version = shown]
  /\ UNCHANGED <<cache_plan, page_clock, shown, epoch, generation, pages, pending, changes,
                 promised, restored>>

\* process_response: stored if the key is still the same, unless the cache is out.
StorePage(r) ==
  /\ request[r].stage = "rendered"
  /\ request' = [request EXCEPT ![r].stage = "answered"]
  /\ \E g \in readable :
       pages' = IF key_of(request[r].epoch, g) = request[r].key
                THEN [k \in DOMAIN pages \cup {request[r].key} |->
                        IF k = request[r].key
                        THEN [version |-> request[r].version, expires |-> page_clock + Lifetime]
                        ELSE pages[k]]
                ELSE pages
  /\ UNCHANGED <<cache_plan, page_clock, shown, epoch, generation, pending, changes, promised,
                 restored>>

-----------------------------------------------------------------------------
(* Other requests of the session.                                          *)

\* A change is committed by a POST ...
CommitPost(r) ==
  /\ request[r].stage = "handling" /\ r \in cache_plan.posts
  /\ shown' = shown + 1
  /\ promised' = [promised EXCEPT !.lasting[page_clock] = shown + 1]
  /\ request' = [request EXCEPT ![r].stage = "committed", ![r].version = shown + 1]
  /\ UNCHANGED <<cache_plan, page_clock, epoch, generation, pages, pending, changes, restored>>

epoch_after_post(r) == request[r].epoch

\* ... whose session is saved before the answer is sent.
EndPost(r) ==
  /\ request[r].stage = "committed"
  /\ epoch' = epoch_after_post(r)
  /\ promised' = [promised EXCEPT !.own = IF request[r].version > @ THEN request[r].version ELSE @]
  /\ request' = [request EXCEPT ![r].stage = "answered"]
  /\ UNCHANGED <<cache_plan, page_clock, shown, generation, pages, pending, changes, restored>>

\* A POST that ends with an error of the server may have committed, but its session is
\* not saved.
FailPost(r) ==
  /\ request[r].stage \in {"handling", "committed"} /\ r \in cache_plan.posts
  /\ request' = [request EXCEPT ![r].stage = "answered"]
  /\ UNCHANGED <<cache_plan, page_clock, shown, epoch, generation, pages, pending, changes,
                 promised, restored>>

\* A list page may take a message or a dialog out of its session, which saves all of it
\* with the epoch it was loaded with.
EndList(r) ==
  /\ request[r].stage = "handling" /\ r \in cache_plan.lists
  /\ request' = [request EXCEPT ![r].stage = "answered"]
  /\ \/ UNCHANGED <<epoch, restored>>
     \/ epoch' = request[r].epoch /\ restored' = (restored \/ epoch # request[r].epoch)
  /\ UNCHANGED <<cache_plan, page_clock, shown, generation, pages, pending, changes, promised>>

-----------------------------------------------------------------------------
(* The rest of the program.                                                *)

ChangeData(kind) ==
  /\ changes[kind] < cache_plan[kind]
  /\ changes' = [changes EXCEPT ![kind] = @ + 1]
  /\ shown' = shown + 1
  /\ promised' = [promised EXCEPT !.lasting[page_clock] = shown + 1]

\* Somebody else, or a Worker, changes displayed data.
ChangeElsewhere ==
  /\ ChangeData("elsewhere")
  /\ UNCHANGED <<cache_plan, page_clock, epoch, generation, pages, request, pending, restored>>

\* A topology batch commits ...
CommitTopology ==
  /\ ~ pending /\ pending' = TRUE
  /\ ChangeData("topology")
  /\ UNCHANGED <<cache_plan, page_clock, epoch, generation, pages, request, restored>>

\* ... and its hook sets a new generation, unless the cache is out or the Worker died.
Invalidate ==
  /\ pending /\ pending' = FALSE
  /\ \/ /\ generation' = changes.topology
        /\ promised' = [promised EXCEPT !.topology = shown]
     \/ cache_plan.outages /\ UNCHANGED <<generation, promised>>
  /\ UNCHANGED <<cache_plan, page_clock, shown, epoch, pages, request, changes, restored>>

\* Time passes; no request is older than RequestTime.
NextSecond ==
  /\ page_clock < MaxSeconds
  /\ \A r \in Requests : request[r].stage \in {"none", "answered"}
                           \/ page_clock < request[r].started + RequestTime
  /\ page_clock' = page_clock + 1
  /\ promised' = [promised EXCEPT !.lasting[page_clock + 1] = shown]
  /\ pages' = Restrict(pages, {k \in DOMAIN pages : page_clock + 1 < pages[k].expires})
  /\ UNCHANGED <<cache_plan, shown, epoch, generation, request, pending, changes, restored>>

PageCacheNext ==
  \/ \E r \in Requests :
       \/ StartDisplay(r) \/ StartList(r) \/ StartPost(r)
       \/ Lookup(r) \/ Render(r) \/ StorePage(r)
       \/ CommitPost(r) \/ EndPost(r) \/ FailPost(r) \/ EndList(r)
  \/ ChangeElsewhere \/ CommitTopology \/ Invalidate \/ NextSecond

PageCacheSpec == PageCacheInit /\ [][PageCacheNext]_cacheVars

-----------------------------------------------------------------------------
(* Properties.                                                             *)

Displayed == {r \in Requests : request[r].stage = "answered" /\ r \in cache_plan.displays}

\* The cached pages keep their types, none lives longer than the lifetime, and none
\* shows data that does not exist yet.
PageTypeOK ==
  /\ page_clock \in 0 .. MaxSeconds /\ epoch \in Requests \cup {NoEpoch}
  /\ \A key \in DOMAIN pages :
       /\ key[1] \in Requests \cup {NoEpoch}
       /\ pages[key].version <= shown
       /\ pages[key].expires \in page_clock + 1 .. page_clock + Lifetime
  /\ \A r \in Requests :
       request[r].stage \in {"none", "lookup", "view", "rendered", "handling", "committed",
                             "answered"}

\* Who changed something and then opens a page sees the change, whatever pages of the
\* session were rendered meanwhile; unless a request that had loaded the session before
\* the change saved it afterwards, and brought the old epoch back.  A change whose request
\* ended with a server error is not promised to the session at once.
OwnChangesAreShown ==
  ~ restored => \A r \in Displayed : request[r].version >= request[r].own

\* Once a topology change has been announced, no page shows the topology before it,
\* except to a request that could not read the generation.
TopologyIsShown ==
  \A r \in Displayed : request[r].version >= request[r].topology \/ request[r].blind

\* Both kinds of change that invalidate pages are shown at once.
InvalidatedPagesGo == OwnChangesAreShown /\ TopologyIsShown

\* "Other sessions see changes within the TTL": every change, restored epochs, lost
\* invalidations and outages included, is shown after the lifetime of a page and the
\* time a request may take to render it.
ChangesShowInTime ==
  \A r \in Displayed : request[r].version >= request[r].lasting
=============================================================================
