---------------------------- MODULE DomainClient ----------------------------
(***************************************************************************)
(* The LDAP client of a directory operation (net/domain/client.py).  A     *)
(* call of execute is a sequence of requests about one directory object;   *)
(* no transaction joins them, and each may be refused or lose its answer.  *)
(* Calls overlap: the thread of a lost claim or of a cancelled task goes   *)
(* on beside its successor, and administrators change the directory too.   *)
(* DomainOperations has the tasks that these calls belong to.              *)
(***************************************************************************)
EXTENDS Naturals, FiniteSets

CONSTANTS
  Calls, Groups,
  Flags,           \* the bits of userAccountControl that the actions change
  ClientPlans,     \* requests of the calls, the server and how the object starts
  MaxUacWrites,    \* MAX_UAC_WRITE_ATTEMPTS
  NoGroup, NoCall

ClientActions == {"flag", "add_group", "remove_group", "move_group", "create_user",
                  "reset_password"}

\* enable, disable and password_never_expires set one flag.
Request == [action : ClientActions, flag : Flags, value : BOOLEAN, group : Groups,
            source : Groups]

\* The object that has the directory name: nobody, the user a create_user asks for,
\* or another one.  Members of the primary group are not among its members.
DirectoryObject ==
  [login : {"none", "asked", "other"}, flags : SUBSET Flags, groups : SUBSET Groups,
   primary : Groups \cup {NoGroup}, password : Calls \cup {NoCall}]

\* asserts: the server knows assertion controls; edits: what administrators may do.
ASSUME ClientAssumption ==
  /\ ClientPlans \subseteq [requests : [Calls -> Request], asserts : BOOLEAN,
                            object : DirectoryObject, edits : Nat]
  /\ \A plan \in ClientPlans :
       plan.object.login = "none" => plan.object.flags = {} /\ plan.object.groups = {}
  /\ MaxUacWrites \in Nat \ {0} /\ NoGroup \notin Groups /\ NoCall \notin Calls

VARIABLES
  client_plan,    \* the member of ClientPlans (never changes)
  ad_object,      \* the directory object (external)
  client_call,    \* the running calls; current is the userAccountControl it has read
  client_edits    \* bounds the administrators

clientVars == <<client_plan, ad_object, client_call, client_edits>>

\* known: the object is still the one that the call has created or checked (history).
NewCall == [at |-> "idle", current |-> {}, tries |-> 0, known |-> FALSE]

RequestOf(c) == client_plan.requests[c]
ActionOf(c)  == RequestOf(c).action

ClientInit ==
  /\ client_plan \in ClientPlans
  /\ ad_object = client_plan.object
  /\ client_call = [c \in Calls |-> NewCall]
  /\ client_edits = 0

Results == {"success", "failed", "source_pending", "password_pending", "manual"}
At(c)     == client_call[c].at
Exists    == ad_object.login # "none"

-----------------------------------------------------------------------------
(* One request.                                                            *)

Becomes(c, call) ==
  /\ client_call' = [client_call EXCEPT ![c] = call]
  /\ UNCHANGED <<client_plan, client_edits>>

Goes(c, at)  == Becomes(c, [client_call[c] EXCEPT !.at = at])
Keeps(c, at) == Goes(c, at) /\ UNCHANGED ad_object

\* The stage that a call reports when a request is refused.
refused(c) ==
  IF ActionOf(c) = "move_group" /\ At(c) \in {"rechecking", "removing", "compare_removed"}
  THEN "source_pending"
  ELSE IF At(c) = "matching" THEN "manual"
  ELSE IF ActionOf(c) = "create_user" /\ At(c) = "setting_password" THEN "password_pending"
  ELSE "failed"

\* The same when it is not known whether the request was carried out.
unconfirmed(c) == IF At(c) = "adding_user" THEN "manual" ELSE refused(c)

\* Nothing has been changed: the request was refused, or its answer is lost.
Fails(c) == Keeps(c, refused(c)) \/ Keeps(c, unconfirmed(c))

\* A change that is carried out and confirmed, carried out only, or neither.
Change(c, object, call) ==
  \/ ad_object' = object /\ Becomes(c, call)
  \/ ad_object' = object /\ Goes(c, unconfirmed(c))
  \/ Fails(c)

Modify(c, object, at) == Change(c, object, [client_call[c] EXCEPT !.at = at])

\* execute: the password transport and the connection may be refused.  A recovery is
\* the retry of a creation that has left a user without password.
first_step(c, recovery) ==
  CASE ActionOf(c) = "flag"           -> "reading"
    [] ActionOf(c) = "add_group"      -> "adding"
    [] ActionOf(c) = "remove_group"   -> "checking"
    [] ActionOf(c) = "move_group"     -> "checking_source"
    [] ActionOf(c) = "create_user"    -> IF recovery THEN "matching" ELSE "adding_user"
    [] ActionOf(c) = "reset_password" -> "setting_password"

Execute(c, recovery) ==
  /\ At(c) = "idle"
  /\ recovery => ActionOf(c) = "create_user" /\ \E d \in Calls : At(d) = "password_pending"
  /\ Keeps(c, first_step(c, recovery)) \/ Keeps(c, "failed")

-----------------------------------------------------------------------------
(* _modify_uac: read, change one flag and write what was read.             *)

uac_value(c, flags) ==
  IF RequestOf(c).value THEN flags \cup {RequestOf(c).flag} ELSE flags \ {RequestOf(c).flag}

\* Mutant: the write does not assert what was read.
asserted_Always(c) == Exists

\* The assertion control: the flags are still those that were read.
asserted(c) == ad_object.flags = client_call[c].current

ReadUac(c) ==
  /\ At(c) = "reading"
  /\ \/ /\ Exists
        /\ Becomes(c, [client_call[c] EXCEPT !.at = "writing", !.current = ad_object.flags])
        /\ UNCHANGED ad_object
     \/ Fails(c)

with_flags(c) == [ad_object EXCEPT !.flags = uac_value(c, client_call[c].current)]

WriteUac(c) ==
  /\ At(c) = "writing" /\ client_plan.asserts /\ Exists /\ asserted(c)
  /\ Modify(c, with_flags(c), "success")

\* Somebody else has written in between: it is read again, a limited number of times.
AssertionFails(c) ==
  LET tries == client_call[c].tries + 1
  IN /\ At(c) = "writing" /\ client_plan.asserts /\ ~ (Exists /\ asserted(c))
     /\ Becomes(c, [client_call[c] EXCEPT !.tries = tries, !.at =
                      IF ~ Exists \/ tries = MaxUacWrites THEN "failed" ELSE "reading"])
     /\ UNCHANGED ad_object

\* A server that does not know the control has changed nothing.
ControlUnavailable(c) ==
  /\ At(c) = "writing" /\ ~ client_plan.asserts
  /\ Keeps(c, "rereading") \/ Fails(c)

\* _modify_uac_compatible: no atomic comparison, but the result is read back.
RereadUac(c) ==
  /\ At(c) = "rereading"
  /\ \/ /\ Exists
        /\ Becomes(c, [client_call[c] EXCEPT !.current = ad_object.flags, !.at =
             IF uac_value(c, ad_object.flags) = ad_object.flags THEN "success"
             ELSE "plain_writing"])
        /\ UNCHANGED ad_object
     \/ Fails(c)

PlainWriteUac(c) ==
  /\ At(c) = "plain_writing"
  /\ IF Exists THEN Modify(c, with_flags(c), "reading_back") ELSE Fails(c)

ReadBack(c) ==
  /\ At(c) = "reading_back"
  /\ \/ /\ Exists /\ ad_object.flags = uac_value(c, client_call[c].current)
        /\ Keeps(c, "success")
     \/ Fails(c)

-----------------------------------------------------------------------------
(* Groups.  A move adds first and removes only when the addition is known. *)

after_addition(c) == IF ActionOf(c) = "move_group" THEN "rechecking" ELSE "success"

AddMember(c) ==
  LET group == RequestOf(c).group
  IN /\ At(c) = "adding"
     /\ IF Exists /\ group \notin ad_object.groups \cup {ad_object.primary}
        THEN Modify(c, [ad_object EXCEPT !.groups = @ \cup {group}], after_addition(c))
        ELSE \/ Exists /\ group \in ad_object.groups /\ Keeps(c, "compare_added")
             \/ Fails(c)

\* "Already a member": a retry may meet its own change.
CompareAdded(c) ==
  /\ At(c) = "compare_added"
  /\ \/ RequestOf(c).group \in ad_object.groups /\ Keeps(c, after_addition(c))
     \/ Fails(c)

\* _check_removable_group: the primary group cannot be left, nor can a move end in the
\* group it leaves.
CheckRemovable(c) ==
  /\ At(c) \in {"checking", "checking_source", "rechecking"}
  /\ \/ /\ Exists /\ RequestOf(c).source # ad_object.primary
        /\ At(c) = "checking_source" => RequestOf(c).group # RequestOf(c).source
        /\ Keeps(c, IF At(c) = "checking_source" THEN "adding" ELSE "removing")
     \/ Fails(c)

RemoveMember(c) ==
  LET group == RequestOf(c).source
  IN /\ At(c) = "removing"
     /\ IF Exists /\ group \in ad_object.groups
        THEN Modify(c, [ad_object EXCEPT !.groups = @ \ {group}], "success")
        ELSE \/ Exists /\ Keeps(c, "compare_removed")
             \/ Fails(c)

CompareRemoved(c) ==
  /\ At(c) = "compare_removed"
  /\ \/ RequestOf(c).source \notin ad_object.groups /\ Keeps(c, "success")
     \/ Fails(c)

-----------------------------------------------------------------------------
(* Users and passwords.                                                    *)

AddUser(c) ==
  /\ At(c) = "adding_user"
  /\ IF Exists THEN Fails(c)
     ELSE Change(c, [login |-> "asked", flags |-> {}, groups |-> {}, primary |-> NoGroup,
                     password |-> NoCall],
                 [client_call[c] EXCEPT !.at = "setting_password", !.known = TRUE])

created_user_matches == ad_object.login = "asked"

\* _created_user_matches: the name must still belong to the user of the operation.
MatchUser(c) ==
  /\ At(c) = "matching"
  /\ \/ /\ created_user_matches
        /\ Becomes(c, [client_call[c] EXCEPT !.at = "setting_password", !.known = TRUE])
        /\ UNCHANGED ad_object
     \/ Fails(c)

SetPassword(c) ==
  /\ At(c) = "setting_password"
  /\ IF Exists THEN Modify(c, [ad_object EXCEPT !.password = c], "success") ELSE Fails(c)

-----------------------------------------------------------------------------
(* Administrators.                                                         *)

ClientEdit(object) ==
  /\ client_edits < client_plan.edits /\ client_edits' = client_edits + 1
  /\ object # ad_object /\ ad_object' = object
  /\ UNCHANGED client_plan

EditFlag(f) ==
  /\ Exists /\ UNCHANGED client_call
  /\ ClientEdit([ad_object EXCEPT !.flags = IF f \in @ THEN @ \ {f} ELSE @ \cup {f}])

EditGroups(g) ==
  /\ Exists /\ g # ad_object.primary /\ UNCHANGED client_call
  /\ ClientEdit([ad_object EXCEPT !.groups = IF g \in @ THEN @ \ {g} ELSE @ \cup {g}])

\* The new primary group must have been a group; the old one becomes one.
EditPrimary(g) ==
  /\ g \in ad_object.groups /\ UNCHANGED client_call
  /\ ClientEdit([ad_object EXCEPT !.primary = g,
                   !.groups = (@ \ {g}) \cup ({ad_object.primary} \ {NoGroup})])

\* The name is deleted or given to somebody else.
EditUser(login) ==
  /\ ClientEdit([login |-> login, flags |-> {}, groups |-> {}, primary |-> NoGroup,
                 password |-> NoCall])
  /\ client_call' = [c \in Calls |-> [client_call[c] EXCEPT !.known = FALSE]]

ClientStep(c) ==
  \/ \E recovery \in BOOLEAN : Execute(c, recovery)
  \/ ReadUac(c) \/ WriteUac(c) \/ AssertionFails(c) \/ ControlUnavailable(c)
  \/ RereadUac(c) \/ PlainWriteUac(c) \/ ReadBack(c)
  \/ AddMember(c) \/ CompareAdded(c) \/ CheckRemovable(c) \/ RemoveMember(c)
  \/ CompareRemoved(c)
  \/ AddUser(c) \/ MatchUser(c) \/ SetPassword(c)

ClientNext ==
  \/ \E c \in Calls : ClientStep(c)
  \/ \E f \in Flags : EditFlag(f)
  \/ \E g \in Groups : EditGroups(g) \/ EditPrimary(g)
  \/ \E login \in {"none", "other"} : EditUser(login)

ClientSpec == ClientInit /\ [][ClientNext]_clientVars

-----------------------------------------------------------------------------
(* Properties.                                                             *)

Steps == {"idle", "reading", "writing", "rereading", "plain_writing", "reading_back",
          "adding", "compare_added", "checking", "checking_source", "rechecking", "removing",
          "compare_removed", "adding_user", "matching", "setting_password"}

\* The object and the calls keep their types; an assertion fails MaxUacWrites times at
\* most.
ClientTypeOK ==
  /\ client_plan \in ClientPlans /\ ad_object \in DirectoryObject
  /\ \A c \in Calls :
       client_call[c] \in [at : Steps \cup Results, current : SUBSET Flags,
                           tries : 0 .. MaxUacWrites, known : BOOLEAN]
  /\ client_edits \in 0 .. client_plan.edits

\* With a server that knows assertions, a change of the flags is that of an
\* administrator or sets the one flag of a request in the flags as they are.
FlagsAreKept ==
  client_plan.asserts /\ ad_object'.flags # ad_object.flags /\ client_edits' = client_edits
    => \E c \in Calls : /\ client_call'[c] # client_call[c] /\ ActionOf(c) = "flag"
                        /\ ad_object'.flags = uac_value(c, ad_object.flags)

\* The password of a creation is only given to the user it was meant for, unless the
\* name changes hands between the check and the write.
PasswordIsOwn ==
  ad_object'.password \notin {ad_object.password, NoCall}
    => LET c == ad_object'.password
       IN ActionOf(c) = "create_user" => ad_object.login = "asked" \/ ~ client_call[c].known

\* While moves from one group to another run, repeat each other's requests and lose
\* answers, the object is in one of the two groups.
OnlyMoves(g, h) ==
  \A c \in Calls : LET r == RequestOf(c)
                   IN r.action = "move_group" /\ r.source = g /\ r.group = h

StaysMember ==
  \A g, h \in Groups :
    OnlyMoves(g, h) /\ client_edits' = 0 /\ ad_object.groups \cap {g, h} # {}
      => ad_object'.groups \cap {g, h} # {}

\* Calls change in the directory what they were asked for and nothing else, whatever
\* other calls and administrators do between their requests.
CallsKeepToTheirRequest == [][FlagsAreKept /\ PasswordIsOwn /\ StaysMember]_clientVars
=============================================================================
