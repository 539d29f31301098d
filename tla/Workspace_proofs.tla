--------------------------- MODULE Workspace_proofs ---------------------------
(***************************************************************************)
(* Proofs about Workspace for any number of users and simultaneous calls,  *)
(* any number of requests and any limit on seats.                          *)
(***************************************************************************)
EXTENDS Workspace, FiniteSetTheorems, TLAPS

USE WorkspaceAssumption

-----------------------------------------------------------------------------
(* Types.                                                                  *)

(* What a call looks like once it is under way.                            *)
LEMMA CallFields ==
    ASSUME TypeOK, NEW c \in Call, call[c] # Idle
    PROVE  /\ call[c] \in [at : Stage, op : Op, actor : User, target : User, as : Role]
           /\ call[c].at \in Steps(call[c].op)
           /\ call[c].at \in Stage /\ call[c].op \in Op
           /\ call[c].actor \in User /\ call[c].target \in User /\ call[c].as \in Role
BY DEF TypeOK, CallState

(* No statement is named idle, and no operation none.                      *)
LEMMA StagesAreNamed == "idle" \notin Stage /\ "none" \notin Op
BY DEF Stage, Steps, Op, OwnerOp

(* A call at a statement is under way.                                     *)
LEMMA AtWork ==
    ASSUME TypeOK, NEW c \in Call, call[c].at # "idle"
    PROVE  call[c] # Idle
BY DEF Idle

(* Where Goto leads.                                                       *)
Moved(c, stage) ==
    /\ call' \in [Call -> CallState]
    /\ \A d \in Call \ {c} : call'[d] = call[d]
    /\ stage = "idle" => call'[c] = Idle
    /\ stage # "idle" => /\ call'[c].at = stage /\ call'[c].op = call[c].op
                         /\ call'[c].actor = call[c].actor
                         /\ call'[c].target = call[c].target /\ call'[c].as = call[c].as

(* Goto leads to the named statement, if the operation has it.             *)
LEMMA GotoMoves ==
    ASSUME TypeOK, NEW c \in Call, call[c] # Idle, NEW stage, Goto(c, stage),
           stage = "idle" \/ stage \in Steps(call[c].op)
    PROVE  Moved(c, stage)
<1>1. call[c] \in [at : Stage, op : Op, actor : User, target : User, as : Role]
  BY CallFields
<1>2. CASE stage = "idle"
  <2>1. call' = [call EXCEPT ![c] = Idle]
    BY <1>2 DEF Goto
  <2> QED BY <2>1, <1>2 DEF TypeOK, CallState, Moved
<1>3. CASE stage # "idle"
  <2>1. call' = [call EXCEPT ![c] = [call[c] EXCEPT !.at = stage]]
    BY <1>3 DEF Goto, TypeOK
  <2>2. stage \in Stage
    BY <1>1, <1>3 DEF Stage
  <2> DEFINE k == [call[c] EXCEPT !.at = stage]
  <2>3. /\ k \in [at : Stage, op : Op, actor : User, target : User, as : Role]
        /\ k.at = stage /\ k.op = call[c].op /\ k.actor = call[c].actor
        /\ k.target = call[c].target /\ k.as = call[c].as
    BY <1>1, <2>2
  <2>4. k \in CallState
    BY <2>3, <1>3 DEF CallState
  <2> HIDE DEF k
  <2>5. call' = [call EXCEPT ![c] = k]
    BY <2>1 DEF k
  <2> QED BY <2>3, <2>4, <2>5, <1>3 DEF TypeOK, Moved
<1> QED BY <1>2, <1>3

(* A new call is well typed.                                               *)
LEMMA StartTyped ==
    ASSUME TypeOK, NEW c \in Call, NEW o \in Op, NEW a \in User, NEW t \in User, NEW r \in Role,
           NEW stage \in Steps(o), Start(c, o, a, t, r, stage)
    PROVE  /\ TypeOK'
           /\ call'[c] = [at |-> stage, op |-> o, actor |-> a, target |-> t, as |-> r]
           /\ \A d \in Call \ {c} : call'[d] = call[d]
<1> DEFINE k == [at |-> stage, op |-> o, actor |-> a, target |-> t, as |-> r]
<1>1. stage \in Stage
  BY DEF Stage
<1>2. k \in CallState
  BY <1>1 DEF CallState
<1>3. call' = [call EXCEPT ![c] = k]
  BY DEF Start
<1> HIDE DEF k
<1>4. call' \in [Call -> CallState] /\ call'[c] = k /\ \A d \in Call \ {c} : call'[d] = call[d]
  BY <1>2, <1>3 DEF TypeOK
<1>5. requests' \in 0..MaxRequests
  BY DEF Start, TypeOK
<1>6. excuses' \in SUBSET {"overlap", "halfTransfer", "abandoned"}
  BY DEF Start, TypeOK
<1>7. TypeOK'
  BY <1>4, <1>5, <1>6 DEF Start, TypeOK, rowVars, userVars
<1> QED BY <1>4, <1>7 DEF k

(* A step that leaves the rows alone and goes to a statement of its        *)
(* operation, or to an end, keeps the types.                               *)
LEMMA MovedTyped ==
    ASSUME TypeOK, NEW c \in Call, NEW stage, Moved(c, stage),
           email' \in [User -> Email],
           disabled' \in [User -> BOOLEAN],
           status' \in [User -> {"none", "invited", "active", "disabled"}],
           role' \in [User -> Role],
           invitation' \in [User -> SUBSET {"sent", "expired", "accepted", "revoked"}],
           readmitted' \in SUBSET User, left' \in SUBSET User, requests' = requests,
           excuses' \in SUBSET {"overlap", "halfTransfer", "abandoned"}
    PROVE  TypeOK'
BY DEF TypeOK, Moved

(* Requests that begin.                                                    *)
LEMMA RequestsTyped ==
    ASSUME TypeOK, NEW c \in Call, Request(c) \/ PresentToken(c) \/ RequestDeletion(c)
    PROVE  TypeOK'
<1>1. CASE Request(c)
  <2>1. PICK o \in OwnerOp, a \in User, t \in User, r \in Role : Start(c, o, a, t, r, "role")
    BY <1>1 DEF Request
  <2>2. o \in Op /\ "role" \in Steps(o)
    BY DEF OwnerOp, Op, Steps
  <2> QED BY <2>1, <2>2, StartTyped
<1>2. CASE PresentToken(c)
  <2>1. PICK u \in User : Start(c, "accept", u, u, "member", "member")
    BY <1>2 DEF PresentToken
  <2>2. "accept" \in Op /\ "member" \in Steps("accept") /\ "member" \in Role
    BY DEF Op, Steps, Role
  <2> QED BY <2>1, <2>2, StartTyped
<1>3. CASE RequestDeletion(c)
  <2>1. PICK u \in User : Start(c, "deleteAccount", u, u, "member", "memberships")
    BY <1>3 DEF RequestDeletion
  <2>2. /\ "deleteAccount" \in Op /\ "memberships" \in Steps("deleteAccount")
        /\ "member" \in Role
    BY DEF Op, Steps, Role
  <2> QED BY <2>1, <2>2, StartTyped
<1> QED BY <1>1, <1>2, <1>3

(* What is read before anything is written.                                *)
Reading(c) ==
    \/ RequireOwner(c) \/ ReadMember(c) \/ CountOwners(c) \/ ReadEmail(c) \/ CountSeats(c)
    \/ ReadPending(c) \/ ReadMemberships(c) \/ CountOtherOwners(c) \/ CountOthers(c)

(* Every read goes on to a statement of its operation or ends the call.    *)
LEMMA ReadingMoves ==
    ASSUME TypeOK, NEW c \in Call, Reading(c)
    PROVE  \E stage : /\ Moved(c, stage) /\ Goto(c, stage)
                      /\ stage = "idle" \/ stage \in Steps(call[c].op)
<1> USE StagesAreNamed
<1>0. call[c] # Idle
  BY AtWork DEF Reading, RequireOwner, ReadMember, CountOwners, ReadEmail, CountSeats,
     ReadPending, ReadMemberships, CountOtherOwners, CountOthers
<1>1. call[c].op \in Op /\ call[c].at \in Steps(call[c].op)
  BY <1>0, CallFields
<1> SUFFICES \E stage : Goto(c, stage) /\ (stage = "idle" \/ stage \in Steps(call[c].op))
  BY <1>0, GotoMoves
<1>2. CASE RequireOwner(c)
  <2>1. /\ call[c].op = "invite" => "email" \in Steps(call[c].op)
        /\ call[c].op # "invite" => "member" \in Steps(call[c].op)
    BY <1>1, <1>2 DEF RequireOwner, Steps, Op, OwnerOp
  <2> QED BY <1>2, <2>1 DEF RequireOwner, Require
<1>3. CASE ReadMember(c)
  <2>1. /\ Change(call[c].op) \in Steps(call[c].op)
        /\ TakesOwner(c) => "count" \in Steps(call[c].op)
    BY <1>1, <1>3 DEF ReadMember, TakesOwner, Change, Steps, Op, OwnerOp
  <2> QED BY <1>3, <2>1 DEF ReadMember, Require
<1>4. CASE CountOwners(c)
  <2>1. Change(call[c].op) \in Steps(call[c].op)
    BY <1>1, <1>4 DEF CountOwners, Change, Steps, Op, OwnerOp
  <2> QED BY <1>4, <2>1 DEF CountOwners, Require
<1>5. CASE ReadEmail(c)
  <2>1. /\ call[c].op = "invite" => "seats" \in Steps(call[c].op)
        /\ call[c].op # "invite" => "rotate" \in Steps(call[c].op)
    BY <1>1, <1>5 DEF ReadEmail, Steps, Op, OwnerOp
  <2> QED BY <1>5, <2>1 DEF ReadEmail, Require
<1>6. CASE CountSeats(c)
  <2>1. /\ call[c].op = "invite" => "insertUser" \in Steps(call[c].op)
        /\ call[c].op # "invite" => "enableUser" \in Steps(call[c].op)
    BY <1>1, <1>6 DEF CountSeats, Steps, Op, OwnerOp
  <2> QED BY <1>6, <2>1 DEF CountSeats, Require
<1>7. CASE ReadPending(c)
  <2>1. /\ call[c].op = "resend" => "email" \in Steps(call[c].op)
        /\ call[c].op # "resend" => "revoke" \in Steps(call[c].op)
    BY <1>1, <1>7 DEF ReadPending, Steps, Op, OwnerOp
  <2> QED BY <1>7, <2>1 DEF ReadPending, Require
<1>8. CASE ReadMemberships(c)
  <2>1. "owners" \in Steps(call[c].op) /\ "anonymize" \in Steps(call[c].op)
    BY <1>1, <1>8 DEF ReadMemberships, Steps, Op, OwnerOp
  <2> QED BY <1>8, <2>1 DEF ReadMemberships
<1>9. CASE CountOtherOwners(c)
  <2>1. "others" \in Steps(call[c].op) /\ "anonymize" \in Steps(call[c].op)
    BY <1>1, <1>9 DEF CountOtherOwners, Steps, Op, OwnerOp
  <2> QED BY <1>9, <2>1 DEF CountOtherOwners
<1>10. CASE CountOthers(c)
  <2>1. "anonymize" \in Steps(call[c].op)
    BY <1>1, <1>10 DEF CountOthers, Steps, Op, OwnerOp
  <2> QED BY <1>10, <2>1 DEF CountOthers, Require
<1> QED BY <1>2, <1>3, <1>4, <1>5, <1>6, <1>7, <1>8, <1>9, <1>10 DEF Reading

(* A read changes no row, and excuses at most the abandoned workspace.     *)
LEMMA ReadingFrame ==
    ASSUME TypeOK, NEW c \in Call, Reading(c)
    PROVE  /\ UNCHANGED <<rowVars, readmitted, left, requests>>
           /\ excuses' \in {excuses, excuses \union {"abandoned"}}
<1>1. CASE CountOthers(c)
  BY <1>1 DEF CountOthers
<1>2. CASE ~CountOthers(c)
  BY <1>2 DEF Reading, Reads, RequireOwner, ReadMember, CountOwners, ReadEmail, CountSeats,
     ReadPending, ReadMemberships, CountOtherOwners
<1> QED BY <1>1, <1>2

(* Reads keep the types.                                                   *)
LEMMA ReadingTyped ==
    ASSUME TypeOK, NEW c \in Call, Reading(c)
    PROVE  TypeOK'
<1>1. PICK stage : Moved(c, stage)
  BY ReadingMoves
<1>2. /\ email' = email /\ disabled' = disabled /\ status' = status /\ role' = role
      /\ invitation' = invitation /\ readmitted' = readmitted /\ left' = left
      /\ requests' = requests
      /\ excuses' \in SUBSET {"overlap", "halfTransfer", "abandoned"}
  BY ReadingFrame DEF rowVars, userVars, TypeOK
<1>3. /\ email \in [User -> Email]
      /\ disabled \in [User -> BOOLEAN]
      /\ status \in [User -> {"none", "invited", "active", "disabled"}]
      /\ role \in [User -> Role]
      /\ invitation \in [User -> SUBSET {"sent", "expired", "accepted", "revoked"}]
      /\ readmitted \in SUBSET User /\ left \in SUBSET User
  BY DEF TypeOK
<1> QED BY <1>1, <1>2, <1>3, MovedTyped

(* What is written.                                                        *)
Writing(c) == WriteAccount(c) \/ StampInvitation(c) \/ WriteMembership(c)

(* A call that writes is under way.                                        *)
LEMMA WriterAtWork ==
    ASSUME TypeOK, NEW c \in Call, Writing(c)
    PROVE  /\ call[c] # Idle
           /\ call[c].op \in Op /\ call[c].at \in Steps(call[c].op)
           /\ call[c].actor \in User /\ call[c].target \in User /\ call[c].as \in Role
<1>1. call[c].at # "idle"
  BY DEF Writing, WriteAccount, StampInvitation, WriteMembership, InsertUser, EnableUser,
     SuspendUser, RestoreUser, Erase, InsertInvitation, RotateToken, StampRevoked,
     StampAccepted, InsertMember, Activate, Suspend, Restore, DeleteMember, SetRole, Demote,
     Promote, Anonymize
<1> QED BY <1>1, AtWork, CallFields

(* Writes to accounts go on to a statement of their operation or to its    *)
(* end, and keep the types.                                                *)
LEMMA WriteAccountTyped ==
    ASSUME TypeOK, NEW c \in Call, WriteAccount(c)
    PROVE  /\ TypeOK'
           /\ \E stage : Moved(c, stage) /\ Goto(c, stage)
<1>1. /\ call[c] # Idle
      /\ call[c].op \in Op /\ call[c].at \in Steps(call[c].op)
      /\ call[c].target \in User
  BY WriterAtWork DEF Writing
<1>2. /\ email' \in [User -> Email]
      /\ disabled' \in [User -> BOOLEAN]
      /\ UNCHANGED <<status, role, invitation, readmitted, left, excuses, requests>>
  BY <1>1 DEF Email, Gone, TypeOK, WriteAccount, InsertUser, EnableUser, SuspendUser, RestoreUser, Erase,
     WriteDisabled, userVars
<1>3. \E stage : Goto(c, stage) /\ (stage = "idle" \/ stage \in Steps(call[c].op))
  <2>1. call[c].at = "insertUser" => "insertMember" \in Steps(call[c].op)
    BY <1>1 DEF Steps, Op, OwnerOp
  <2>2. call[c].at = "enableUser" => "activate" \in Steps(call[c].op)
    BY <1>1 DEF Steps, Op, OwnerOp
  <2> QED BY <2>1, <2>2 DEF WriteAccount, InsertUser, Require, EnableUser, SuspendUser,
             RestoreUser, Erase, WriteDisabled
<1>4. PICK stage : Moved(c, stage) /\ Goto(c, stage)
  BY <1>1, <1>3, GotoMoves
<1>5. TypeOK'
  BY <1>2, <1>4, MovedTyped DEF TypeOK
<1> QED BY <1>4, <1>5

(* So do stamps on invitations.                                            *)
LEMMA StampInvitationTyped ==
    ASSUME TypeOK, NEW c \in Call, StampInvitation(c)
    PROVE  /\ TypeOK'
           /\ \E stage : Moved(c, stage) /\ Goto(c, stage)
<1>1. /\ call[c] # Idle
      /\ call[c].op \in Op /\ call[c].at \in Steps(call[c].op)
      /\ call[c].target \in User
  BY WriterAtWork DEF Writing
<1>2. /\ invitation' \in [User -> SUBSET {"sent", "expired", "accepted", "revoked"}]
      /\ UNCHANGED <<email, disabled, status, role, readmitted, left, excuses, requests>>
  BY <1>1 DEF TypeOK, StampInvitation, InsertInvitation, RotateToken, StampRevoked,
     StampAccepted, WriteInvitation, userVars
<1>3. \E stage : Goto(c, stage) /\ (stage = "idle" \/ stage \in Steps(call[c].op))
  <2>1. call[c].at = "revoke" => "delete" \in Steps(call[c].op)
    BY <1>1 DEF Steps, Op, OwnerOp
  <2> QED BY <2>1 DEF StampInvitation, InsertInvitation, RotateToken, StampRevoked,
             StampAccepted, WriteInvitation
<1>4. PICK stage : Moved(c, stage) /\ Goto(c, stage)
  BY <1>1, <1>3, GotoMoves
<1>5. TypeOK'
  BY <1>2, <1>4, MovedTyped DEF TypeOK
<1> QED BY <1>4, <1>5

(* So do writes to memberships.                                            *)
LEMMA WriteMembershipTyped ==
    ASSUME TypeOK, NEW c \in Call, WriteMembership(c)
    PROVE  /\ TypeOK'
           /\ \E stage : Moved(c, stage) /\ Goto(c, stage)
<1>1. /\ call[c] # Idle
      /\ call[c].op \in Op /\ call[c].at \in Steps(call[c].op)
      /\ call[c].target \in User /\ call[c].actor \in User /\ call[c].as \in Role
  BY WriterAtWork DEF Writing
<1>2. /\ invitation' \in [User -> SUBSET {"sent", "expired", "accepted", "revoked"}]
      /\ excuses' \in SUBSET {"overlap", "halfTransfer", "abandoned"}
      /\ requests' = requests
  BY DEF TypeOK, WriteMembership, InsertMember, Activate, Suspend, Restore, DeleteMember,
     SetRole, Demote, Promote, Anonymize, WriteStatus, WriteRole
<1>3. /\ status' \in [User -> {"none", "invited", "active", "disabled"}]
      /\ readmitted' \in SUBSET User
  BY <1>1 DEF TypeOK, WriteMembership, InsertMember, Activate, Suspend, Restore, DeleteMember,
     SetRole, Demote, Promote, Anonymize, WriteStatus, SetStatus, WriteRole
<1>4. role' \in [User -> Role]
  BY <1>1 DEF TypeOK, WriteMembership, InsertMember, Activate, Suspend, Restore, DeleteMember,
     SetRole, Demote, Promote, Anonymize, WriteStatus, WriteRole, Role
<1>5. left' \in SUBSET User
  BY <1>1 DEF TypeOK, WriteMembership, InsertMember, Activate, Suspend, Restore, DeleteMember,
     SetRole, Demote, Promote, Anonymize, WriteStatus, WriteRole
<1>6. /\ email' \in [User -> Email]
      /\ disabled' \in [User -> BOOLEAN]
  BY <1>1 DEF Email, Gone, TypeOK, WriteMembership, InsertMember, Activate, Suspend, Restore,
     DeleteMember, SetRole, Demote, Promote, Anonymize, WriteStatus, WriteRole, userVars
<1>7. \E stage : Goto(c, stage) /\ (stage = "idle" \/ stage \in Steps(call[c].op))
  <2>1. /\ call[c].at = "insertMember" => "insertInvitation" \in Steps(call[c].op)
        /\ call[c].at = "activate" => "stamp" \in Steps(call[c].op)
        /\ call[c].at = "suspend" => "suspendUser" \in Steps(call[c].op)
    BY <1>1 DEF Steps, Op, OwnerOp
  <2>2. /\ call[c].at = "restore" => "restoreUser" \in Steps(call[c].op)
        /\ call[c].op = "revoke" => "erase" \in Steps(call[c].op)
        /\ call[c].at = "demote" => "promote" \in Steps(call[c].op)
    BY <1>1 DEF Steps, Op, OwnerOp
  <2> QED BY <2>1, <2>2 DEF WriteMembership, InsertMember, Activate, Suspend, Restore,
             DeleteMember, SetRole, Demote, Promote, Anonymize, WriteStatus, WriteRole
<1>8. PICK stage : Moved(c, stage) /\ Goto(c, stage)
  BY <1>1, <1>7, GotoMoves
<1>9. TypeOK'
  BY <1>2, <1>3, <1>4, <1>5, <1>6, <1>8, MovedTyped
<1> QED BY <1>8, <1>9

(* A call that dies keeps the types.                                       *)
LEMMA CrashTyped ==
    ASSUME TypeOK, NEW c \in Call, Crash(c)
    PROVE  TypeOK' /\ Moved(c, "idle")
<1>1. Moved(c, "idle")
  BY GotoMoves DEF Crash
<1>2. excuses' \in SUBSET {"overlap", "halfTransfer", "abandoned"}
  BY DEF Crash, TypeOK
<1> QED BY <1>1, <1>2, MovedTyped DEF Crash, TypeOK, rowVars, userVars

(* An invitation that expires keeps them too.                              *)
LEMMA ExpireTyped ==
    ASSUME TypeOK, NEW u \in User, Expire(u)
    PROVE  TypeOK'
BY DEF Expire, TypeOK, userVars

(* The state keeps its type.                                               *)
LEMMA TypeStep ==
    ASSUME TypeOK, [Next]_vars
    PROVE  TypeOK'
<1>1. ASSUME NEW c \in Call, Check(c) PROVE TypeOK'
  BY <1>1, RequestsTyped, ReadingTyped, CrashTyped DEF Check, Reading
<1>2. ASSUME NEW c \in Call, Writing(c) PROVE TypeOK'
  BY <1>2, WriteAccountTyped, StampInvitationTyped, WriteMembershipTyped DEF Writing
<1>3. CASE UNCHANGED vars
  BY <1>3 DEF vars, rowVars, userVars, TypeOK
<1> QED BY <1>1, <1>2, <1>3, ExpireTyped DEF Next, Writing

(* A workspace between calls is well typed.                                *)
LEMMA InitTyped == Init => TypeOK
<1> SUFFICES ASSUME Init PROVE TypeOK
  OBVIOUS
<1>1. Idle \in CallState
  BY DEF CallState
<1>2. call \in [Call -> CallState]
  BY <1>1 DEF Init
<1>3. /\ status \in [User -> {"none", "invited", "active", "disabled"}]
      /\ role \in [User -> Role]
  BY DEF Init
<1>4. invitation \in [User -> SUBSET {"sent", "expired", "accepted", "revoked"}]
  <2>1. PICK founder \in User :
          invitation = [u \in User |->
             CASE u = founder \/ status[u] = "none" -> {}
               [] status[u] = "invited" -> {"sent"}
               [] OTHER -> {"sent", "accepted"}]
    BY DEF Init
  <2> DEFINE f(u) == CASE u = founder \/ status[u] = "none" -> {}
                       [] status[u] = "invited" -> {"sent"}
                       [] OTHER -> {"sent", "accepted"}
  <2>2. \A u \in User : f(u) \in {{}, {"sent"}, {"sent", "accepted"}}
    OBVIOUS
  <2>3. invitation = [u \in User |-> f(u)]
    BY <2>1
  <2> HIDE DEF f
  <2> QED BY <2>2, <2>3
<1>5. /\ email \in [User -> Email]
      /\ disabled \in [User -> BOOLEAN]
      /\ readmitted = {} /\ left = {} /\ requests = 0 /\ excuses = {}
  BY DEF Email, Init
<1> QED BY <1>2, <1>3, <1>4, <1>5 DEF TypeOK

(* TypeOK: the rows, calls and histories keep their types.                 *)
THEOREM TypeCorrect == Spec => []TypeOK
BY InitTyped, TypeStep, PTL DEF Spec

-----------------------------------------------------------------------------
(* Who is known.                                                           *)
KnownInv == AccountsAreKnown /\ TargetsAreKnown /\ LeftForGood /\ ErasedAreOut

Others(c) == \A d \in Call \ {c} : call'[d] = call[d]

(* What Goto does to the call, whatever the statement.                     *)
Goes(c, stage) ==
    /\ Others(c)
    /\ stage = "idle" => call'[c] = Idle
    /\ stage # "idle" => /\ call'[c].at = stage /\ call'[c].op = call[c].op
                         /\ call'[c].actor = call[c].actor
                         /\ call'[c].target = call[c].target /\ call'[c].as = call[c].as

LEMMA GotoGoes ==
    ASSUME TypeOK, NEW c \in Call, call[c].at # "idle", NEW stage, Goto(c, stage)
    PROVE  Goes(c, stage)
<1>1. call[c] \in [at : Stage, op : Op, actor : User, target : User, as : Role]
  BY AtWork, CallFields
<1>2. CASE stage = "idle"
  BY <1>2 DEF Goto, TypeOK, Goes, Others
<1>3. CASE stage # "idle"
  <2> DEFINE k == [call[c] EXCEPT !.at = stage]
  <2>1. /\ k.at = stage /\ k.op = call[c].op /\ k.actor = call[c].actor
        /\ k.target = call[c].target /\ k.as = call[c].as
    BY <1>1
  <2>2. call' = [call EXCEPT ![c] = k]
    BY <1>3 DEF Goto, TypeOK
  <2> HIDE DEF k
  <2> QED BY <2>1, <2>2, <1>3 DEF TypeOK, Goes, Others
<1> QED BY <1>2, <1>3

(* A step after which the other calls still know their targets: the known  *)
(* stay known, and an account being invited stays new.                     *)
LEMMA TargetsStayKnown ==
    ASSUME TypeOK, TypeOK', TargetsAreKnown, NEW c \in Call, Others(c),
           TargetIsKnown(call[c])',
           \A u \in User : Known(u) => Known(u)',
           left \subseteq left',
           \A u \in User : ~Known(u) /\ email[u] = "held" =>
               \/ ~Known(u)' /\ email'[u] = "held"
               \/ call[c].at = "insertMember" /\ u = call[c].target,
           call'[c].at = "insertMember" => email[call'[c].target] = "unused"
    PROVE  TargetsAreKnown'
<1>0. \A d \in Call : call[d] # Idle => call[d].target \in User /\ call[d].actor \in User
  BY CallFields
<1>1. ASSUME NEW d \in Call \ {c} PROVE TargetIsKnown(call[d])'
  <2>1. call'[d] = call[d] /\ TargetIsKnown(call[d])
    BY DEF Others, TargetsAreKnown
  <2>2. CASE call[d] = Idle
    BY <2>1, <2>2 DEF TargetIsKnown, Idle, OwnerOp
  <2>3. CASE call[d] # Idle
    <3>1. call[d].target \in User /\ call[d].actor \in User
      BY <1>0, <2>3
    <3>2. call[d].at = "insertMember" =>
             ~(call[c].at = "insertMember" /\ call[c].target = call[d].target)
      BY DEF TargetsAreKnown
    <3> QED BY <2>1, <3>1, <3>2 DEF TargetIsKnown
  <2> QED BY <2>2, <2>3
<1>2. ASSUME NEW d \in Call, NEW e \in Call, call'[d].at = "insertMember",
             call'[e].at = "insertMember", call'[d].target = call'[e].target
      PROVE  d = e
  <2>1. ASSUME NEW f \in Call \ {c}, call'[f].at = "insertMember"
        PROVE  call'[f] = call[f] /\ email[call[f].target] = "held"
    BY <2>1 DEF Others, TargetsAreKnown, TargetIsKnown
  <2> QED BY <1>2, <2>1 DEF TargetsAreKnown
<1> QED BY <1>1, <1>2 DEF TargetsAreKnown

(* A step that writes no row and no history of departures.                 *)
LEMMA RowsKeepKnown ==
    ASSUME TypeOK, TypeOK', KnownInv, NEW c \in Call, Others(c), UNCHANGED <<rowVars, left>>,
           TargetIsKnown(call[c])', call'[c].at # "insertMember"
    PROVE  KnownInv'
<1>1. UNCHANGED <<email, disabled, status, role, invitation, left>>
  BY DEF rowVars, userVars
<1>2. AccountsAreKnown' /\ LeftForGood' /\ ErasedAreOut'
  BY <1>1 DEF KnownInv, AccountsAreKnown, LeftForGood, ErasedAreOut, Known, SignedIn
<1>3. \A u \in User : Known(u)' = Known(u)
  BY <1>1 DEF Known
<1>4. TargetsAreKnown'
  BY <1>1, <1>3, TargetsStayKnown DEF KnownInv
<1> QED BY <1>2, <1>4 DEF KnownInv

(* Requests begin where nothing needs to be known, or by who is known.     *)
LEMMA RequestsKnown ==
    ASSUME TypeOK, KnownInv, NEW c \in Call,
           Request(c) \/ PresentToken(c) \/ RequestDeletion(c)
    PROVE  KnownInv'
<1>0. TypeOK'
  BY RequestsTyped
<1>1. CASE Request(c)
  <2>1. PICK o \in OwnerOp, a \in User, t \in User, r \in Role : Start(c, o, a, t, r, "role")
    BY <1>1 DEF Request
  <2>2. o \in Op /\ "role" \in Steps(o) /\ o \notin {"accept", "deleteAccount"}
    BY DEF OwnerOp, Op, Steps
  <2>3. Others(c) /\ call'[c].at = "role" /\ call'[c].op = o
    <3>1. /\ call'[c] = [at |-> "role", op |-> o, actor |-> a, target |-> t, as |-> r]
          /\ \A d \in Call \ {c} : call'[d] = call[d]
      BY <2>1, <2>2, StartTyped
    <3> QED BY <3>1 DEF Others
  <2>4. TargetIsKnown(call[c])'
    BY <2>2, <2>3 DEF TargetIsKnown
  <2>6. UNCHANGED <<rowVars, left>>
    BY <2>1 DEF Start, rowVars, userVars
  <2> QED BY <1>0, <2>3, <2>4, <2>6, RowsKeepKnown
<1>2. CASE PresentToken(c)
  <2>1. PICK u \in User : Open(u) /\ Start(c, "accept", u, u, "member", "member")
    BY <1>2 DEF PresentToken
  <2>2. "accept" \in Op /\ "member" \in Steps("accept") /\ "member" \in Role
    BY DEF Op, Steps, Role
  <2>3. /\ Others(c) /\ call'[c].at = "member" /\ call'[c].op = "accept"
        /\ call'[c].target = u
    <3>1. /\ call'[c] = [at |-> "member", op |-> "accept", actor |-> u, target |-> u,
                         as |-> "member"]
          /\ \A d \in Call \ {c} : call'[d] = call[d]
      BY <2>1, <2>2, StartTyped
    <3> QED BY <3>1 DEF Others
  <2>4. Known(u)'
    BY <2>1 DEF Open, KnownInv, AccountsAreKnown, Known, Start, rowVars
  <2>5. TargetIsKnown(call[c])'
    BY <2>3, <2>4 DEF TargetIsKnown, OwnerOp
  <2>6. UNCHANGED <<rowVars, left>>
    BY <2>1 DEF Start, rowVars, userVars
  <2> QED BY <1>0, <2>3, <2>5, <2>6, RowsKeepKnown
<1>3. CASE RequestDeletion(c)
  <2>1. PICK u \in User : SignedIn(u) /\ Start(c, "deleteAccount", u, u, "member", "memberships")
    BY <1>3 DEF RequestDeletion
  <2>2. /\ "deleteAccount" \in Op /\ "memberships" \in Steps("deleteAccount")
        /\ "member" \in Role
    BY DEF Op, Steps, Role
  <2>3. /\ Others(c) /\ call'[c].at = "memberships" /\ call'[c].op = "deleteAccount"
        /\ call'[c].target = u /\ call'[c].actor = u
    <3>1. /\ call'[c] = [at |-> "memberships", op |-> "deleteAccount", actor |-> u, target |-> u,
                         as |-> "member"]
          /\ \A d \in Call \ {c} : call'[d] = call[d]
      BY <2>1, <2>2, StartTyped
    <3> QED BY <3>1 DEF Others
  <2>4. Known(u)'
    BY <2>1 DEF KnownInv, AccountsAreKnown, Known, Start, rowVars
  <2>5. TargetIsKnown(call[c])'
    BY <2>3, <2>4 DEF TargetIsKnown, OwnerOp
  <2>6. UNCHANGED <<rowVars, left>>
    BY <2>1 DEF Start, rowVars, userVars
  <2> QED BY <1>0, <2>3, <2>5, <2>6, RowsKeepKnown
<1> QED BY <1>1, <1>2, <1>3

(* The call is the same but for the statement it is at.                    *)
SameCall(c) ==
    /\ call'[c].op = call[c].op /\ call'[c].actor = call[c].actor
    /\ call'[c].target = call[c].target /\ call'[c].as = call[c].as

(* A seat is free in the tier that was read.                               *)
HasSeat(c) == \E limit \in 1..SeatLimit : SeatFree(c, limit)

(* From where to where a read leads, and what it has found.                *)
Found(c) ==
    \/ /\ call[c].at = "role" /\ call[c].actor \in Owners
       /\ call'[c].at = IF call[c].op = "invite" THEN "email" ELSE "member"
    \/ /\ call[c].at = "member" /\ status[call[c].target] \in Wanted(call[c].op)
       /\ call'[c].at = IF TakesOwner(c) /\ role[call[c].target] = "owner"
                        THEN "count" ELSE Change(call[c].op)
    \/ /\ call[c].at = "count" /\ Cardinality(Owners) > 1
       /\ call'[c].at = Change(call[c].op)
    \/ call[c].at = "email" /\ call'[c].at = IF call[c].op = "invite" THEN "seats" ELSE "rotate"
    \/ /\ call[c].at = "seats" /\ HasSeat(c)
       /\ call'[c].at = IF call[c].op = "invite" THEN "insertUser" ELSE "enableUser"
    \/ call[c].at = "pending" /\ call'[c].at = IF call[c].op = "resend" THEN "email" ELSE "revoke"
    \/ /\ call[c].at = "memberships"
       /\ call'[c].at = IF call[c].actor \in Owners THEN "owners" ELSE "anonymize"
    \/ /\ call[c].at = "owners"
       /\ call'[c].at = IF Cardinality(Owners) > 1 THEN "anonymize" ELSE "others"
    \/ call[c].at = "others" /\ call'[c].at = "anonymize" /\ "abandoned" \in excuses'

(* A read ends its call or goes on from what it has found.                 *)
LEMMA ReadingFinds ==
    ASSUME TypeOK, NEW c \in Call, Reading(c)
    PROVE  Others(c) /\ (call'[c] = Idle \/ (SameCall(c) /\ Found(c)))
<1>1. call[c].at # "idle"
  BY DEF Reading, RequireOwner, ReadMember, CountOwners, ReadEmail, CountSeats,
     ReadPending, ReadMemberships, CountOtherOwners, CountOthers
<1>2. ASSUME NEW stage, Goto(c, stage)
      PROVE  /\ Others(c)
             /\ stage = "idle" => call'[c] = Idle
             /\ stage # "idle" => SameCall(c) /\ call'[c].at = stage
  BY <1>1, <1>2, GotoGoes DEF Goes, SameCall
<1>3. CASE RequireOwner(c)
  BY <1>2, <1>3 DEF RequireOwner, Require, Found
<1>4. CASE ReadMember(c)
  BY <1>2, <1>4 DEF ReadMember, Require, Found
<1>5. CASE CountOwners(c)
  BY <1>2, <1>5 DEF CountOwners, Require, Found
<1>6. CASE ReadEmail(c)
  BY <1>2, <1>6 DEF ReadEmail, Require, Found
<1>7. CASE CountSeats(c)
  BY <1>2, <1>7 DEF CountSeats, Require, Found, HasSeat
<1>8. CASE ReadPending(c)
  BY <1>2, <1>8 DEF ReadPending, Require, Found
<1>9. CASE ReadMemberships(c)
  BY <1>2, <1>9 DEF ReadMemberships, Found
<1>10. CASE CountOtherOwners(c)
  BY <1>2, <1>10 DEF CountOtherOwners, Found
<1>11. CASE CountOthers(c)
  BY <1>2, <1>11 DEF CountOthers, Require, Found
<1> QED BY <1>3, <1>4, <1>5, <1>6, <1>7, <1>8, <1>9, <1>10, <1>11 DEF Reading

(* What has been read makes the target known.                              *)
LEMMA ReadingKnown ==
    ASSUME TypeOK, KnownInv, NEW c \in Call, Reading(c)
    PROVE  KnownInv'
<1>0. TypeOK'
  BY ReadingTyped
<1>1. UNCHANGED <<rowVars, left>>
  BY ReadingFrame DEF rowVars, userVars
<1>2. Others(c)
  BY ReadingFinds
<1>3. UNCHANGED <<email, status, left>>
  BY <1>1 DEF rowVars, userVars
<1>4. TargetIsKnown(call[c])' /\ call'[c].at # "insertMember"
  <2>1. CASE call'[c] = Idle
    BY <2>1 DEF Idle, TargetIsKnown, OwnerOp
  <2>2. CASE SameCall(c) /\ Found(c)
    <3>1. TargetIsKnown(call[c])
      BY DEF KnownInv, TargetsAreKnown
    <3>2. /\ call'[c].at \notin {"insertMember", "insertInvitation", "erase"}
          /\ call[c].at \in {"role", "member"} /\ call'[c].at \notin {"role", "member"}
                /\ call[c].op # "invite"
             => status[call[c].target] # "none"
      BY <2>2 DEF Found, Wanted, Change
    <3> QED BY <1>3, <2>2, <3>1, <3>2 DEF SameCall, TargetIsKnown, Known
  <2> QED BY <2>1, <2>2, ReadingFinds
<1> QED BY <1>0, <1>1, <1>2, <1>4, RowsKeepKnown

(* A call that dies needs nothing more.                                    *)
LEMMA CrashKnown ==
    ASSUME TypeOK, KnownInv, NEW c \in Call, Crash(c)
    PROVE  KnownInv'
<1>1. TypeOK' /\ call'[c] = Idle /\ Others(c)
  BY CrashTyped DEF Moved, Others
<1>2. TargetIsKnown(call[c])' /\ call'[c].at # "insertMember"
  BY <1>1 DEF Idle, TargetIsKnown, OwnerOp
<1>3. UNCHANGED <<rowVars, left>>
  BY DEF Crash, rowVars, userVars
<1> QED BY <1>1, <1>2, <1>3, RowsKeepKnown

(* The statement that follows a write.                                     *)
Leads(c) ==
    \/ call[c].at = "insertUser" /\ call'[c].at = "insertMember" /\ email[call[c].target] = "unused"
    \/ call[c].at = "insertMember" /\ call'[c].at = "insertInvitation"
    \/ call[c].at = "enableUser" /\ call'[c].at = "activate"
    \/ call[c].at = "activate" /\ call'[c].at = "stamp"
    \/ call[c].at = "suspend" /\ call'[c].at = "suspendUser"
    \/ call[c].at = "restore" /\ call'[c].at = "restoreUser"
    \/ call[c].at = "revoke" /\ call'[c].at = "delete"
    \/ call[c].at = "delete" /\ call'[c].at = "erase"
    \/ call[c].at = "demote" /\ call'[c].at = "promote"

(* A write ends its call or leads on.                                      *)
LEMMA WritingLeads ==
    ASSUME TypeOK, NEW c \in Call, Writing(c)
    PROVE  Others(c) /\ (call'[c] = Idle \/ (SameCall(c) /\ Leads(c)))
<1>1. call[c].at # "idle"
  BY DEF Writing, WriteAccount, StampInvitation, WriteMembership, InsertUser, EnableUser,
     SuspendUser, RestoreUser, Erase, InsertInvitation, RotateToken, StampRevoked,
     StampAccepted, InsertMember, Activate, Suspend, Restore, DeleteMember, SetRole, Demote,
     Promote, Anonymize
<1>2. ASSUME NEW stage, Goto(c, stage)
      PROVE  /\ Others(c)
             /\ stage = "idle" => call'[c] = Idle
             /\ stage # "idle" => SameCall(c) /\ call'[c].at = stage
  BY <1>1, <1>2, GotoGoes DEF Goes, SameCall
<1>3. CASE WriteAccount(c)
  BY <1>2, <1>3 DEF WriteAccount, InsertUser, Require, EnableUser, SuspendUser, RestoreUser,
     Erase, WriteDisabled, Leads
<1>4. CASE StampInvitation(c)
  BY <1>2, <1>4 DEF StampInvitation, InsertInvitation, RotateToken, StampRevoked,
     StampAccepted, WriteInvitation, Leads
<1>5. CASE WriteMembership(c)
  BY <1>2, <1>5 DEF WriteMembership, InsertMember, Activate, Suspend, Restore, DeleteMember,
     SetRole, Demote, Promote, Anonymize, WriteStatus, WriteRole, Leads
<1> QED BY <1>3, <1>4, <1>5 DEF Writing

(* After a write that keeps the known known, the call knows its target.    *)
LEMMA WriterStaysKnown ==
    ASSUME TypeOK, TypeOK', KnownInv, NEW c \in Call, Writing(c),
           \A u \in User : Known(u) => Known(u)',
           call'[c].at = "insertMember" => /\ ~Known(call[c].target)'
                                          /\ email'[call[c].target] = "held",
           call'[c].at = "insertInvitation" => Known(call[c].target)',
           call'[c].at = "erase" => call[c].target \in left'
    PROVE  TargetIsKnown(call[c])'
<1>1. CASE call'[c] = Idle
  BY <1>1 DEF Idle, TargetIsKnown, OwnerOp
<1>2. CASE SameCall(c) /\ Leads(c)
  <2>1. TargetIsKnown(call[c])
    BY DEF KnownInv, TargetsAreKnown
  <2>2. call[c].target \in User /\ call[c].actor \in User
    BY WriterAtWork
  <2>3. call[c].at \notin {"role", "member"}
    BY <1>2 DEF Leads
  <2> QED BY <1>2, <2>1, <2>2, <2>3 DEF SameCall, TargetIsKnown
<1> QED BY <1>1, <1>2, WritingLeads

(* Whom a call writes to is known, unless he is just being invited.        *)
LEMMA WriterKnows ==
    ASSUME TypeOK, KnownInv, NEW c \in Call, Writing(c),
           call[c].at \notin {"insertUser", "insertMember"}
    PROVE  Known(call[c].target) /\ (call[c].op = "deleteAccount" => Known(call[c].actor))
<1>1. TargetIsKnown(call[c])
  BY DEF KnownInv, TargetsAreKnown
<1>2. call[c].op \in Op /\ call[c].at \in Steps(call[c].op)
  BY WriterAtWork
<1>3. call[c].at \notin {"role", "member", "email", "seats"} \/ call[c].op # "invite"
  BY DEF Writing, WriteAccount, StampInvitation, WriteMembership, InsertUser, EnableUser,
     SuspendUser, RestoreUser, Erase, InsertInvitation, RotateToken, StampRevoked,
     StampAccepted, InsertMember, Activate, Suspend, Restore, DeleteMember, SetRole, Demote,
     Promote, Anonymize
<1>4. call[c].at \notin {"role", "member"}
  BY DEF Writing, WriteAccount, StampInvitation, WriteMembership, InsertUser, EnableUser,
     SuspendUser, RestoreUser, Erase, InsertInvitation, RotateToken, StampRevoked,
     StampAccepted, InsertMember, Activate, Suspend, Restore, DeleteMember, SetRole, Demote,
     Promote, Anonymize
<1>5. CASE call[c].op = "invite"
  <2>1. call[c].at = "insertInvitation"
    BY <1>2, <1>3, <1>5 DEF Steps
  <2> QED BY <1>1, <1>5, <2>1 DEF TargetIsKnown
<1>6. CASE call[c].op = "accept" \/ call[c].op = "deleteAccount"
  BY <1>1, <1>6 DEF TargetIsKnown
<1>7. CASE call[c].op \in OwnerOp \ {"invite"}
  BY <1>1, <1>4, <1>7 DEF TargetIsKnown, OwnerOp
<1> QED BY <1>2, <1>5, <1>6, <1>7 DEF Op

(* Writes to accounts.                                                     *)
LEMMA WriteAccountKnown ==
    ASSUME TypeOK, KnownInv, NEW c \in Call, WriteAccount(c)
    PROVE  KnownInv'
<1> DEFINE t == call[c].target
<1>0. TypeOK' /\ Others(c) /\ Writing(c) /\ t \in User
  BY WriteAccountTyped, WritingLeads, WriterAtWork DEF Writing
<1>1. UNCHANGED <<status, role, invitation, left>>
  BY DEF WriteAccount, InsertUser, EnableUser, SuspendUser, RestoreUser, Erase, WriteDisabled
<1>2. \A u \in User : Known(u)' = Known(u)
  BY <1>1 DEF Known
<1>3. call'[c].at = "insertMember" =>
         ~Known(t)' /\ email'[t] = "held" /\ email[t] = "unused" /\ call'[c].target = t
  <2>1. call'[c].at = "insertMember" =>
           call[c].at = "insertUser" /\ email[t] = "unused" /\ call'[c].target = t
    BY <1>0, WritingLeads DEF Leads, SameCall, Idle
  <2>2. call[c].at = "insertUser" => InsertUser(c)
    BY DEF WriteAccount, EnableUser, SuspendUser, RestoreUser, Erase
  <2>3. email[t] = "unused" => ~Known(t)
    BY <1>0 DEF KnownInv, AccountsAreKnown
  <2>4. InsertUser(c) /\ email[t] = "unused" => email'[t] = "held"
    BY <1>0 DEF InsertUser, TypeOK
  <2> QED BY <1>0, <1>2, <2>1, <2>2, <2>3, <2>4
<1>4. call'[c].at \notin {"insertInvitation", "erase"}
  <2>1. call[c].at \notin {"insertMember", "delete"}
    BY DEF WriteAccount, InsertUser, EnableUser, SuspendUser, RestoreUser, Erase
  <2> QED BY <1>0, <2>1, WritingLeads DEF Leads, Idle
<1>5. TargetIsKnown(call[c])'
  BY <1>0, <1>2, <1>3, <1>4, WriterStaysKnown
<1>6. /\ AccountsAreKnown' /\ ErasedAreOut'
      /\ \A u \in User : ~Known(u) /\ email[u] = "held" => email'[u] = "held"
  <2>1. CASE InsertUser(c)
    BY <1>0, <1>1, <1>2, <2>1 DEF Gone, InsertUser, KnownInv, AccountsAreKnown, ErasedAreOut, SignedIn,
       TypeOK, userVars
  <2>2. CASE ~InsertUser(c)
    <3>1. call[c].at \notin {"insertUser", "insertMember"}
      BY <2>2 DEF WriteAccount, EnableUser, SuspendUser, RestoreUser, Erase
    <3>2. Known(t)
      BY <1>0, <3>1, WriterKnows
    <3>3. CASE Erase(c)
      <4>1. t \in left
        BY <3>3 DEF Erase, KnownInv, TargetsAreKnown, TargetIsKnown
      <4> QED BY <1>0, <1>1, <1>2, <3>2, <3>3, <4>1 DEF Erase, KnownInv, AccountsAreKnown,
                 ErasedAreOut, LeftForGood, SignedIn, TypeOK
    <3>4. CASE ~Erase(c)
      <4>1. /\ email' = email
            /\ \E value \in BOOLEAN : disabled' = [disabled EXCEPT ![t] = value]
        BY <2>2, <3>4 DEF WriteAccount, EnableUser, SuspendUser, RestoreUser, WriteDisabled
      <4> QED BY <1>0, <1>1, <1>2, <3>2, <4>1 DEF KnownInv, AccountsAreKnown,
                 ErasedAreOut, SignedIn, TypeOK
    <3> QED BY <3>3, <3>4
  <2> QED BY <2>1, <2>2
<1>7. LeftForGood'
  BY <1>1 DEF KnownInv, LeftForGood
<1>8. TargetsAreKnown'
  BY <1>0, <1>1, <1>2, <1>3, <1>5, <1>6, TargetsStayKnown DEF KnownInv
<1> QED BY <1>6, <1>7, <1>8 DEF KnownInv

(* Stamps on the invitation of who is known.                               *)
LEMMA StampInvitationKnown ==
    ASSUME TypeOK, KnownInv, NEW c \in Call, StampInvitation(c)
    PROVE  KnownInv'
<1> DEFINE t == call[c].target
<1>0. TypeOK' /\ Others(c) /\ Writing(c) /\ t \in User
  BY StampInvitationTyped, WritingLeads, WriterAtWork DEF Writing
<1>1. /\ UNCHANGED <<email, disabled, status, left>>
      /\ \E stamps : invitation' = [invitation EXCEPT ![t] = stamps]
  BY DEF StampInvitation, InsertInvitation, RotateToken, StampRevoked, StampAccepted,
     WriteInvitation, userVars
<1>2. \A u \in User : Known(u)' = Known(u)
  BY <1>1 DEF Known
<1>3. call[c].at \notin {"insertUser", "insertMember", "delete"}
  BY DEF StampInvitation, InsertInvitation, RotateToken, StampRevoked, StampAccepted
<1>4. Known(t)
  BY <1>0, <1>3, WriterKnows
<1>5. call'[c].at \notin {"insertMember", "insertInvitation", "erase"}
  BY <1>0, <1>3, WritingLeads DEF Leads, Idle
<1>6. TargetIsKnown(call[c])'
  BY <1>0, <1>2, <1>5, WriterStaysKnown
<1>7. TargetsAreKnown'
  BY <1>0, <1>1, <1>2, <1>5, <1>6, TargetsStayKnown DEF KnownInv
<1>8. AccountsAreKnown' /\ LeftForGood' /\ ErasedAreOut'
  BY <1>0, <1>1, <1>2, <1>4 DEF KnownInv, AccountsAreKnown, LeftForGood, ErasedAreOut, SignedIn,
     TypeOK
<1> QED BY <1>7, <1>8 DEF KnownInv

(* A new member: the address was new, so he is not one who has left.       *)
LEMMA InsertMemberKnown ==
    ASSUME TypeOK, KnownInv, NEW c \in Call, InsertMember(c)
    PROVE  KnownInv'
<1> DEFINE t == call[c].target
<1>0. TypeOK' /\ Others(c) /\ Writing(c) /\ t \in User
  BY WriteMembershipTyped, WritingLeads, WriterAtWork DEF Writing, WriteMembership
<1>1. /\ UNCHANGED <<email, disabled, invitation, left>>
      /\ status' = [status EXCEPT ![t] = "invited"]
      /\ call[c].at = "insertMember"
  BY DEF InsertMember, userVars
<1>2. ~Known(t) /\ email[t] = "held"
  BY <1>1 DEF KnownInv, TargetsAreKnown, TargetIsKnown
<1>3. \A u \in User : Known(u)' = (Known(u) \/ u = t)
  BY <1>0, <1>1 DEF Known, TypeOK
<1>4. call'[c].at \notin {"insertMember", "erase"}
  BY <1>0, <1>1, WritingLeads DEF Leads, Idle
<1>5. TargetIsKnown(call[c])'
  <2>1. call'[c].at = "insertInvitation" => call'[c].target = t
    BY <1>0, WritingLeads DEF SameCall, Idle
  <2>2. call'[c].at = "insertInvitation" => Known(call[c].target)'
    BY <1>0, <1>3, <2>1
  <2> QED BY <1>0, <1>3, <1>4, <2>2, WriterStaysKnown
<1>6. TargetsAreKnown'
  BY <1>0, <1>1, <1>3, <1>4, <1>5, TargetsStayKnown DEF KnownInv
<1>7. AccountsAreKnown'
  BY <1>1, <1>2, <1>3 DEF KnownInv, AccountsAreKnown, SignedIn
<1>8. LeftForGood' /\ ErasedAreOut'
  BY <1>0, <1>1, <1>2 DEF Gone, KnownInv, LeftForGood, ErasedAreOut, Known, TypeOK
<1> QED BY <1>6, <1>7, <1>8 DEF KnownInv

(* Every other write to a membership leaves who has none without one, and  *)
(* remembers whose it deletes.                                             *)
LEMMA WriteMembershipKnown ==
    ASSUME TypeOK, KnownInv, NEW c \in Call, WriteMembership(c), ~InsertMember(c)
    PROVE  KnownInv'
<1>0. TypeOK' /\ Others(c) /\ Writing(c) /\ call[c].target \in User /\ call[c].actor \in User
  BY WriteMembershipTyped, WritingLeads, WriterAtWork DEF Writing
<1>1. call[c].at \notin {"insertUser", "insertMember"}
  BY DEF WriteMembership, Activate, Suspend, Restore, DeleteMember, SetRole, Demote, Promote,
     Anonymize
<1>2. /\ \A u \in User : status[u] = "none" => status'[u] = "none"
      /\ \A u \in User : status[u] # "none" /\ status'[u] = "none" => u \in left'
      /\ left \subseteq left'
      /\ \A u \in left' : status'[u] = "none"
      /\ UNCHANGED invitation
  BY <1>0 DEF TypeOK, KnownInv, LeftForGood, WriteMembership, Activate, Suspend, Restore,
     DeleteMember, SetRole, Demote, Promote, Anonymize, WriteStatus, SetStatus, WriteRole
<1>3. \A u \in left' : u \in left \/ status[u] # "none"
  BY <1>0 DEF WriteMembership, Activate, Suspend, Restore, DeleteMember, SetRole, Demote,
     Promote, Anonymize, WriteStatus, WriteRole
<1>4. \A u \in User : Known(u)' = Known(u)
  BY <1>0, <1>2, <1>3 DEF Known
<1>5. /\ \A u \in User : \/ email'[u] = email[u]
                         \/ Known(u) /\ email'[u] \in Gone /\ status'[u] = "none"
      /\ \A u \in User : email'[u] = email[u] => disabled'[u] = disabled[u] \/ disabled'[u]
  <2>1. CASE Anonymize(c)
    <3>1. Known(call[c].actor)
      <4>1. call[c].op = "deleteAccount"
        BY <2>1, WriterAtWork, <1>0 DEF Anonymize, Steps, Op, OwnerOp
      <4> QED BY <1>0, <1>1, <4>1, WriterKnows
    <3> QED BY <1>0, <2>1, <3>1 DEF Gone, Anonymize, TypeOK
  <2>2. CASE ~Anonymize(c)
    BY <2>2 DEF WriteMembership, Activate, Suspend, Restore, DeleteMember, SetRole, Demote,
       Promote, WriteStatus, WriteRole, userVars
  <2> QED BY <2>1, <2>2
<1>6. AccountsAreKnown'
  BY <1>2, <1>4, <1>5 DEF Gone, KnownInv, AccountsAreKnown, SignedIn
<1>7. LeftForGood' /\ ErasedAreOut'
  BY <1>0, <1>2, <1>5 DEF KnownInv, LeftForGood, ErasedAreOut
<1>8. call'[c].at \notin {"insertMember", "insertInvitation"}
  BY <1>0, <1>1, WritingLeads DEF Leads, Idle
<1>9. call'[c].at = "erase" => call[c].target \in left'
  <2>1. call'[c].at = "erase" => DeleteMember(c)
    BY <1>0, WritingLeads DEF Leads, Idle, WriteMembership, Activate, Suspend, Restore,
       SetRole, Demote, Promote, Anonymize
  <2>2. DeleteMember(c) => call[c].target \in left'
    BY <1>0, <1>1, WriterKnows DEF DeleteMember, Known
  <2> QED BY <2>1, <2>2
<1>10. TargetIsKnown(call[c])'
  BY <1>0, <1>4, <1>8, <1>9, WriterStaysKnown
<1>11. TargetsAreKnown'
  BY <1>0, <1>2, <1>4, <1>5, <1>8, <1>10, TargetsStayKnown DEF KnownInv
<1> QED BY <1>6, <1>7, <1>11 DEF KnownInv

(* Expiry stamps an invitation that was sent.                              *)
LEMMA ExpireKnown ==
    ASSUME TypeOK, KnownInv, NEW u \in User, Expire(u)
    PROVE  KnownInv'
<1>1. UNCHANGED <<email, disabled, status, left, call>>
  BY DEF Expire, userVars
<1>2. TargetsAreKnown' /\ LeftForGood' /\ ErasedAreOut'
  BY <1>1 DEF KnownInv, TargetsAreKnown, TargetIsKnown, LeftForGood, ErasedAreOut, Known
<1>3. invitation[u] # {} /\ invitation' = [invitation EXCEPT ![u] = @ \union {"expired"}]
  BY DEF Expire, Open
<1>4. AccountsAreKnown'
  BY <1>1, <1>3 DEF KnownInv, AccountsAreKnown, Known, SignedIn, TypeOK
<1> QED BY <1>2, <1>4 DEF KnownInv

(* Every step keeps the known known, and those who left out.               *)
LEMMA KnownStep ==
    ASSUME TypeOK, KnownInv, [Next]_vars
    PROVE  KnownInv'
<1>1. ASSUME NEW c \in Call, Check(c) PROVE KnownInv'
  BY <1>1, RequestsKnown, ReadingKnown, CrashKnown DEF Check, Reading
<1>2. ASSUME NEW c \in Call, Writing(c) PROVE KnownInv'
  BY <1>2, WriteAccountKnown, StampInvitationKnown, InsertMemberKnown, WriteMembershipKnown
     DEF Writing
<1>3. CASE UNCHANGED vars
  BY <1>3 DEF vars, rowVars, userVars, KnownInv, AccountsAreKnown, TargetsAreKnown,
     TargetIsKnown, LeftForGood, ErasedAreOut, Known, SignedIn
<1> QED BY <1>1, <1>2, <1>3, ExpireKnown DEF Next, Writing

(* Between calls, members have accounts and the others have not.           *)
LEMMA InitKnown == Init => KnownInv
<1> SUFFICES ASSUME Init PROVE KnownInv
  OBVIOUS
<1>1. TypeOK
  BY InitTyped
<1>2. \A u \in User : email[u] = IF status[u] = "none" THEN "unused" ELSE "held"
  BY DEF Init
<1>3. \A u \in User : invitation[u] # {} => status[u] # "none"
  <2>1. PICK founder \in User :
          invitation = [u \in User |->
             CASE u = founder \/ status[u] = "none" -> {}
               [] status[u] = "invited" -> {"sent"}
               [] OTHER -> {"sent", "accepted"}]
    BY DEF Init
  <2> QED BY <2>1
<1>4. left = {} /\ \A c \in Call : call[c] = Idle
  BY DEF Init
<1>5. AccountsAreKnown /\ LeftForGood /\ ErasedAreOut
  BY <1>2, <1>3, <1>4 DEF Email, Gone, AccountsAreKnown, LeftForGood, ErasedAreOut, Known, SignedIn
<1>6. TargetsAreKnown
  BY <1>4 DEF TargetsAreKnown, TargetIsKnown, Idle, OwnerOp
<1> QED BY <1>5, <1>6 DEF KnownInv

(* LeftForGood: who has left the workspace never is a member again.        *)
THEOREM LeaversStayOut == Spec => []LeftForGood
<1>1. Init => TypeOK /\ KnownInv
  BY InitTyped, InitKnown
<1>2. TypeOK /\ KnownInv /\ [Next]_vars => (TypeOK /\ KnownInv)'
  BY TypeStep, KnownStep
<1>3. KnownInv => LeftForGood
  BY DEF KnownInv
<1> QED BY <1>1, <1>2, <1>3, PTL DEF Spec

(* ErasedAreOut: an erased account has no membership left.                 *)
THEOREM ErasedStayOut == Spec => []ErasedAreOut
<1>1. Init => TypeOK /\ KnownInv
  BY InitTyped, InitKnown
<1>2. TypeOK /\ KnownInv /\ [Next]_vars => (TypeOK /\ KnownInv)'
  BY TypeStep, KnownStep
<1>3. KnownInv => ErasedAreOut
  BY DEF KnownInv
<1> QED BY <1>1, <1>2, <1>3, PTL DEF Spec

-----------------------------------------------------------------------------
(* Seats.                                                                  *)

(* What is counted is finite.                                              *)
LEMMA SeatsFinite ==
    ASSUME TypeOK
    PROVE  /\ IsFiniteSet(Seats) /\ IsFiniteSet(Seats \ readmitted) /\ IsFiniteSet(Promised)
           /\ Cardinality(Seats) \in Nat /\ Cardinality(Seats \ readmitted) \in Nat
           /\ Cardinality(Promised) \in Nat /\ Cardinality(Call) \in Nat
           /\ Cardinality(Promised) <= Cardinality(Call)
           /\ Cardinality(Seats \ readmitted) <= Cardinality(Seats)
<1>1. Seats \subseteq User /\ Promised \subseteq Call /\ Seats \ readmitted \subseteq Seats
  BY DEF Seats, Promised
<1>2. IsFiniteSet(Seats) /\ IsFiniteSet(Promised)
  BY <1>1, FS_Subset
<1> QED BY <1>1, <1>2, FS_Subset, FS_CardinalityType

(* Neither more members nor more promises: the bound stays.                *)
LEMMA SeatsShrink ==
    ASSUME TypeOK, TypeOK', SeatsBounded,
           (Seats \ readmitted)' \subseteq Seats \ readmitted, Promised' \subseteq Promised
    PROVE  SeatsBounded'
<1>1. /\ Cardinality((Seats \ readmitted)') <= Cardinality(Seats \ readmitted)
      /\ Cardinality(Promised') <= Cardinality(Promised)
  BY SeatsFinite, FS_Subset
<1>2. /\ Cardinality((Seats \ readmitted)') \in Nat /\ Cardinality(Promised') \in Nat
      /\ Cardinality(Seats \ readmitted) \in Nat /\ Cardinality(Promised) \in Nat
      /\ Cardinality(Call) \in Nat
  <2>1. IsFiniteSet((Seats \ readmitted)') /\ IsFiniteSet(Promised')
    BY SeatsFinite, FS_Subset
  <2> QED BY <2>1, SeatsFinite, FS_CardinalityType
<1> QED BY <1>1, <1>2 DEF SeatsBounded

(* A call that was no promise and does not become one.                     *)
LEMMA PromisedKept ==
    ASSUME NEW c \in Call, Others(c),
           call'[c].at \in {"insertUser", "insertMember"} =>
               /\ call'[c].op = call[c].op
               /\ call[c].at \in {"insertUser", "insertMember"}
    PROVE  Promised' \subseteq Promised
BY DEF Others, Promised

(* A free seat that was counted is promised.                               *)
LEMMA ReadingSeats ==
    ASSUME TypeOK, SeatsBounded, NEW c \in Call, Reading(c)
    PROVE  SeatsBounded'
<1>0. TypeOK'
  BY ReadingTyped
<1>1. UNCHANGED <<status, readmitted>>
  BY ReadingFrame DEF rowVars
<1>2. (Seats \ readmitted)' = Seats \ readmitted
  BY <1>1 DEF Seats
<1>3. CASE call[c].at = "seats" /\ call[c].op = "invite" /\ HasSeat(c)
  <2>1. Cardinality(Seats) < SeatLimit
    <3>1. PICK limit \in 1..SeatLimit : SeatFree(c, limit)
      BY <1>3 DEF HasSeat
    <3>2. Cardinality(Seats) < limit
      BY <1>3, <3>1 DEF SeatFree
    <3> QED BY <3>2, SeatsFinite, WorkspaceAssumption
  <2>2. /\ Promised' \subseteq Call
        /\ Cardinality(Call) \in Nat
    BY SeatsFinite DEF Promised
  <2>3. Cardinality(Promised') <= Cardinality(Call) /\ Cardinality(Promised') \in Nat
    BY <2>2, FS_Subset, FS_CardinalityType
  <2>4. Cardinality((Seats \ readmitted)') = Cardinality(Seats \ readmitted)
    BY <1>2
  <2>5. /\ Cardinality(Seats \ readmitted) \in Nat /\ Cardinality(Seats) \in Nat
        /\ Cardinality(Seats \ readmitted) <= Cardinality(Seats)
    BY SeatsFinite
  <2> QED BY <2>1, <2>2, <2>3, <2>4, <2>5 DEF SeatsBounded
<1>4. CASE ~(call[c].at = "seats" /\ call[c].op = "invite" /\ HasSeat(c))
  <2>1. Change(call[c].op) \notin {"insertUser", "insertMember"}
    BY DEF Change
  <2>2. ASSUME Found(c) PROVE call'[c].at \notin {"insertUser", "insertMember"}
    <3> DEFINE p == TakesOwner(c) /\ role[call[c].target] = "owner"
               k == call'[c].at
    <3>1. \/ k = IF call[c].op = "invite" THEN "email" ELSE "member"
          \/ k = IF p THEN "count" ELSE Change(call[c].op)
          \/ k = Change(call[c].op)
          \/ k = IF call[c].op = "invite" THEN "seats" ELSE "rotate"
          \/ k = "enableUser"
          \/ k = IF call[c].op = "resend" THEN "email" ELSE "revoke"
          \/ k \in {"owners", "anonymize", "others"}
      BY <1>4, <2>2 DEF Found
    <3> HIDE DEF k, p
    <3>2. k \notin {"insertUser", "insertMember"}
      BY <2>1, <3>1
    <3> QED BY <3>2 DEF k
  <2>3. call'[c].at \notin {"insertUser", "insertMember"}
    BY <2>2, ReadingFinds DEF Idle
  <2>4. Promised' \subseteq Promised
    BY <2>3, ReadingFinds, PromisedKept
  <2> QED BY <1>0, <1>2, <2>4, SeatsShrink
<1> QED BY <1>3, <1>4

(* The promise of a seat is kept by the membership inserted.               *)
LEMMA InsertMemberSeats ==
    ASSUME TypeOK, SeatsBounded, NEW c \in Call, InsertMember(c)
    PROVE  SeatsBounded'
<1> DEFINE t == call[c].target
<1>0. TypeOK' /\ Others(c) /\ t \in User /\ call[c].at \in Steps(call[c].op) /\ call[c].op \in Op
  BY WriteMembershipTyped, WritingLeads, WriterAtWork DEF Writing, WriteMembership
<1>1. c \in Promised
  BY <1>0 DEF InsertMember, Promised, Steps, Op, OwnerOp
<1>2. c \notin Promised'
  <2>1. call'[c].at \notin {"insertUser", "insertMember"}
    <3>1. Writing(c) /\ call[c].at = "insertMember"
      BY DEF Writing, WriteMembership, InsertMember
    <3> QED BY <3>1, WritingLeads DEF Leads, Idle
  <2> QED BY <2>1 DEF Promised
<1>3. Promised' = Promised \ {c}
  BY <1>0, <1>1, <1>2 DEF Others, Promised
<1>4. Cardinality(Promised') = Cardinality(Promised) - 1
  BY <1>1, <1>3, SeatsFinite, FS_RemoveElement
<1>5. (Seats \ readmitted)' \subseteq (Seats \ readmitted) \union {t}
  BY <1>0 DEF InsertMember, Seats, TypeOK
<1>6. /\ IsFiniteSet((Seats \ readmitted) \union {t})
      /\ Cardinality((Seats \ readmitted) \union {t}) <= Cardinality(Seats \ readmitted) + 1
      /\ Cardinality((Seats \ readmitted) \union {t}) \in Nat
  <2> DEFINE S == Seats \ readmitted
  <2> HIDE DEF t
  <2>1. IsFiniteSet(S) /\ Cardinality(S) \in Nat
    BY SeatsFinite
  <2> HIDE DEF S
  <2>2. /\ IsFiniteSet(S \union {t})
        /\ Cardinality(S \union {t}) = IF t \in S THEN Cardinality(S) ELSE Cardinality(S) + 1
    BY <2>1, FS_AddElement
  <2>3. Cardinality(S \union {t}) <= Cardinality(S) + 1 /\ Cardinality(S \union {t}) \in Nat
    BY <2>1, <2>2
  <2> QED BY <2>2, <2>3 DEF S
<1>7. /\ Cardinality((Seats \ readmitted)') <= Cardinality((Seats \ readmitted) \union {t})
      /\ IsFiniteSet((Seats \ readmitted)')
  BY <1>5, <1>6, FS_Subset
<1>8. Cardinality((Seats \ readmitted)') \in Nat
  BY <1>7, FS_CardinalityType
<1> QED BY <1>4, <1>6, <1>7, <1>8, SeatsFinite DEF SeatsBounded

(* Other writes take no seat that is counted: the restored are set apart.  *)
LEMMA WritingSeats ==
    ASSUME TypeOK, SeatsBounded, NEW c \in Call, Writing(c), ~InsertMember(c)
    PROVE  SeatsBounded'
<1>0. TypeOK' /\ call[c].target \in User /\ call[c].actor \in User
  BY WriteAccountTyped, StampInvitationTyped, WriteMembershipTyped, WriterAtWork DEF Writing
<1>1. (Seats \ readmitted)' \subseteq Seats \ readmitted
  <2>1. CASE WriteAccount(c)
    BY <2>1 DEF WriteAccount, InsertUser, EnableUser, SuspendUser, RestoreUser, Erase,
       WriteDisabled, Seats
  <2>2. CASE StampInvitation(c)
    BY <2>2 DEF StampInvitation, InsertInvitation, RotateToken, StampRevoked, StampAccepted,
       WriteInvitation, Seats
  <2>3. CASE WriteMembership(c)
    BY <1>0, <2>3 DEF TypeOK, WriteMembership, Activate, Suspend, Restore, DeleteMember, SetRole,
       Demote, Promote, Anonymize, WriteStatus, SetStatus, WriteRole, Seats
  <2> QED BY <2>1, <2>2, <2>3 DEF Writing
<1>2. Promised' \subseteq Promised
  <2>1. call'[c].at \in {"insertUser", "insertMember"} => call[c].at = "insertUser" /\ SameCall(c)
    BY WritingLeads DEF Leads, Idle
  <2> QED BY <2>1, WritingLeads, PromisedKept DEF SameCall
<1> QED BY <1>0, <1>1, <1>2, SeatsShrink

(* Every step keeps the seats bounded.                                     *)
LEMMA SeatsStep ==
    ASSUME TypeOK, SeatsBounded, [Next]_vars
    PROVE  SeatsBounded'
<1>0. TypeOK'
  BY TypeStep
<1>1. ASSUME NEW c \in Call, Request(c) \/ PresentToken(c) \/ RequestDeletion(c)
      PROVE  SeatsBounded'
  <2>1. \E o, a, t, r : \E stage \in {"role", "member", "memberships"} : Start(c, o, a, t, r, stage)
    BY <1>1 DEF Request, PresentToken, RequestDeletion
  <2>2. /\ UNCHANGED <<status, readmitted>> /\ Others(c)
        /\ call'[c].at \in {"role", "member", "memberships"}
    BY <2>1 DEF Start, rowVars, Others, TypeOK
  <2>3. Promised' \subseteq Promised
    BY <2>2, PromisedKept
  <2> QED BY <1>0, <2>2, <2>3, SeatsShrink DEF Seats
<1>2. ASSUME NEW c \in Call, Crash(c) PROVE SeatsBounded'
  <2>1. Others(c) /\ call'[c] = Idle /\ UNCHANGED <<status, readmitted>>
    BY <1>2, CrashTyped DEF Moved, Others, Crash, rowVars
  <2>2. Promised' \subseteq Promised
    BY <2>1, PromisedKept DEF Idle
  <2> QED BY <1>0, <2>1, <2>2, SeatsShrink DEF Seats
<1>3. ASSUME NEW c \in Call, Check(c) PROVE SeatsBounded'
  BY <1>1, <1>2, <1>3, ReadingSeats DEF Check, Reading
<1>4. ASSUME NEW c \in Call, Writing(c) PROVE SeatsBounded'
  BY <1>4, InsertMemberSeats, WritingSeats
<1>5. ASSUME NEW u \in User, Expire(u) PROVE SeatsBounded'
  BY <1>5 DEF Expire, SeatsBounded, Seats, Promised
<1>6. CASE UNCHANGED vars
  BY <1>6 DEF vars, rowVars, SeatsBounded, Seats, Promised
<1> QED BY <1>3, <1>4, <1>5, <1>6 DEF Next, Writing

(* Between calls the tier is kept.                                         *)
LEMMA InitSeats == Init => SeatsBounded
<1> SUFFICES ASSUME Init PROVE SeatsBounded
  OBVIOUS
<1>1. TypeOK
  BY InitTyped
<1>2. Promised = {}
  BY DEF Init, Promised, Idle
<1>3. Cardinality(Promised) = 0 /\ Cardinality(Call) # 0
  BY <1>2, FS_EmptySet
<1>4. Cardinality(Seats) <= SeatLimit
  BY DEF Init
<1> QED BY <1>1, <1>3, <1>4, SeatsFinite DEF SeatsBounded

(* SeatsBounded: apart from restored members, the seats taken exceed the   *)
(* tier by less than the number of simultaneous calls.                     *)
THEOREM SeatsKept == Spec => []SeatsBounded
<1>1. Init => TypeOK /\ SeatsBounded
  BY InitTyped, InitSeats
<1>2. TypeOK /\ SeatsBounded /\ [Next]_vars => (TypeOK /\ SeatsBounded)'
  BY TypeStep, SeatsStep
<1> QED BY <1>1, <1>2, PTL DEF Spec

-----------------------------------------------------------------------------
(* Owners.                                                                 *)
OwnerInv == KeepsAnOwner /\ OwnersAreWatched

(* Only the operations that reduce the owners are watched.                 *)
LEMMA OthersUnwatched ==
    ASSUME NEW k \in CallState, k.op \notin Reducing
    PROVE  /\ k.at \notin {"suspend", "delete", "setRole", "anonymize", "demote", "promote"}
           /\ k.op # "revoke"
<1>1. CASE k = Idle
  BY <1>1 DEF Idle
<1>2. CASE k # Idle
  <2>1. k.op \in Op /\ k.at \in Steps(k.op)
    BY <1>2 DEF CallState
  <2>2. k.op \in {"invite", "resend", "restore", "accept"}
    BY <2>1 DEF Op, OwnerOp, Reducing
  <2> QED BY <2>1, <2>2 DEF Steps
<1> QED BY <1>1, <1>2

(* A step keeps the watch if its own call is watched after it, and if it   *)
(* takes nothing away while another call reduces the owners.               *)
LEMMA WatchKept ==
    ASSUME TypeOK, TypeOK', OwnersAreWatched, NEW c \in Call, Others(c),
           excuses \subseteq excuses',
           excuses' = {} /\ call'[c].op \in Reducing =>
               OwnerIsWatched(call[c])' /\ \A d \in Call \ {c} : call[d].op \notin Reducing,
           excuses' = {} /\ (\E d \in Call \ {c} : call[d].op \in Reducing) =>
               /\ Owners \subseteq Owners'
               /\ \A u \in User : status[u] = "active" => status'[u] = "active"
    PROVE  OwnersAreWatched'
<1> SUFFICES ASSUME excuses' = {}
             PROVE  /\ \A d, e \in Call :
                         call'[d].op \in Reducing /\ call'[e].op \in Reducing => d = e
                    /\ \A d \in Call : OwnerIsWatched(call[d])'
  BY DEF OwnersAreWatched
<1>1. /\ \A d, e \in Call : call[d].op \in Reducing /\ call[e].op \in Reducing => d = e
      /\ \A d \in Call : OwnerIsWatched(call[d])
  BY DEF OwnersAreWatched
<1>2. \A d, e \in Call : call'[d].op \in Reducing /\ call'[e].op \in Reducing => d = e
  BY <1>1 DEF Others
<1>3. \A d \in Call : call'[d] \in CallState
  BY DEF TypeOK
<1>4. ASSUME NEW d \in Call, call'[d].op \notin Reducing PROVE OwnerIsWatched(call[d])'
  BY <1>3, <1>4, OthersUnwatched DEF OwnerIsWatched
<1>5. ASSUME NEW d \in Call \ {c}, call'[d].op \in Reducing PROVE OwnerIsWatched(call[d])'
  <2>1. call'[d] = call[d] /\ OwnerIsWatched(call[d]) /\ call[d].op \in Reducing
    BY <1>1, <1>5 DEF Others
  <2>2. /\ Owners \subseteq Owners'
        /\ \A u \in User : status[u] = "active" => status'[u] = "active"
    BY <2>1
  <2>3. call[d] # Idle
    BY <2>1 DEF Idle, Reducing
  <2>4. call[d].target \in User
    BY <2>3, CallFields
  <2> QED BY <2>1, <2>2, <2>4 DEF OwnerIsWatched
<1> QED BY <1>2, <1>4, <1>5

(* What the watch says of a call that reduces the owners.                  *)
LEMMA Watched ==
    ASSUME OwnersAreWatched, excuses = {}, NEW c \in Call, call[c].op \in Reducing
    PROVE  OwnerIsWatched(call[c]) /\ \A d \in Call \ {c} : call[d].op \notin Reducing
BY DEF OwnersAreWatched

(* Two requests at once that reduce the owners are an excuse.              *)
LEMMA RequestsWatched ==
    ASSUME TypeOK, OwnerInv, NEW c \in Call, Request(c) \/ PresentToken(c) \/ RequestDeletion(c)
    PROVE  OwnerInv'
<1>0. TypeOK'
  BY RequestsTyped
<1>1. PICK o \in Op, a \in User, t \in User, r \in Role, stage \in {"role", "member", "memberships"} :
        Start(c, o, a, t, r, stage) /\ stage \in Steps(o) /\ (stage = "member" => o = "accept")
  <2>1. /\ \A o \in OwnerOp : o \in Op /\ "role" \in Steps(o)
        /\ "accept" \in Op /\ "member" \in Steps("accept")
        /\ "deleteAccount" \in Op /\ "memberships" \in Steps("deleteAccount")
        /\ "member" \in Role
    BY DEF OwnerOp, Op, Steps, Role
  <2> QED BY <2>1 DEF Request, PresentToken, RequestDeletion
<1>2. /\ call[c] = Idle /\ UNCHANGED <<status, role>>
      /\ excuses' = IF Overlap(c, o) THEN excuses \union {"overlap"} ELSE excuses
  BY <1>1 DEF Start, rowVars
<1>3. Others(c) /\ call'[c].at = stage /\ call'[c].op = o
  <2>1. /\ call'[c] = [at |-> stage, op |-> o, actor |-> a, target |-> t, as |-> r]
        /\ \A d \in Call \ {c} : call'[d] = call[d]
    BY <1>1, StartTyped
  <2> QED BY <2>1 DEF Others
<1>4. OwnersAreWatched'
  <2>1. call'[c].op \in Reducing /\ excuses' = {} => OwnerIsWatched(call[c])'
    BY <1>1, <1>3 DEF OwnerIsWatched, Reducing
  <2>2. call'[c].op \in Reducing /\ excuses' = {} =>
          \A d \in Call \ {c} : call[d].op \notin Reducing
    BY <1>2, <1>3 DEF Overlap
  <2>3. Owners' = Owners /\ status' = status
    BY <1>2 DEF Owners
  <2> QED BY <1>0, <1>2, <1>3, <2>1, <2>2, <2>3, WatchKept DEF OwnerInv
<1>5. KeepsAnOwner'
  <2>1. call[c].at # "promote"
    BY <1>2 DEF Idle
  <2> QED BY <1>2, <1>3, <2>1 DEF OwnerInv, KeepsAnOwner, Owners, Others
<1> QED BY <1>4, <1>5 DEF OwnerInv

(* What a read finds keeps the watch on its call.                          *)
LEMMA ReadingKeepsWatch ==
    ASSUME TypeOK, KnownInv, OwnerInv, NEW c \in Call, Reading(c), SameCall(c), Found(c),
           excuses' = {}, call[c].op \in Reducing
    PROVE  OwnerIsWatched(call[c])'
<1> DEFINE t == call[c].target
<1>0. /\ call[c] # Idle /\ call[c].op \in Op /\ call[c].at \in Steps(call[c].op)
      /\ t \in User /\ call[c].actor \in User /\ call[c].as \in Role
  <2>1. call[c] # Idle
    BY DEF Idle, Reducing
  <2> QED BY <2>1, CallFields
<1>1. UNCHANGED <<status, role>> /\ excuses = {}
  BY ReadingFrame DEF rowVars
<1>2. Owners' = Owners
  BY <1>1 DEF Owners
<1>3. OwnerIsWatched(call[c]) /\ \A d \in Call \ {c} : call[d].op \notin Reducing
  BY <1>1, Watched DEF OwnerInv
<1>4. call[c].at # "promote" => Owners # {}
  <2>1. \A d \in Call \ {c} : call[d].at # "promote"
    BY <1>3, OthersUnwatched DEF TypeOK
  <2> QED BY <1>1, <2>1 DEF OwnerInv, KeepsAnOwner
<1>5. Cardinality(Owners) > 1 => \E o \in Owners : o # t
  <2>1. SUFFICES ASSUME Owners \subseteq {t} PROVE ~(Cardinality(Owners) > 1)
    OBVIOUS
  <2>2. IsFiniteSet({t}) /\ Cardinality({t}) = 1
    BY FS_Singleton
  <2>3. Cardinality(Owners) <= 1 /\ Cardinality(Owners) \in Nat
    BY <2>1, <2>2, FS_Subset, FS_CardinalityType
  <2> QED BY <2>3
<1>6. t \notin Owners /\ call[c].actor \in Owners => \E o \in Owners : o # t
  OBVIOUS
<1>7. call[c].op \in Reducing \ {"deleteAccount"} => call[c].op \notin {"invite", "resend"}
  BY DEF Reducing
<1> DEFINE a == call[c].actor
           k == call'[c]
<1>8. k.op = call[c].op /\ k.actor = a /\ k.target = t /\ k.as = call[c].as
  BY DEF SameCall
<1>9. CASE call[c].at = "role"
  <2>1. a \in Owners /\ k.at = "member"
    BY <1>9, <1>7, <1>0 DEF Found, Steps, Op, OwnerOp
  <2> QED BY <1>2, <1>8, <2>1 DEF OwnerIsWatched
<1>10. CASE call[c].at = "member"
  <2>1. /\ a \in Owners /\ status[t] \in Wanted(call[c].op)
        /\ k.at = IF TakesOwner(c) /\ role[t] = "owner" THEN "count" ELSE Change(call[c].op)
    BY <1>3, <1>10 DEF Found, OwnerIsWatched
  <2>2. CASE k.at = "count"
    BY <1>2, <1>8, <2>1, <2>2 DEF OwnerIsWatched
  <2>3. CASE k.at # "count"
    <3>1. k.at = Change(call[c].op) /\ (TakesOwner(c) => role[t] # "owner")
      BY <2>1, <2>3
    <3>2. TakesOwner(c) => \E o \in Owners : o # t
      BY <1>6, <2>1, <3>1 DEF Owners
    <3>3. CASE call[c].op = "revoke"
      <4>1. k.at = "pending" /\ status[t] = "invited"
        BY <2>1, <3>1, <3>3 DEF Change, Wanted
      <4>2. t # a
        BY <2>1, <4>1 DEF Owners
      <4> QED BY <1>2, <1>8, <2>1, <3>3, <4>1, <4>2 DEF OwnerIsWatched
    <3>4. CASE call[c].op = "transfer"
      <4>1. k.at = "demote" /\ status[t] = "active"
        BY <2>1, <3>1, <3>4 DEF Change, Wanted
      <4> QED BY <1>1, <1>2, <1>8, <2>1, <3>4, <4>1 DEF OwnerIsWatched
    <3>5. CASE call[c].op = "updateRole"
      <4>1. k.at = "setRole" /\ (call[c].as = "member" => TakesOwner(c))
        BY <3>1, <3>5 DEF Change, TakesOwner
      <4> QED BY <1>2, <1>8, <2>1, <3>2, <3>5, <4>1 DEF OwnerIsWatched
    <3>6. CASE call[c].op \in {"disable", "remove"}
      <4>1. k.at \in {"suspend", "delete"} /\ TakesOwner(c)
        BY <3>1, <3>6 DEF Change, TakesOwner
      <4> QED BY <1>2, <1>8, <2>1, <3>2, <3>6, <4>1 DEF OwnerIsWatched
    <3> QED BY <1>0, <1>10, <3>3, <3>4, <3>5, <3>6 DEF Reducing, Steps
  <2> QED BY <2>2, <2>3
<1>11. CASE call[c].at = "count"
  <2>1. a \in Owners /\ Cardinality(Owners) > 1 /\ k.at = Change(call[c].op)
    BY <1>3, <1>11 DEF Found, OwnerIsWatched
  <2>2. call[c].op \in {"updateRole", "disable", "remove"}
    BY <1>0, <1>11 DEF Steps, Op, OwnerOp
  <2>3. k.at \in {"setRole", "suspend", "delete"}
    BY <2>1, <2>2 DEF Change
  <2> QED BY <1>2, <1>5, <1>8, <2>1, <2>2, <2>3 DEF OwnerIsWatched
<1>12. CASE call[c].at = "pending"
  <2>1. call[c].op = "revoke" /\ k.at = "revoke" /\ a \in Owners /\ t # a
    BY <1>0, <1>3, <1>7, <1>12 DEF Found, Steps, Op, OwnerOp, OwnerIsWatched, Reducing
  <2> QED BY <1>2, <1>8, <2>1 DEF OwnerIsWatched
<1>13. CASE call[c].at \in {"email", "seats"}
  BY <1>0, <1>13 DEF Reducing, Steps
<1>14. CASE call[c].at \in {"memberships", "owners"}
  <2>1. call[c].op = "deleteAccount"
    BY <1>0, <1>14 DEF Steps, Op, OwnerOp
  <2>2. a = t
    BY <2>1 DEF KnownInv, TargetsAreKnown, TargetIsKnown
  <2>3. /\ k.at \in {"owners", "others", "anonymize"}
        /\ k.at = "anonymize" => a \notin Owners \/ Cardinality(Owners) > 1
    BY <1>14 DEF Found
  <2>4. k.at = "anonymize" => \E o \in Owners : o # t
    BY <1>4, <1>5, <1>14, <2>2, <2>3
  <2> QED BY <1>2, <1>8, <2>1, <2>3, <2>4 DEF OwnerIsWatched
<1>15. call[c].at # "others"
  BY <1>1 DEF Found
<1> QED BY <1>9, <1>10, <1>11, <1>12, <1>13, <1>14, <1>15 DEF Found

(* Reads keep the watch and the owners.                                    *)
LEMMA ReadingWatched ==
    ASSUME TypeOK, KnownInv, OwnerInv, NEW c \in Call, Reading(c)
    PROVE  OwnerInv'
<1>0. TypeOK' /\ Others(c) /\ (call'[c] = Idle \/ (SameCall(c) /\ Found(c)))
  BY ReadingTyped, ReadingFinds
<1>1. UNCHANGED <<status, role>> /\ excuses \subseteq excuses'
  BY ReadingFrame DEF rowVars
<1>2. Owners' = Owners
  BY <1>1 DEF Owners
<1>3. excuses' = {} /\ call'[c].op \in Reducing =>
         OwnerIsWatched(call[c])' /\ \A d \in Call \ {c} : call[d].op \notin Reducing
  <2>1. SUFFICES ASSUME excuses' = {}, call'[c].op \in Reducing
                 PROVE  OwnerIsWatched(call[c])' /\ \A d \in Call \ {c} : call[d].op \notin Reducing
    OBVIOUS
  <2>2. excuses = {} /\ SameCall(c) /\ Found(c) /\ call[c].op \in Reducing
    BY <1>0, <1>1, <2>1 DEF Idle, Reducing, SameCall
  <2> QED BY <2>1, <2>2, ReadingKeepsWatch, Watched DEF OwnerInv
<1>4. OwnersAreWatched'
  BY <1>0, <1>1, <1>2, <1>3, WatchKept DEF OwnerInv
<1>5. KeepsAnOwner'
  <2>1. call[c].at # "promote"
    BY DEF Reading, RequireOwner, ReadMember, CountOwners, ReadEmail, CountSeats,
       ReadPending, ReadMemberships, CountOtherOwners, CountOthers
  <2> QED BY <1>0, <1>1, <1>2, <2>1 DEF OwnerInv, KeepsAnOwner, Others
<1> QED BY <1>4, <1>5 DEF OwnerInv

(* A transfer that dies between its two writes is an excuse.               *)
LEMMA CrashWatched ==
    ASSUME TypeOK, OwnerInv, NEW c \in Call, Crash(c)
    PROVE  OwnerInv'
<1>0. TypeOK' /\ Others(c) /\ call'[c] = Idle
  BY CrashTyped DEF Moved, Others
<1>1. /\ UNCHANGED <<status, role>>
      /\ excuses' = IF call[c].at = "promote" THEN excuses \union {"halfTransfer"} ELSE excuses
  BY DEF Crash, rowVars
<1>2. Owners' = Owners
  BY <1>1 DEF Owners
<1>3. OwnersAreWatched'
  <2>1. call'[c].op \notin Reducing
    BY <1>0 DEF Idle, Reducing
  <2> QED BY <1>0, <1>1, <1>2, <2>1, WatchKept DEF OwnerInv
<1>4. KeepsAnOwner'
  BY <1>0, <1>1, <1>2 DEF OwnerInv, KeepsAnOwner, Others
<1> QED BY <1>3, <1>4 DEF OwnerInv

(* Operations that do not reduce the owners only add to them.              *)
LEMMA AddingWatched ==
    ASSUME TypeOK, KnownInv, OwnerInv, NEW c \in Call, Writing(c), call[c].op \notin Reducing
    PROVE  OwnerInv'
<1> DEFINE t == call[c].target
<1>0. /\ TypeOK' /\ Others(c) /\ t \in User
      /\ call[c].op \in {"invite", "resend", "restore", "accept"}
      /\ call[c].at \in Steps(call[c].op)
      /\ call'[c].op \notin Reducing
  <2>1. call[c].op \in Op /\ call[c].at \in Steps(call[c].op) /\ t \in User
    BY WriterAtWork
  <2>2. call'[c].op \notin Reducing
    BY WritingLeads DEF SameCall, Idle, Reducing
  <2> QED BY <2>1, <2>2, WriteAccountTyped, StampInvitationTyped, WriteMembershipTyped,
             WritingLeads DEF Writing, Op, OwnerOp, Reducing
<1>1. call[c].at \notin {"suspend", "delete", "setRole", "anonymize", "demote", "promote"}
  BY OthersUnwatched DEF TypeOK
<1>2. /\ excuses' = excuses
      /\ Owners \subseteq Owners'
      /\ \A u \in User : status[u] = "active" => status'[u] = "active"
  <2>1. CASE InsertMember(c)
    <3>1. status[t] = "none"
      BY <2>1 DEF InsertMember, KnownInv, TargetsAreKnown, TargetIsKnown, Known
    <3> QED BY <1>0, <2>1, <3>1 DEF InsertMember, Owners, TypeOK
  <2>2. CASE Activate(c) \/ Restore(c)
    BY <1>0, <2>2 DEF Activate, Restore, WriteStatus, SetStatus, Owners, TypeOK
  <2>3. CASE ~InsertMember(c) /\ ~Activate(c) /\ ~Restore(c)
    <3>1. UNCHANGED <<status, role, excuses>>
      BY <1>1, <2>3 DEF Writing, WriteAccount, StampInvitation, WriteMembership, InsertUser,
         EnableUser, SuspendUser, RestoreUser, Erase, InsertInvitation, RotateToken,
         StampRevoked, StampAccepted, Suspend, DeleteMember, SetRole, Demote, Promote,
         Anonymize, WriteDisabled, WriteInvitation
    <3> QED BY <3>1 DEF Owners
  <2> QED BY <2>1, <2>2, <2>3
<1>3. OwnersAreWatched'
  BY <1>0, <1>2, WatchKept DEF OwnerInv
<1>4. KeepsAnOwner'
  BY <1>0, <1>1, <1>2 DEF OwnerInv, KeepsAnOwner, Others
<1> QED BY <1>3, <1>4 DEF OwnerInv

(* A watched write leaves an owner: another than the one it takes, the     *)
(* actor, or the one it promotes.                                          *)
LEMMA ReducingLeavesAnOwner ==
    ASSUME TypeOK, KnownInv, OwnerInv, NEW c \in Call, Writing(c), call[c].op \in Reducing,
           excuses = {}, call[c].at # "demote"
    PROVE  Owners' # {}
<1> DEFINE t == call[c].target
           a == call[c].actor
<1>0. /\ t \in User /\ a \in User /\ call[c].op \in Op /\ call[c].at \in Steps(call[c].op)
      /\ call[c].as \in Role
  BY WriterAtWork
<1>1. OwnerIsWatched(call[c]) /\ \A d \in Call \ {c} : call[d].op \notin Reducing
  BY Watched DEF OwnerInv
<1>2. call[c].at # "promote" => Owners # {}
  <2>1. \A d \in Call \ {c} : call[d].at # "promote"
    BY <1>1, OthersUnwatched DEF TypeOK
  <2> QED BY <2>1 DEF OwnerInv, KeepsAnOwner
<1>3. CASE Suspend(c) \/ DeleteMember(c)
  <2>1. \E o \in Owners : o # t
    <3>1. call[c].at \in {"suspend", "delete"}
      BY <1>3 DEF Suspend, DeleteMember
    <3>2. CASE call[c].op = "revoke"
      <4>1. call[c].at = "delete"
        BY <1>0, <3>1, <3>2 DEF Steps
      <4>2. a \in Owners /\ t # a
        BY <1>1, <3>2, <4>1 DEF OwnerIsWatched
      <4> QED BY <4>2
    <3>3. CASE call[c].op # "revoke"
      BY <1>1, <3>1, <3>3 DEF OwnerIsWatched
    <3> QED BY <3>2, <3>3
  <2>2. \A u \in User \ {t} : status'[u] = status[u] /\ role'[u] = role[u]
    BY <1>0, <1>3 DEF Suspend, DeleteMember, WriteStatus, SetStatus, TypeOK
  <2> QED BY <2>1, <2>2 DEF Owners
<1>4. CASE SetRole(c)
  <2>0. call[c].at = "setRole"
    BY <1>4 DEF SetRole
  <2>1. /\ call[c].as = "member" => \E o \in Owners : o # t
        /\ a \in Owners
    BY <1>1, <2>0 DEF OwnerIsWatched
  <2>2. /\ status' = status
        /\ \A u \in User \ {t} : role'[u] = role[u]
        /\ role'[t] \in {role[t], call[c].as}
    BY <1>0, <1>4 DEF SetRole, WriteRole, TypeOK
  <2>3. CASE call[c].as = "member"
    BY <2>1, <2>2, <2>3 DEF Owners
  <2>4. CASE call[c].as = "owner"
    BY <1>0, <2>1, <2>2, <2>4 DEF Owners
  <2> QED BY <1>0, <2>3, <2>4 DEF Role
<1>5. CASE Promote(c)
  <2>1. status[t] = "active"
    BY <1>1, <1>5 DEF Promote, OwnerIsWatched
  <2>2. status'[t] = "active" /\ role'[t] = "owner"
    BY <1>0, <1>5, <2>1 DEF Promote, WriteRole, TypeOK
  <2> QED BY <1>0, <2>2 DEF Owners
<1>6. CASE Anonymize(c)
  <2>1. call[c].op = "deleteAccount" /\ call[c].at = "anonymize"
    BY <1>0, <1>6 DEF Anonymize, Steps, Op, OwnerOp
  <2>2. t = a
    BY <2>1 DEF KnownInv, TargetsAreKnown, TargetIsKnown
  <2>3. \E o \in Owners : o # t
    BY <1>1, <2>1 DEF OwnerIsWatched
  <2>4. \A u \in User \ {t} : status'[u] = status[u] /\ role'[u] = role[u]
    BY <1>0, <1>6, <2>2 DEF Anonymize, TypeOK
  <2> QED BY <2>3, <2>4 DEF Owners
<1>7. CASE ~(Suspend(c) \/ DeleteMember(c) \/ SetRole(c) \/ Promote(c) \/ Anonymize(c))
  <2>1. call[c].at \notin {"insertMember", "activate", "restore"}
    BY <1>0 DEF Reducing, Steps
  <2>2. UNCHANGED <<status, role>> /\ call[c].at # "promote"
    BY <1>7, <2>1 DEF Writing, WriteAccount, StampInvitation, WriteMembership, InsertUser,
       EnableUser, SuspendUser, RestoreUser, Erase, InsertInvitation, RotateToken,
       StampRevoked, StampAccepted, InsertMember, Activate, Restore, Demote, WriteDisabled,
       WriteInvitation
  <2> QED BY <1>2, <2>2 DEF Owners
<1> QED BY <1>3, <1>4, <1>5, <1>6, <1>7

(* Watched writes keep the watch on their call.                            *)
LEMMA ReducingWatched ==
    ASSUME TypeOK, KnownInv, OwnerInv, NEW c \in Call, Writing(c), call[c].op \in Reducing
    PROVE  OwnerInv'
<1> DEFINE t == call[c].target
           a == call[c].actor
<1>0. /\ TypeOK' /\ Others(c) /\ t \in User /\ a \in User
      /\ call[c].op \in Op /\ call[c].at \in Steps(call[c].op)
  BY WriterAtWork, WriteAccountTyped, StampInvitationTyped, WriteMembershipTyped, WritingLeads
     DEF Writing
<1>1. excuses' = excuses
  BY DEF Writing, WriteAccount, StampInvitation, WriteMembership, InsertUser,
     EnableUser, SuspendUser, RestoreUser, Erase, InsertInvitation, RotateToken,
     StampRevoked, StampAccepted, InsertMember, Activate, Restore, Suspend, DeleteMember,
     SetRole, Demote, Promote, Anonymize, WriteDisabled, WriteInvitation, WriteStatus, WriteRole
<1>2. CASE excuses # {}
  BY <1>1, <1>2 DEF OwnerInv, KeepsAnOwner, OwnersAreWatched
<1>3. CASE excuses = {}
  <2>1. OwnerIsWatched(call[c]) /\ \A d \in Call \ {c} : call[d].op \notin Reducing
    BY <1>3, Watched DEF OwnerInv
  <2>2. call'[c].op \in Reducing => OwnerIsWatched(call[c])'
    <3>1. SUFFICES ASSUME SameCall(c), Leads(c) PROVE OwnerIsWatched(call[c])'
      BY WritingLeads DEF Idle, Reducing
    <3>2. CASE call'[c].at = "delete"
      <4>1. call[c].op = "revoke" /\ call[c].at = "revoke" /\ UNCHANGED <<status, role>>
        <5>1. call[c].at = "revoke"
          BY <3>1, <3>2 DEF Leads
        <5>2. StampRevoked(c)
          BY <5>1 DEF Writing, WriteAccount, StampInvitation, WriteMembership, InsertUser,
             EnableUser, SuspendUser, RestoreUser, Erase, InsertInvitation, RotateToken,
             StampAccepted, InsertMember, Activate, Restore, Suspend, DeleteMember,
             SetRole, Demote, Promote, Anonymize
        <5> QED BY <1>0, <5>1, <5>2 DEF StampRevoked, WriteInvitation, Steps, Op, OwnerOp
      <4>2. Owners' = Owners
        BY <4>1 DEF Owners
      <4> QED BY <2>1, <3>1, <3>2, <4>1, <4>2 DEF OwnerIsWatched, SameCall
    <3>3. CASE call'[c].at = "promote"
      <4>1. call[c].at = "demote"
        BY <3>1, <3>3 DEF Leads
      <4>2. Demote(c)
        BY <4>1 DEF Writing, WriteAccount, StampInvitation, WriteMembership, InsertUser,
           EnableUser, SuspendUser, RestoreUser, Erase, InsertInvitation, RotateToken,
           StampRevoked, StampAccepted, InsertMember, Activate, Restore, Suspend, DeleteMember,
           SetRole, Promote, Anonymize
      <4>3. status' = status /\ status[t] = "active"
        BY <2>1, <4>1, <4>2 DEF Demote, WriteRole, OwnerIsWatched
      <4> QED BY <3>1, <3>3, <4>3 DEF OwnerIsWatched, SameCall
    <3>4. CASE call'[c].at \notin {"delete", "promote"}
      BY <3>1, <3>4 DEF Leads, OwnerIsWatched
    <3> QED BY <3>2, <3>3, <3>4
  <2>3. OwnersAreWatched'
    BY <1>0, <1>1, <2>1, <2>2, WatchKept DEF OwnerInv
  <2>4. KeepsAnOwner'
    <3>1. CASE call[c].at = "demote"
      <4>1. Demote(c)
        BY <3>1 DEF Writing, WriteAccount, StampInvitation, WriteMembership, InsertUser,
           EnableUser, SuspendUser, RestoreUser, Erase, InsertInvitation, RotateToken,
           StampRevoked, StampAccepted, InsertMember, Activate, Restore, Suspend, DeleteMember,
           SetRole, Promote, Anonymize
      <4>2. Goto(c, "promote")
        BY <4>1 DEF Demote, WriteRole
      <4>3. call'[c].at = "promote"
        BY <3>1, <4>2, GotoGoes DEF Goes
      <4> QED BY <4>3 DEF KeepsAnOwner
    <3>2. CASE call[c].at # "demote"
      BY <1>3, <3>2, ReducingLeavesAnOwner DEF KeepsAnOwner
    <3> QED BY <3>1, <3>2
  <2> QED BY <2>3, <2>4 DEF OwnerInv
<1> QED BY <1>2, <1>3

(* Every step keeps the watch and the owners.                              *)
LEMMA OwnerStep ==
    ASSUME TypeOK, KnownInv, OwnerInv, [Next]_vars
    PROVE  OwnerInv'
<1>1. ASSUME NEW c \in Call, Check(c) PROVE OwnerInv'
  BY <1>1, RequestsWatched, ReadingWatched, CrashWatched DEF Check, Reading
<1>2. ASSUME NEW c \in Call, Writing(c) PROVE OwnerInv'
  BY <1>2, AddingWatched, ReducingWatched
<1>3. ASSUME NEW u \in User, Expire(u) PROVE OwnerInv'
  BY <1>3 DEF Expire, OwnerInv, KeepsAnOwner, OwnersAreWatched, OwnerIsWatched, Owners
<1>4. CASE UNCHANGED vars
  BY <1>4 DEF vars, rowVars, OwnerInv, KeepsAnOwner, OwnersAreWatched, OwnerIsWatched, Owners
<1> QED BY <1>1, <1>2, <1>3, <1>4 DEF Next, Writing

(* The founder owns the workspace.                                         *)
LEMMA InitOwner == Init => OwnerInv
<1> SUFFICES ASSUME Init PROVE OwnerInv
  OBVIOUS
<1>1. Owners # {}
  BY DEF Init, Owners
<1>2. \A c \in Call : call[c].op = "none" /\ call[c].at = "idle"
  BY DEF Init, Idle
<1> QED BY <1>1, <1>2 DEF OwnerInv, KeepsAnOwner, OwnersAreWatched, OwnerIsWatched, Reducing

(* KeepsAnOwner: a workspace is without an owner only during a transfer,   *)
(* or after something that excuses it.                                     *)
THEOREM OwnerKept == Spec => []KeepsAnOwner
<1>1. Init => TypeOK /\ KnownInv /\ OwnerInv
  BY InitTyped, InitKnown, InitOwner
<1>2. TypeOK /\ KnownInv /\ OwnerInv /\ [Next]_vars => (TypeOK /\ KnownInv /\ OwnerInv)'
  BY TypeStep, KnownStep, OwnerStep
<1>3. OwnerInv => KeepsAnOwner
  BY DEF OwnerInv
<1> QED BY <1>1, <1>2, <1>3, PTL DEF Spec

(* Inductive: all of it, with what it rests on.                            *)
THEOREM InductiveCorrect == Spec => []Inductive
<1>1. Init => TypeOK /\ KnownInv /\ OwnerInv /\ SeatsBounded
  BY InitTyped, InitKnown, InitOwner, InitSeats
<1>2. TypeOK /\ KnownInv /\ OwnerInv /\ SeatsBounded /\ [Next]_vars
        => (TypeOK /\ KnownInv /\ OwnerInv /\ SeatsBounded)'
  BY TypeStep, KnownStep, OwnerStep, SeatsStep
<1>3. KnownInv /\ OwnerInv /\ SeatsBounded => Inductive
  BY DEF KnownInv, OwnerInv, Inductive
<1> QED BY <1>1, <1>2, <1>3, PTL DEF Spec

-----------------------------------------------------------------------------
(* Consequences.                                                           *)

(* OwnersChangeMembers: whoever changes members still is an owner.         *)
THEOREM ChangesByOwners == Spec => OwnersChangeMembers
<1>1. ASSUME TypeOK, OwnersAreWatched, excuses = {}, NEW c \in Call,
             Suspend(c) \/ DeleteMember(c) \/ SetRole(c) \/ Demote(c)
      PROVE  call[c].actor \in Owners
  <2>1. call[c].at \in {"suspend", "delete", "setRole", "demote"}
    BY <1>1 DEF Suspend, DeleteMember, SetRole, Demote
  <2>2. call[c].at \in Steps(call[c].op) /\ call[c].op \in Op
    BY <1>1, <2>1, CallFields DEF Idle
  <2>3. call[c].op \in Reducing
    BY <2>1, <2>2 DEF Steps, Op, OwnerOp, Reducing
  <2> QED BY <1>1, <2>1, <2>3 DEF OwnersAreWatched, OwnerIsWatched
<1>2. TypeOK /\ OwnersAreWatched =>
        [\A c \in Call :
           excuses = {} /\ (Suspend(c) \/ DeleteMember(c) \/ SetRole(c) \/ Demote(c))
               => call[c].actor \in Owners]_vars
  BY <1>1
<1>3. Inductive => OwnersAreWatched
  BY DEF Inductive
<1> QED BY <1>2, <1>3, TypeCorrect, InductiveCorrect, PTL DEF OwnersChangeMembers

(* One request at a time overlaps with none.                               *)
LEMMA NoOverlapAlone == ASSUME OneAtATime PROVE Spec => []("overlap" \notin excuses)
<1>1. Init => "overlap" \notin excuses
  BY DEF Init
<1>2. "overlap" \notin excuses /\ [Next]_vars => ("overlap" \notin excuses)'
  <2> SUFFICES ASSUME "overlap" \notin excuses, [Next]_vars PROVE "overlap" \notin excuses'
    OBVIOUS
  <2>1. CASE UNCHANGED vars
    BY <2>1 DEF vars
  <2>2. ASSUME NEW c \in Call, NEW o, NEW a, NEW t, NEW r, NEW stage, Start(c, o, a, t, r, stage)
        PROVE  excuses' = excuses
    BY <2>2 DEF Start, Overlap, OneAtATime
  <2>3. ASSUME NEW c \in Call, Check(c) PROVE excuses' \subseteq excuses \union {"abandoned", "halfTransfer"}
    <3>1. CASE Request(c) \/ PresentToken(c) \/ RequestDeletion(c)
      BY <2>2, <3>1 DEF Request, PresentToken, RequestDeletion
    <3>2. CASE ~(Request(c) \/ PresentToken(c) \/ RequestDeletion(c))
      BY <2>3, <3>2 DEF Check, RequireOwner, ReadMember, CountOwners, ReadEmail, CountSeats, ReadPending,
                        ReadMemberships, CountOtherOwners, CountOthers, Crash, Reads
    <3> QED BY <3>1, <3>2
  <2>4. ASSUME NEW c \in Call, WriteAccount(c) \/ StampInvitation(c) \/ WriteMembership(c)
        PROVE  excuses' = excuses
    BY <2>4 DEF WriteAccount, StampInvitation, WriteMembership, InsertUser, EnableUser, SuspendUser,
                RestoreUser, Erase, InsertInvitation, RotateToken, StampRevoked, StampAccepted,
                InsertMember, Activate, Suspend, Restore, DeleteMember, SetRole, Demote, Promote,
                Anonymize, WriteDisabled, WriteInvitation, WriteStatus, WriteRole
  <2>5. ASSUME NEW u \in User, Expire(u) PROVE excuses' = excuses
    BY <2>5 DEF Expire
  <2> QED BY <2>1, <2>3, <2>4, <2>5 DEF Next
<1> QED BY <1>1, <1>2, PTL DEF Spec

(* With one request at a time the seats keep to the tier, and the last     *)
(* owner is lost in two ways and no other.                                 *)
THEOREM KeptAlone ==
    ASSUME OneAtATime
    PROVE  Spec => [](SeatsWithinTier /\ LostAlone)
<1>1. Cardinality(Call) = 1
  <2>1. PICK c : Call = {c}
    BY DEF OneAtATime
  <2> QED BY <2>1, FS_Singleton
<1>2. TypeOK /\ SeatsBounded => SeatsWithinTier
  <2> SUFFICES ASSUME TypeOK, SeatsBounded PROVE SeatsWithinTier
    OBVIOUS
  <2>1. Cardinality(Seats \ readmitted) \in Nat /\ Cardinality(Promised) \in Nat
    BY SeatsFinite, FS_CardinalityType
  <2> QED BY <1>1, <2>1 DEF SeatsBounded, SeatsWithinTier
<1>3. TypeOK /\ KeepsAnOwner /\ "overlap" \notin excuses => LostAlone
  <2> SUFFICES ASSUME TypeOK, KeepsAnOwner, "overlap" \notin excuses, excuses # {}
               PROVE  excuses \intersect {"halfTransfer", "abandoned"} # {}
    BY DEF KeepsAnOwner, LostAlone
  <2>1. PICK x \in excuses : TRUE
    OBVIOUS
  <2>2. x \in {"halfTransfer", "abandoned"}
    BY <2>1 DEF TypeOK
  <2> QED BY <2>2
<1> QED BY <1>2, <1>3, NoOverlapAlone, TypeCorrect, SeatsKept, OwnerKept, PTL
=============================================================================
