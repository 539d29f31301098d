------------------------------ MODULE Workspace ------------------------------
(***************************************************************************)
(* The members of one workspace: invitations, roles, seats, the transfer   *)
(* of ownership (account/mysql-workspace.ts) and the deletion of accounts  *)
(* (account/mysql-lifecycle.ts).                                           *)
(*                                                                         *)
(* The modelled runtime is the MySQL one. A call is a sequence of          *)
(* statements without a transaction, and every statement is a step that    *)
(* those of other calls come between: what a call has read it holds for    *)
(* true until it writes. Only the last statements of an account's deletion *)
(* are one transaction, hence one step.                                    *)
(***************************************************************************)
EXTENDS Integers, FiniteSets

CONSTANTS
    User,      \* those who are or may become members, each with an address
    Nobody,    \* the actor and target of no call
    Call,      \* the requests the server works on at a time
    SeatLimit, \* members that the largest tier the workspace has allows
    MaxRequests \* bound: requests that are made

ASSUME WorkspaceAssumption ==
    /\ IsFiniteSet(User) /\ Nobody \notin User
    /\ IsFiniteSet(Call) /\ Call # {}
    /\ SeatLimit \in Nat \ {0} /\ MaxRequests \in Nat

VARIABLES
    email,      \* users: whether the address is unused, held, erased or anonymous
    disabled,   \* users: is_disabled
    status,     \* memberships: none is the absence of a row
    role,
    invitation, \* the stamps on a member's invitation
    call,       \* what each call does, for whom, to whom, and the statement it is at
    readmitted, \* history: the active members who were disabled before
    left,       \* history: those whose membership was deleted
    requests,   \* how many requests were made
    excuses     \* history: what may cost a workspace its last owner

userVars == <<email, disabled>>
rowVars == <<userVars, status, role, invitation>>
vars == <<rowVars, call, readmitted, left, requests, excuses>>

(* A deleted account has an anonymous address.                             *)
Gone == {"erased", "anonymous"}
Email == {"unused", "held"} \union Gone

Role == {"owner", "member"}
OwnerOp == {"invite", "resend", "revoke", "updateRole", "disable", "restore",
            "remove", "transfer"}
Op == OwnerOp \union {"accept", "deleteAccount"}

(* The operations that may take an owner away.                             *)
Reducing == {"revoke", "updateRole", "disable", "remove", "transfer", "deleteAccount"}

(* The statements of each operation.                                       *)
Steps(o) ==
    CASE o = "invite" -> {"role", "email", "seats", "insertUser", "insertMember",
                          "insertInvitation"}
      [] o = "accept" -> {"member", "seats", "enableUser", "activate", "stamp"}
      [] o = "resend" -> {"role", "member", "pending", "email", "rotate"}
      [] o = "revoke" -> {"role", "member", "pending", "revoke", "delete", "erase"}
      [] o = "updateRole" -> {"role", "member", "count", "setRole"}
      [] o = "disable" -> {"role", "member", "count", "suspend", "suspendUser"}
      [] o = "restore" -> {"role", "member", "restore", "restoreUser"}
      [] o = "remove" -> {"role", "member", "count", "delete"}
      [] o = "transfer" -> {"role", "member", "demote", "promote"}
      [] o = "deleteAccount" -> {"memberships", "owners", "others", "anonymize"}

Stage == UNION {Steps(o) : o \in Op}

Idle == [at |-> "idle", op |-> "none", actor |-> Nobody, target |-> Nobody, as |-> "member"]

(* A call gives the role "as", if it gives one.                            *)
CallState ==
    {k \in [at : Stage, op : Op, actor : User, target : User, as : Role] :
        k.at \in Steps(k.op)} \union {Idle}

TypeOK ==
    /\ email \in [User -> Email]
    /\ disabled \in [User -> BOOLEAN]
    /\ status \in [User -> {"none", "invited", "active", "disabled"}]
    /\ role \in [User -> Role]
    /\ invitation \in [User -> SUBSET {"sent", "expired", "accepted", "revoked"}]
    /\ call \in [Call -> CallState]
    /\ readmitted \in SUBSET User
    /\ left \in SUBSET User
    /\ requests \in 0..MaxRequests
    /\ excuses \in SUBSET {"overlap", "halfTransfer", "abandoned"}

Owners == {u \in User : status[u] = "active" /\ role[u] = "owner"}
Active == {u \in User : status[u] = "active"}
Seats == {u \in User : status[u] \in {"active", "invited"}}

(* A workspace as it is between calls: the founder, and others who have    *)
(* been invited, have accepted, or have been disabled since.               *)
Init ==
    /\ \E founder \in User :
        /\ status \in [User -> {"none", "invited", "active", "disabled"}]
        /\ role \in [User -> Role]
        /\ status[founder] = "active" /\ role[founder] = "owner"
        /\ invitation = [u \in User |->
             CASE u = founder \/ status[u] = "none" -> {}
               [] status[u] = "invited" -> {"sent"}
               [] OTHER -> {"sent", "accepted"}]
    /\ \A u \in User : status[u] = "none" => role[u] = "member"
    /\ Cardinality(Seats) <= SeatLimit
    /\ email = [u \in User |-> IF status[u] = "none" THEN "unused" ELSE "held"]
    /\ disabled = [u \in User |-> status[u] # "active"]
    /\ call = [c \in Call |-> Idle]
    /\ readmitted = {} /\ left = {} /\ requests = 0 /\ excuses = {}

Goto(c, stage) ==
    call' = [call EXCEPT ![c] = IF stage = "idle" THEN Idle ELSE [@ EXCEPT !.at = stage]]

(* The call goes on if what it read allows it, and else throws.            *)
Require(c, allowed, stage) == Goto(c, IF allowed THEN stage ELSE "idle")

(* A statement that writes nothing this model keeps.                       *)
Reads == UNCHANGED <<rowVars, readmitted, left, excuses, requests>>

-----------------------------------------------------------------------------
(* Requests.                                                               *)

SignedIn(u) == email[u] \in {"held", "anonymous"} /\ ~disabled[u]

Overlap(c, o) ==
    o \in Reducing /\ \E d \in Call \ {c} : call[d].op \in Reducing

Start(c, o, a, t, r, stage) ==
    /\ call[c] = Idle /\ requests < MaxRequests
    /\ requests' = requests + 1
    /\ call' = [call EXCEPT ![c] =
                  [at |-> stage, op |-> o, actor |-> a, target |-> t, as |-> r]]
    /\ excuses' = IF Overlap(c, o) THEN excuses \union {"overlap"} ELSE excuses
    /\ UNCHANGED <<rowVars, readmitted, left>>

(* Whoever manages members is signed in and not disabled. Only an          *)
(* invitation and a change of role name a role. Who is gone can be invited *)
(* again, as another user.                                                 *)
Request(c) ==
    \E o \in OwnerOp, a \in User, t \in User, r \in Role :
        /\ SignedIn(a)
        /\ o \notin {"invite", "updateRole"} => r = "member"
        /\ o = "invite" => email[t] \notin Gone
        /\ Start(c, o, a, t, r, "role")

RequireOwner(c) ==
    /\ call[c].at = "role"
    /\ Require(c, call[c].actor \in Owners, IF call[c].op = "invite" THEN "email" ELSE "member")
    /\ Reads

(* The invitation is found by its token, of which the last one is valid.   *)
Open(u) == "sent" \in invitation[u] /\ invitation[u] \intersect {"accepted", "revoked"} = {}

PresentToken(c) ==
    \E u \in User :
        /\ Open(u) /\ "expired" \notin invitation[u]
        /\ Start(c, "accept", u, u, "member", "member")

RequestDeletion(c) ==
    \E u \in User :
        SignedIn(u) /\ Start(c, "deleteAccount", u, u, "member", "memberships")

(* What the membership must be for each operation,                         *)
Wanted(o) ==
    CASE o \in {"accept", "resend", "revoke"} -> {"invited"}
      [] o = "transfer" -> {"active"}
      [] o = "restore" -> {"disabled"}
      [] OTHER -> {"invited", "active", "disabled"}

(* and where it goes on then.                                              *)
Change(o) ==
    CASE o = "accept" -> "seats"
      [] o \in {"resend", "revoke"} -> "pending"
      [] o = "transfer" -> "demote"
      [] o = "restore" -> "restore"
      [] o = "updateRole" -> "setRole"
      [] o = "disable" -> "suspend"
      [] OTHER -> "delete"

(* Demoting, disabling or removing an owner needs another one.             *)
TakesOwner_Removal(c) == call[c].op \in {"disable", "remove"}
TakesOwner(c) ==
    call[c].op \in {"disable", "remove"} \/ (call[c].op = "updateRole" /\ call[c].as = "member")

ReadMember(c) ==
    LET u == call[c].target IN
    /\ call[c].at = "member"
    /\ Require(c, status[u] \in Wanted(call[c].op),
               IF TakesOwner(c) /\ role[u] = "owner" THEN "count" ELSE Change(call[c].op))
    /\ Reads

CountOwners(c) ==
    /\ call[c].at = "count"
    /\ Require(c, Cardinality(Owners) > 1, Change(call[c].op))
    /\ Reads

-----------------------------------------------------------------------------
(* Invitations.                                                            *)

ReadEmail(c) ==
    /\ call[c].at = "email"
    /\ IF call[c].op = "invite"
       THEN Require(c, email[call[c].target] # "held", "seats")
       ELSE Require(c, email[call[c].target] \in {"held", "anonymous"}, "rotate")
    /\ Reads

(* A new member needs a free seat; an invited one has reserved his.        *)
SeatFree_OffByOne(c, limit) == Cardinality(Seats) <= limit
SeatFree(c, limit) ==
    IF call[c].op = "invite" THEN Cardinality(Seats) < limit ELSE Cardinality(Seats) <= limit

(* The tier is read with each count, and may be another each time.         *)
CountSeats(c) ==
    \E limit \in 1..SeatLimit :
        /\ call[c].at = "seats"
        /\ Require(c, SeatFree(c, limit),
                   IF call[c].op = "invite" THEN "insertUser" ELSE "enableUser")
        /\ Reads

(* The account of an invited user is disabled; its address must be new.    *)
InsertUser(c) ==
    LET u == call[c].target IN
    /\ call[c].at = "insertUser"
    /\ Require(c, email[u] = "unused", "insertMember")
    /\ IF email[u] = "unused"
       THEN /\ email' = [email EXCEPT ![u] = "held"]
            /\ disabled' = [disabled EXCEPT ![u] = TRUE]
       ELSE UNCHANGED userVars
    /\ UNCHANGED <<status, role, invitation, readmitted, left, excuses, requests>>

InsertMember(c) ==
    LET u == call[c].target IN
    /\ call[c].at = "insertMember"
    /\ status' = [status EXCEPT ![u] = "invited"]
    /\ role' = [role EXCEPT ![u] = call[c].as]
    /\ Goto(c, "insertInvitation")
    /\ UNCHANGED <<userVars, invitation, readmitted, left, excuses, requests>>

(* Statements that stamp the invitation of the target.                     *)
WriteInvitation(c, stamps, stage) ==
    /\ invitation' = [invitation EXCEPT ![call[c].target] = stamps]
    /\ Goto(c, stage)
    /\ UNCHANGED <<userVars, status, role, readmitted, left, excuses, requests>>

InsertInvitation(c) == call[c].at = "insertInvitation" /\ WriteInvitation(c, {"sent"}, "idle")

(* Resending and revoking look for an invitation without an outcome.       *)
ReadPending(c) ==
    /\ call[c].at = "pending"
    /\ Require(c, Open(call[c].target), IF call[c].op = "resend" THEN "email" ELSE "revoke")
    /\ Reads

RotateToken(c) ==
    call[c].at = "rotate" /\ WriteInvitation(c, invitation[call[c].target] \ {"expired"}, "idle")

StampRevoked(c) ==
    call[c].at = "revoke" /\ WriteInvitation(c, invitation[call[c].target] \union {"revoked"}, "delete")

StampAccepted(c) ==
    call[c].at = "stamp" /\ WriteInvitation(c, invitation[call[c].target] \union {"accepted"}, "idle")

Expire(u) ==
    /\ Open(u)
    /\ invitation' = [invitation EXCEPT ![u] = @ \union {"expired"}]
    /\ UNCHANGED <<userVars, status, role, call, readmitted, left, excuses, requests>>

-----------------------------------------------------------------------------
(* Memberships and accounts.                                               *)

(* UPDATE ... SET status: no row, no change.                               *)
SetStatus_Upsert(u, new) ==
    /\ status' = [status EXCEPT ![u] = new]
    /\ readmitted' = IF new = "active" /\ status[u] = "disabled"
                     THEN readmitted \union {u} ELSE readmitted \ {u}
SetStatus(u, new) ==
    IF status[u] = "none"
    THEN UNCHANGED <<status, readmitted>>
    ELSE /\ status' = [status EXCEPT ![u] = new]
         /\ readmitted' =
              IF new = "active"
              THEN IF status[u] = "disabled" THEN readmitted \union {u} ELSE readmitted
              ELSE readmitted \ {u}

WriteStatus(c, new, stage) ==
    /\ SetStatus(call[c].target, new)
    /\ Goto(c, stage)
    /\ UNCHANGED <<userVars, role, invitation, left, excuses, requests>>

WriteDisabled(c, value, stage) ==
    /\ disabled' = [disabled EXCEPT ![call[c].target] = value]
    /\ Goto(c, stage)
    /\ UNCHANGED <<email, status, role, invitation, readmitted, left, excuses, requests>>

(* Acceptance: the password is hashed, then the account is enabled.        *)
EnableUser(c) == call[c].at = "enableUser" /\ WriteDisabled(c, FALSE, "activate")
Activate(c) == call[c].at = "activate" /\ WriteStatus(c, "active", "stamp")

Suspend(c) == call[c].at = "suspend" /\ WriteStatus(c, "disabled", "suspendUser")
SuspendUser(c) == call[c].at = "suspendUser" /\ WriteDisabled(c, TRUE, "idle")

Restore(c) == call[c].at = "restore" /\ WriteStatus(c, "active", "restoreUser")
RestoreUser(c) == call[c].at = "restoreUser" /\ WriteDisabled(c, FALSE, "idle")

(* DELETE of the membership, by a removal or a revocation.                 *)
DeleteMember_Pending(c) ==
    LET u == call[c].target
        deletes == call[c].op = "remove" \/ status[u] = "invited" IN
    /\ call[c].at = "delete"
    /\ status' = IF deletes THEN [status EXCEPT ![u] = "none"] ELSE status
    /\ left' = IF deletes /\ status[u] # "none" THEN left \union {u} ELSE left
    /\ readmitted' = IF deletes THEN readmitted \ {u} ELSE readmitted
    /\ Goto(c, IF call[c].op = "revoke" THEN "erase" ELSE "idle")
    /\ UNCHANGED <<userVars, role, invitation, excuses, requests>>
DeleteMember(c) ==
    LET u == call[c].target IN
    /\ call[c].at = "delete"
    /\ status' = [status EXCEPT ![u] = "none"]
    /\ left' = IF status[u] = "none" THEN left ELSE left \union {u}
    /\ readmitted' = readmitted \ {u}
    /\ Goto(c, IF call[c].op = "revoke" THEN "erase" ELSE "idle")
    /\ UNCHANGED <<userVars, role, invitation, excuses, requests>>

Erase(c) ==
    LET u == call[c].target IN
    /\ call[c].at = "erase"
    /\ email' = [email EXCEPT ![u] = "erased"]
    /\ disabled' = [disabled EXCEPT ![u] = TRUE]
    /\ Goto(c, "idle")
    /\ UNCHANGED <<status, role, invitation, readmitted, left, excuses, requests>>

WriteRole(c, u, new, stage) ==
    /\ role' = IF status[u] = "none" THEN role ELSE [role EXCEPT ![u] = new]
    /\ Goto(c, stage)
    /\ UNCHANGED <<userVars, status, invitation, readmitted, left, excuses, requests>>

SetRole_Raw(c) == call[c].at = "setRole" /\ WriteRole(c, call[c].target, "viewer", "idle")
SetRole(c) == call[c].at = "setRole" /\ WriteRole(c, call[c].target, call[c].as, "idle")

(* A transfer demotes the old owner before it promotes the new one.        *)
Demote(c) == call[c].at = "demote" /\ WriteRole(c, call[c].actor, "member", "promote")
Promote(c) == call[c].at = "promote" /\ WriteRole(c, call[c].target, "owner", "idle")

-----------------------------------------------------------------------------
(* Deletion of an account.                                                 *)

ReadMemberships(c) ==
    /\ call[c].at = "memberships"
    /\ Goto(c, IF call[c].actor \in Owners THEN "owners" ELSE "anonymize")
    /\ Reads

CountOtherOwners(c) ==
    /\ call[c].at = "owners"
    /\ Goto(c, IF Cardinality(Owners) > 1 THEN "anonymize" ELSE "others")
    /\ Reads

(* The only owner may go if no other member is active.                     *)
CountOthers(c) ==
    /\ call[c].at = "others"
    /\ Require(c, Active \ {call[c].actor} = {}, "anonymize")
    /\ excuses' = IF Active \ {call[c].actor} = {} THEN excuses \union {"abandoned"} ELSE excuses
    /\ UNCHANGED <<rowVars, readmitted, left, requests>>

Anonymize(c) ==
    LET u == call[c].actor IN
    /\ call[c].at = "anonymize"
    /\ status' = [status EXCEPT ![u] = "none"]
    /\ left' = IF status[u] = "none" THEN left ELSE left \union {u}
    /\ readmitted' = readmitted \ {u}
    /\ email' = [email EXCEPT ![u] = "anonymous"]
    /\ disabled' = [disabled EXCEPT ![u] = TRUE]
    /\ Goto(c, "idle")
    /\ UNCHANGED <<role, invitation, excuses, requests>>

-----------------------------------------------------------------------------
(* The server may die, or a statement fail, before any statement.          *)
Crash(c) ==
    /\ call[c] # Idle
    /\ Goto(c, "idle")
    /\ excuses' = IF call[c].at = "promote" THEN excuses \union {"halfTransfer"} ELSE excuses
    /\ UNCHANGED <<rowVars, readmitted, left, requests>>

Check(c) ==
    \/ Request(c) \/ PresentToken(c) \/ RequestDeletion(c)
    \/ RequireOwner(c) \/ ReadMember(c) \/ CountOwners(c) \/ ReadEmail(c)
    \/ CountSeats(c) \/ ReadPending(c) \/ ReadMemberships(c)
    \/ CountOtherOwners(c) \/ CountOthers(c) \/ Crash(c)

WriteAccount(c) == InsertUser(c) \/ EnableUser(c) \/ SuspendUser(c) \/ RestoreUser(c) \/ Erase(c)

StampInvitation(c) ==
    InsertInvitation(c) \/ RotateToken(c) \/ StampRevoked(c) \/ StampAccepted(c)

WriteMembership(c) ==
    \/ InsertMember(c) \/ Activate(c) \/ Suspend(c) \/ Restore(c) \/ DeleteMember(c)
    \/ SetRole(c) \/ Demote(c) \/ Promote(c) \/ Anonymize(c)

Next ==
    \/ \E c \in Call : Check(c) \/ WriteAccount(c) \/ StampInvitation(c) \/ WriteMembership(c)
    \/ \E u \in User : Expire(u)

Spec == Init /\ [][Next]_vars

-----------------------------------------------------------------------------
(* The calls that have counted a free seat and not yet taken it.           *)
Promised == {c \in Call : call[c].op = "invite" /\ call[c].at \in {"insertUser", "insertMember"}}

(* Seats are counted before they are taken (mysql-workspace.ts:484): apart *)
(* from members who were restored, which is not counted at all, they       *)
(* exceed the largest tier the workspace has had by less than the number   *)
(* of simultaneous calls, whatever the tier is now.                        *)
SeatsBounded ==
    Cardinality(Seats \ readmitted) + Cardinality(Promised) < SeatLimit + Cardinality(Call)

(* "A workspace must keep at least one owner" (workspace.ts:129): it is    *)
(* without one only during a transfer, or after two changes of members at  *)
(* once, a transfer that died half way, or the deletion of the account of  *)
(* its only active member.                                                 *)
KeepsAnOwner ==
    Owners = {} => excuses # {} \/ \E c \in Call : call[c].at = "promote"

(* Who has left the workspace never is a member again, whatever else was   *)
(* under way for him: acceptances and restores update, and never insert.   *)
LeftForGood == \A u \in left : status[u] = "none"

(* A revoked invitation or a deleted account leaves no membership behind,  *)
(* even if it is accepted, restored or given a role at the same time.      *)
ErasedAreOut == \A u \in User : email[u] \in Gone => status[u] = "none"

-----------------------------------------------------------------------------
(* Why the invariants hold. A member is known from his invitation on.      *)
Known(u) == status[u] # "none" \/ u \in left

(* The known have accounts; only they have an enabled one or an invitation.*)
AccountsAreKnown ==
    \A u \in User : /\ Known(u) => email[u] # "unused"
                    /\ SignedIn(u) => Known(u)
                    /\ invitation[u] # {} => Known(u)

(* What a call has read of its target remains true of it: an account being *)
(* invited is new and invited once; whom other calls change is known; who  *)
(* is erased after the deletion of his membership has left.                *)
TargetIsKnown(k) ==
    /\ k.at = "insertMember" => ~Known(k.target) /\ email[k.target] = "held"
    /\ k.at = "insertInvitation" => Known(k.target)
    /\ k.op \in OwnerOp \ {"invite"} /\ k.at \notin {"role", "member"} => Known(k.target)
    /\ k.op = "accept" => Known(k.target)
    /\ k.op = "deleteAccount" => Known(k.actor) /\ k.target = k.actor
    /\ k.at = "erase" => k.target \in left

TargetsAreKnown ==
    /\ \A c \in Call : TargetIsKnown(call[c])
    /\ \A c, d \in Call :
         /\ call[c].at = "insertMember" /\ call[d].at = "insertMember"
         /\ call[c].target = call[d].target
         => c = d

(* As long as nothing excuses the loss of the last owner, one call at a    *)
(* time reduces the owners. Its actor is one of them until it writes, and  *)
(* where it may take an owner away there is another.                       *)
OwnerIsWatched(k) ==
    /\ k.op \in Reducing /\ k.at \in {"member", "pending", "revoke", "count", "setRole",
                                    "suspend", "delete", "demote"}
         => k.actor \in Owners
    /\ k.op = "revoke" /\ k.at \in {"pending", "revoke", "delete"}
         => k.target # k.actor
    /\ k.at \in {"suspend", "delete"} /\ k.op # "revoke"
         => \E o \in Owners : o # k.target
    /\ k.at = "setRole" /\ k.as = "member" => \E o \in Owners : o # k.target
    /\ k.at = "anonymize" => \E o \in Owners : o # k.target
    /\ k.at \in {"demote", "promote"} => status[k.target] = "active"

OwnersAreWatched ==
    excuses = {} =>
        /\ \A c, d \in Call :
             call[c].op \in Reducing /\ call[d].op \in Reducing => c = d
        /\ \A c \in Call : OwnerIsWatched(call[c])

Inductive ==
    /\ SeatsBounded /\ KeepsAnOwner /\ LeftForGood /\ ErasedAreOut
    /\ AccountsAreKnown /\ TargetsAreKnown /\ OwnersAreWatched

-----------------------------------------------------------------------------
(* Consequences. While no two changes of members overlap, the owner who    *)
(* asked for one still is one when it is written, though that was checked  *)
(* statements before (mysql-workspace.ts:298).                              *)
OwnersChangeMembers ==
    [][\A c \in Call :
         excuses = {} /\ (Suspend(c) \/ DeleteMember(c) \/ SetRole(c) \/ Demote(c))
             => call[c].actor \in Owners]_vars

(* When requests come one at a time, whatever dies, the seats keep to the  *)
(* tier but for members who were restored, and the last owner is lost only *)
(* by a transfer that died or the deletion of an account.                  *)
OneAtATime == \A c, d \in Call : c = d

SeatsWithinTier == Cardinality(Seats \ readmitted) <= SeatLimit

LostAlone ==
    Owners = {} => \/ excuses \intersect {"halfTransfer", "abandoned"} # {}
                   \/ \E c \in Call : call[c].at = "promote"
=============================================================================
