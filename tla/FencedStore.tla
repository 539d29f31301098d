---------------------------- MODULE FencedStore ----------------------------
(***************************************************************************)
(* What the source lease promises to the bid store, with every mechanism   *)
(* left out: leases are granted one after the other, each grant gets the   *)
(* next token, and only the holder of the last grant can store a crawl.    *)
(* A store by a lease that another one has superseded is not a behaviour.  *)
(***************************************************************************)
EXTENDS Naturals, TLAPS

VARIABLES
    granted,  \* how many leases were granted so far
    holder,   \* the token of the lease in force, 0 when there is none
    stored    \* the token under which the stored crawl was committed, 0 at first

storeVars == <<granted, holder, stored>>

Init == granted = 0 /\ holder = 0 /\ stored = 0

(* A new lease replaces whatever lease was in force.                       *)
Grant == /\ granted' = granted + 1
         /\ holder' = granted + 1
         /\ UNCHANGED stored

(* The lease is given back.                                                *)
Withdraw == /\ holder # 0
            /\ holder' = 0
            /\ UNCHANGED <<granted, stored>>

(* The holder commits its crawl.                                           *)
Store == /\ holder # 0
         /\ stored' = holder
         /\ UNCHANGED <<granted, holder>>

Next == Grant \/ Withdraw \/ Store

Spec == Init /\ [][Next]_storeVars

-----------------------------------------------------------------------------
(* A lease in force is the last one granted, and the stored crawl is never *)
(* from a lease that was not granted (crawler/orchestrator.ts: "a stale    *)
(* attempt cannot release a newer lease").                                 *)
HolderIsLatest == /\ granted \in Nat
                  /\ stored \in 0..granted
                  /\ holder \in {0, granted}

(* The stored crawl never goes back to an older lease: a slow attempt      *)
(* cannot overwrite what a newer one committed (mysql-json-importer.ts,    *)
(* the locked lease check before commit).                                  *)
StoreNeverRegresses == [][stored <= stored']_storeVars

(* Grants, withdrawals and stores keep the tokens in order.                *)
LEMMA TokensInOrder == Spec => []HolderIsLatest
<1>1. Init => HolderIsLatest
  BY DEF Init, HolderIsLatest
<1>2. HolderIsLatest /\ [Next]_storeVars => HolderIsLatest'
  BY DEF HolderIsLatest, Next, Grant, Withdraw, Store, storeVars
<1> QED BY <1>1, <1>2, PTL DEF Spec

(* A store never puts an older crawl over a newer one.                     *)
THEOREM StoresInOrder == Spec => StoreNeverRegresses
<1>1. HolderIsLatest /\ [Next]_storeVars => [stored <= stored']_storeVars
  BY DEF HolderIsLatest, Next, Grant, Withdraw, Store, storeVars
<1> QED BY <1>1, TokensInOrder, PTL DEF Spec, StoreNeverRegresses
=============================================================================
