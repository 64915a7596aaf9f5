----------------------------- MODULE AuditTrail -----------------------------
(***************************************************************************)
(* The audit log of the listings.  A handler of ProductModeration takes a  *)
(* snapshot of the row once it has locked it, changes the row, and adds an *)
(* entry with the fields that differ to its own transaction.  The panel    *)
(* writes no entries.                                                      *)
(*                                                                         *)
(* The log is only added to; it is modelled by what a reader who replays   *)
(* it holds of each listing.  The fields of ProductRead that the model has *)
(* are the status and the content; the stock, which reservations and       *)
(* sweeps change without an entry, is left out.                            *)
(***************************************************************************)
EXTENDS ProductModeration

VARIABLES
    snapshot,  \* old_snapshot of the request in progress in each session
    recorded   \* what the committed entries about each listing add up to

trail == <<snapshot, recorded>>
auditVars == <<vars, trail>>

Fields == {"status", "content"}

\* ProductRead.model_validate
ProductRead(row) == [f \in Fields |-> row[f]]

NoSnapshot == ProductRead(NotCreated)

AuditInit ==
    /\ Init
    /\ snapshot = [c \in Clients |-> NoSnapshot]
    /\ recorded = [p \in Products |-> NoSnapshot]

\* Mutant: a field is left out of the entry.
GetDiffOfContent(old, new) == [f \in {"content"} \cap {g \in Fields : new[g] # old[g]} |-> new[f]]

\* get_diff of two snapshots: the new values of the fields that differ.
GetDiff(old, new) == [f \in {g \in Fields : new[g] # old[g]} |-> new[f]]

\* A reader applies an entry.
Replay(known, entry) ==
    [f \in Fields |-> IF f \in DOMAIN entry THEN entry[f] ELSE known[f]]

\* The entry is in the transaction that inserts the row, and has every field.
LogCreate(c, p) ==
    /\ CreateCommit(c, p)
    /\ recorded' = [recorded EXCEPT ![p] = ProductRead(products'[p])]
    /\ UNCHANGED snapshot

TakeSnapshot(c, u, p, op) ==
    /\ Load(c, u, p, op)
    /\ snapshot' = [snapshot EXCEPT ![c] = ProductRead(products[p])]
    /\ UNCHANGED recorded

\* The row as the handler shows it to the log: delete_product logs before it deletes.
Shown(c) ==
    LET p == tx[c].product IN
    ProductRead(IF tx[c].op = "delete" THEN products[p] ELSE products'[p])

LogChange(c) ==
    LET p == tx[c].product IN
    /\ Commit(c)
    /\ recorded' = [recorded EXCEPT ![p] = Replay(@, GetDiff(snapshot[c], Shown(c)))]
    /\ snapshot' = [snapshot EXCEPT ![c] = NoSnapshot]

\* An entry is rolled back with its request.
DropSnapshot(c) ==
    /\ Rollback(c)
    /\ snapshot' = [snapshot EXCEPT ![c] = NoSnapshot]
    /\ UNCHANGED recorded

Unlogged ==
    /\ (\E c \in Clients, u \in Users : CreateCheck(c, u)) \/ Panel
    /\ UNCHANGED trail

AuditNext ==
    \/ \E c \in Clients :
         \/ \E p \in Products : LogCreate(c, p)
         \/ \E u \in Users, p \in Products, op \in Operations : TakeSnapshot(c, u, p, op)
         \/ LogChange(c)
         \/ DropSnapshot(c)
    \/ Unlogged

AuditSpec == AuditInit /\ [][AuditNext]_auditVars

-----------------------------------------------------------------------------
(* Properties.                                                             *)

\* Who replays the log knows every listing: what it says, through concurrent
\* edits and failures, and its status, unless a panel save has changed it since
\* the last submission, claim or rejection.
TrailIsCurrent ==
    \A p \in Products : Exists(p) =>
      /\ recorded[p].content = products[p].content
      /\ p \notin overridden => recorded[p].status = products[p].status
=============================================================================
