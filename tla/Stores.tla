------------------------------- MODULE Stores --------------------------------
(***************************************************************************)
(* Labs that run on one node, one at a time.  Here are those whose         *)
(* properties LocalProofs proves for any of their constants; MCStores adds *)
(* the others.                                                             *)
(***************************************************************************)
EXTENDS Integers, Sequences

CONSTANTS
  ViewKey, Term, Category, ViewSeed,   \* of the views: see Unbundled
  ViewsWithin(_),
  RunKey, Hashes,                  \* of the tree of runs: see Lsm
  MemtableCap, L0Trigger,
  RunsWithin(_)

ASSUME SeedAssumption ==
  ViewSeed \in Seq([key : ViewKey, title : SUBSET Term, category : Category])
ASSUME RunKeyAssumption == RunKey \subseteq Nat

VARIABLES lab, state, net, hist

Unbundled == INSTANCE Unbundled WITH
  Key <- ViewKey, Seed <- ViewSeed, Within <- ViewsWithin
Lsm == INSTANCE Lsm WITH Key <- RunKey, Within <- RunsWithin

LabInit ==
  \/ lab = "unbundled" /\ Unbundled!Init /\ net = 0
  \/ lab = "lsm" /\ Lsm!Init

LabNext ==
  /\ UNCHANGED lab
  /\ \/ lab = "unbundled" /\ Unbundled!Next /\ UNCHANGED net
     \/ lab = "lsm" /\ Lsm!Next

LabSpec == LabInit /\ [][LabNext]_<<lab, state, net, hist>>

-----------------------------------------------------------------------------
(* Properties, each that of its lab with its types.                        *)

(* Each view is what the log says it is (unbundled.ts:78-136).             *)
ViewsDerived == lab = "unbundled" => Unbundled!TypeOK /\ Unbundled!ViewsDerived

(* Reads find the last write across flushes, merges and crashes, and the   *)
(* log restores it after torn writes (lsm.ts:94-163, 203-260).             *)
LsmKeepsWrites ==
  lab = "lsm" => Lsm!TypeOK /\ Lsm!ReadsLatest /\ Lsm!ReplayRestores /\ Lsm!RecoverRepairs

(* Recovery repairs whatever was torn, as lsm.ts:113-117 says: it does not *)
(* when a torn run was merged before (run Lsm_torn).                       *)
RecoverRestores == lab = "lsm" => Lsm!RecoverRestores
=============================================================================
