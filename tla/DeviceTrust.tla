---------------------------- MODULE DeviceTrust ----------------------------
(***************************************************************************)
(* The bridge's device state over several runs (cra/bridge/device_state.py *)
(* and the calls of run_bridge_service): the bridge's identity and the     *)
(* phones it trusts.  A run loads the file or makes one, changes it in     *)
(* memory when a phone authenticates, tells the phone with secureReady and *)
(* only then saves it; a save empties the file and writes it anew, so that *)
(* a run killed in between leaves a file that no later run can read.       *)
(***************************************************************************)
EXTENDS Naturals, FiniteSets

CONSTANTS
  Phones,
  MaxIds,       \* bound: identities made
  MaxKills      \* bound: runs that are killed

ASSUME DeviceTrustAssumption ==
  MaxIds \in Nat \ {0} /\ MaxKills \in Nat /\ IsFiniteSet(Phones)

VARIABLES
  pc,           \* where the run is
  file,         \* device-state.json: the state in it, Nobody if there is none
  intact,       \* FALSE: the file was emptied and not filled since
  memory,       \* device_state
  ids,          \* identities made so far
  paired,       \* phone -> the identity it was last told secureReady by, or 0
  kills

vars == <<pc, file, intact, memory, ids, paired, kills>>

Nobody == [id |-> 0, trusted |-> {}]
State == [id : 0..MaxIds, trusted : SUBSET Phones]

Init ==
  /\ pc = "down"
  /\ file = Nobody
  /\ intact = TRUE
  /\ memory = Nobody
  /\ ids = 0
  /\ paired = [p \in Phones |-> 0]
  /\ kills = 0

Load_TornIsNone ==
  /\ pc = "down"
  /\ \/ /\ file # Nobody /\ intact
        /\ memory' = file
        /\ pc' = "up"
        /\ UNCHANGED ids
     \/ /\ file = Nobody \/ ~intact
        /\ ids < MaxIds
        /\ ids' = ids + 1
        /\ memory' = [id |-> ids + 1, trusted |-> {}]
        /\ pc' = "save"
  /\ UNCHANGED <<file, intact, paired, kills>>

(* load_or_create_bridge_device_state: a file that is there is read, and    *)
(* an empty one is no JSON and raises; when there is none it makes an      *)
(* identity.                                                               *)
Load ==
  /\ pc = "down"
  /\ intact
  /\ \/ /\ file # Nobody
        /\ memory' = file
        /\ pc' = "up"
        /\ UNCHANGED ids
     \/ /\ file = Nobody
        /\ ids < MaxIds
        /\ ids' = ids + 1
        /\ memory' = [id |-> ids + 1, trusted |-> {}]
        /\ pc' = "save"
  /\ UNCHANGED <<file, intact, paired, kills>>

(* save_bridge_device_state: open empties the file, write fills it. *)
Truncate ==
  /\ pc = "save"
  /\ file' = Nobody
  /\ intact' = FALSE
  /\ pc' = "write"
  /\ UNCHANGED <<memory, ids, paired, kills>>

Write ==
  /\ pc = "write"
  /\ file' = memory
  /\ intact' = TRUE
  /\ pc' = "up"
  /\ UNCHANGED <<memory, ids, paired, kills>>

(* A phone's clientAuth is accepted: with the code of this run, or as one   *)
(* the bridge trusts.  It is remembered, told so, and then saved.          *)
Authenticate_Forgets(p) ==
  /\ pc = "up"
  /\ paired' = [paired EXCEPT ![p] = memory.id]
  /\ pc' = "save"
  /\ UNCHANGED <<file, intact, memory, ids, kills>>

Authenticate(p) ==
  /\ pc = "up"
  /\ memory' = [memory EXCEPT !.trusted = @ \cup {p}]
  /\ paired' = [paired EXCEPT ![p] = memory.id]
  /\ pc' = "save"
  /\ UNCHANGED <<file, intact, ids, kills>>

(* Any other frame of the relay ends in a save too. *)
OtherFrame ==
  /\ pc = "up"
  /\ pc' = "save"
  /\ UNCHANGED <<file, intact, memory, ids, paired, kills>>

(* The run times out, or the relay closes. *)
End ==
  /\ pc = "up"
  /\ pc' = "down"
  /\ UNCHANGED <<file, intact, memory, ids, paired, kills>>

Kill ==
  /\ pc # "down"
  /\ kills < MaxKills
  /\ kills' = kills + 1
  /\ pc' = "down"
  /\ UNCHANGED <<file, intact, memory, ids, paired>>

Next ==
  \/ Load \/ Truncate \/ Write \/ OtherFrame \/ End \/ Kill
  \/ \E p \in Phones : Authenticate(p)

Spec == Init /\ [][Next]_vars

-----------------------------------------------------------------------------
TypeOK ==
  /\ pc \in {"down", "up", "save", "write"}
  /\ file \in State
  /\ intact \in BOOLEAN
  /\ memory \in State
  /\ ids \in 0..MaxIds
  /\ paired \in [Phones -> 0..MaxIds]
  /\ kills \in 0..MaxKills

(* What the next run will know: the file, or what is about to be in it; of  *)
(* a file that was emptied, nothing.                                       *)
Known == IF pc \in {"save", "write"} THEN memory ELSE file

(* A run was killed between the two steps of a save: the state is gone, and *)
(* no later run starts until somebody removes the file.                    *)
Destroyed == pc = "down" /\ ~intact

(***************************************************************************)
(* A phone the bridge has told secureReady is trusted for future           *)
(* reconnects: the next run knows it, under the identity the phone knows.  *)
(* A run killed after secureReady and before its save breaks that for the  *)
(* one phone it was told to: such a kill costs one phone its trust at      *)
(* most, however many runs, phones and saves there were.  A kill inside a  *)
(* save costs every phone its trust at once, and that alone does.          *)
(***************************************************************************)
Forgotten == {p \in Phones : paired[p] # 0 /\ ~(Known.id = paired[p] /\ p \in Known.trusted)}

TrustSurvives == Destroyed \/ Cardinality(Forgotten) <= kills

(***************************************************************************)
(* The bridge is one device: the identity phones know it by never changes, *)
(* whatever a killed run leaves (a file cut short is not taken for none).  *)
(***************************************************************************)
OneIdentity == [][memory.id # 0 /\ paired # [p \in Phones |-> 0] => memory'.id = memory.id]_vars

=============================================================================
