------------------------- MODULE DeviceTrustProofs -------------------------
(***************************************************************************)
(* Proofs about the bridge's device state, for any finite set of phones    *)
(* and any number of runs and kills: its shape, that the identity phones   *)
(* know never changes, and that a kill costs the trust of one phone unless *)
(* it destroys the file.                                                   *)
(***************************************************************************)
EXTENDS DeviceTrust, TLAPS, FiniteSetTheorems

Saving == pc \in {"save", "write"}

(* Whoever is paired knows the identity in memory, and in the file when it *)
(* has any.                                                                *)
PairedInv ==
  \A p \in Phones : paired[p] # 0 => /\ memory.id = paired[p]
                                     /\ intact => file.id = paired[p]

(* Outside a save the memory of a run is the file; before the file is      *)
(* emptied it may be one phone ahead of it.  A file that was emptied stays *)
(* so until the run that emptied it writes.                                *)
SaveInv ==
  /\ file.id = 0 => file = Nobody
  /\ pc = "up" => intact /\ memory = file /\ file.id # 0
  /\ Saving => memory.id # 0
  /\ pc = "write" => ~intact
  /\ pc = "save" => /\ intact
                    /\ file.id # 0 => memory.id = file.id
                    /\ file.trusted \subseteq memory.trusted
                    /\ \A p, q \in memory.trusted \ file.trusted : p = q

TrustInv == TypeOK /\ PairedInv /\ SaveInv

-----------------------------------------------------------------------------
(* The variables keep their shape, and so do the invariants, in each step. *)
LEMMA TrustTypesStep ==
  ASSUME TypeOK, [Next]_vars
  PROVE  TypeOK'
<1> USE DeviceTrustAssumption DEF TypeOK, State
<1>1. CASE Load
  BY <1>1 DEF Load
<1>2. CASE Truncate
  <2>1. Nobody \in State
    BY DEF Nobody
  <2> QED
    BY <1>2, <2>1 DEF Truncate
<1>3. CASE Write
  BY <1>3 DEF Write
<1>4. CASE OtherFrame
  BY <1>4 DEF OtherFrame
<1>5. CASE End
  BY <1>5 DEF End
<1>6. CASE Kill
  BY <1>6 DEF Kill
<1>7. ASSUME NEW p \in Phones, Authenticate(p)
      PROVE  TypeOK'
  <2>1. memory' \in State
    BY <1>7 DEF Authenticate
  <2>2. paired' \in [Phones -> 0..MaxIds]
    BY <1>7 DEF Authenticate
  <2> QED
    BY <1>7, <2>1, <2>2 DEF Authenticate
<1>8. CASE UNCHANGED vars
  BY <1>8 DEF vars
<1> QED
  BY <1>1, <1>2, <1>3, <1>4, <1>5, <1>6, <1>7, <1>8 DEF Next

LEMMA TrustStep ==
  ASSUME TrustInv, [Next]_vars
  PROVE  PairedInv' /\ SaveInv'
<1> USE DEF TrustInv, TypeOK, State, PairedInv, SaveInv, Saving, Nobody
<1>1. CASE Load
  BY <1>1 DEF Load
<1>2. CASE Truncate
  BY <1>2 DEF Truncate
<1>3. CASE Write
  BY <1>3 DEF Write
<1>4. CASE OtherFrame
  BY <1>4 DEF OtherFrame
<1>5. CASE End
  BY <1>5 DEF End
<1>6. CASE Kill
  BY <1>6 DEF Kill
<1>7. ASSUME NEW p \in Phones, Authenticate(p)
      PROVE  PairedInv' /\ SaveInv'
  <2>1. /\ memory'.id = memory.id
        /\ memory'.trusted = memory.trusted \cup {p}
        /\ file' = file /\ pc' = "save" /\ pc = "up"
        /\ memory = file /\ intact /\ intact' = intact
    BY <1>7 DEF Authenticate
  <2>2. \A q \in Phones : paired'[q] = IF q = p THEN memory.id ELSE paired[q]
    BY <1>7 DEF Authenticate
  <2> QED
    BY <2>1, <2>2
<1>8. CASE UNCHANGED vars
  BY <1>8 DEF vars
<1> QED
  BY <1>1, <1>2, <1>3, <1>4, <1>5, <1>6, <1>7, <1>8 DEF Next

(* The device state keeps its shape, in memory, in the file and in what    *)
(* phones know of it (_default_device_state, remember_trusted_phone).      *)
THEOREM TrustTypes == Spec => []TypeOK
<1>1. Init => TypeOK
  BY DeviceTrustAssumption DEF Init, TypeOK, State, Nobody
<1> QED
  BY <1>1, TrustTypesStep, PTL DEF Spec

LEMMA TrustInvariant == Spec => []TrustInv
<1>1. Init => TrustInv
  BY DeviceTrustAssumption
  DEF Init, TrustInv, TypeOK, State, Nobody, PairedInv, SaveInv, Saving
<1>2. TrustInv /\ [Next]_vars => TrustInv'
  BY TrustTypesStep, TrustStep DEF TrustInv
<1> QED
  BY <1>1, <1>2, PTL DEF Spec

-----------------------------------------------------------------------------
(* The identity that phones know the bridge by is never replaced, whatever *)
(* a killed save leaves (load_or_create_bridge_device_state).              *)
THEOREM IdentityKept == Spec => OneIdentity
<1>1. ASSUME TrustInv, Next, paired # [p \in Phones |-> 0]
      PROVE  memory'.id = memory.id
  <2>1. PICK p \in Phones : paired[p] # 0
    BY <1>1 DEF TrustInv, TypeOK
  <2>2. memory.id # 0 /\ (intact => file.id = memory.id)
    BY <1>1, <2>1 DEF TrustInv, TypeOK, PairedInv
  <2>3. CASE Load
    BY <2>2, <2>3 DEF Load, Nobody
  <2>4. ASSUME NEW q \in Phones, Authenticate(q)
        PROVE  memory'.id = memory.id
    BY <1>1, <2>4 DEF Authenticate, TrustInv, TypeOK, State
  <2>5. CASE Truncate \/ Write \/ OtherFrame \/ End \/ Kill
    BY <2>5 DEF Truncate, Write, OtherFrame, End, Kill
  <2> QED
    BY <1>1, <2>3, <2>4, <2>5 DEF Next
<1>2. TrustInv /\ [Next]_vars
        => [memory.id # 0 /\ paired # [p \in Phones |-> 0] => memory'.id = memory.id]_vars
  BY <1>1
<1> QED
  BY <1>2, TrustInvariant, PTL DEF Spec, OneIdentity

-----------------------------------------------------------------------------
(* What one step adds to the phones that are forgotten: nobody, or one at a *)
(* kill that does not destroy the file.                                     *)
LEMMA ForgottenStep ==
  ASSUME TrustInv, TrustInv', Next, ~Destroyed'
  PROVE  \/ Forgotten' \subseteq Forgotten /\ kills' = kills
         \/ \E x : Forgotten' \subseteq Forgotten \cup {x} /\ kills' = kills + 1
<1> USE DEF TrustInv, TypeOK, State, PairedInv, SaveInv, Saving, Forgotten, Known, Nobody, Destroyed
<1>1. CASE Load
  BY <1>1 DEF Load
<1>2. CASE Truncate
  BY <1>2 DEF Truncate
<1>3. CASE Write
  BY <1>3 DEF Write
<1>4. CASE OtherFrame
  BY <1>4 DEF OtherFrame
<1>5. CASE End
  BY <1>5 DEF End
<1>6. CASE Kill
  <2>1. CASE ~Saving \/ memory.trusted \ file.trusted = {}
    BY <1>6, <2>1 DEF Kill
  <2>2. ASSUME Saving, NEW x \in memory.trusted \ file.trusted
        PROVE  Forgotten' \subseteq Forgotten \cup {x}
    BY <1>6, <2>2 DEF Kill
  <2> QED
    BY <1>6, <2>1, <2>2 DEF Kill
<1>7. ASSUME NEW p \in Phones, Authenticate(p)
      PROVE  Forgotten' \subseteq Forgotten /\ kills' = kills
  <2>1. /\ memory'.id = memory.id
        /\ memory'.trusted = memory.trusted \cup {p}
        /\ pc' = "save" /\ pc = "up"
        /\ memory = file /\ kills' = kills
    BY <1>7 DEF Authenticate
  <2>2. \A q \in Phones : paired'[q] = IF q = p THEN memory.id ELSE paired[q]
    BY <1>7 DEF Authenticate
  <2> QED
    BY <2>1, <2>2
<1> QED
  BY <1>1, <1>2, <1>3, <1>4, <1>5, <1>6, <1>7 DEF Next

(* A state that is destroyed stays so: no run can load it. *)
LEMMA DestroyedStays ==
  ASSUME Destroyed, [Next]_vars
  PROVE  Destroyed'
BY DEF Destroyed, Next, vars, Load, Truncate, Write, OtherFrame, End, Kill, Authenticate

(* Unless a kill inside a save has destroyed the file, each kill has cost  *)
(* one phone its trust at most, however many are paired: secureReady is    *)
(* sent before the save, and nothing else comes in between                 *)
(* (run_bridge_service, remember_trusted_phone, save_bridge_device_state). *)
THEOREM TrustCost == Spec => []TrustSurvives
<1> DEFINE Inv == TrustInv /\ TrustSurvives
<1>1. ASSUME NEW S \in SUBSET Phones
      PROVE  IsFiniteSet(S) /\ Cardinality(S) \in Nat
  BY DeviceTrustAssumption, FS_Subset, FS_CardinalityType
<1>2. Init => Inv
  <2>1. Init => Forgotten = {}
    BY DEF Init, Forgotten
  <2> QED
    BY <2>1, DeviceTrustAssumption, FS_EmptySet
    DEF Init, TrustInv, TypeOK, State, Nobody, PairedInv, SaveInv, Saving, TrustSurvives
<1>3. ASSUME Inv, [Next]_vars
      PROVE  Inv'
  <2>1. TrustInv'
    BY <1>3, TrustTypesStep, TrustStep DEF TrustInv
  <2>2. kills \in Nat /\ kills' \in Nat
    BY <1>3, <2>1, DeviceTrustAssumption DEF TrustInv, TypeOK
  <2>3. Forgotten \in SUBSET Phones /\ Forgotten' \in SUBSET Phones
    BY DEF Forgotten
  <2> SUFFICES ASSUME ~Destroyed'
               PROVE  Cardinality(Forgotten') <= kills'
    BY <2>1 DEF TrustSurvives
  <2>0. Cardinality(Forgotten) <= kills
    BY <1>3, DestroyedStays DEF TrustSurvives
  <2>4. CASE Forgotten' \subseteq Forgotten /\ kills' = kills
    <3>1. Cardinality(Forgotten') <= Cardinality(Forgotten)
      BY <1>1, <2>3, <2>4, FS_Subset
    <3> QED
      BY <1>1, <2>0, <2>2, <2>3, <2>4, <3>1
  <2>5. ASSUME NEW x, Forgotten' \subseteq Forgotten \cup {x}, kills' = kills + 1
        PROVE  Cardinality(Forgotten') <= kills'
    <3>1. /\ IsFiniteSet(Forgotten \cup {x})
          /\ Cardinality(Forgotten \cup {x})
               \in {Cardinality(Forgotten), Cardinality(Forgotten) + 1}
      BY <1>1, <2>3, FS_AddElement
    <3>2. Cardinality(Forgotten') <= Cardinality(Forgotten \cup {x})
      BY <2>5, <3>1, FS_Subset
    <3> QED
      BY <1>1, <2>0, <2>2, <2>3, <2>5, <3>1, <3>2
  <2>6. CASE UNCHANGED vars
    BY <2>1, <2>4, <2>6 DEF vars, Forgotten, Known
  <2> QED
    BY <1>3, <2>1, <2>4, <2>5, <2>6, ForgottenStep
<1> QED
  BY <1>2, <1>3, PTL DEF Spec

=============================================================================
