-------------------------- MODULE Enrichment_proofs --------------------------
(***************************************************************************)
(* Proofs about the flattening of store_enriched_record, for any input.    *)
(*                                                                         *)
(* FlattenMatchesReference speaks only of the final state; it is not       *)
(* inductive.  The invariant that is says what the JSON holds after each   *)
(* block: the reference value on the keys of the blocks already run, and   *)
(* nothing on the keys of the blocks still to come.                        *)
(***************************************************************************)
EXTENDS Enrichment, TLAPS

\* The index in Blocks of the block that writes key k.
BlockOf(k) ==
    IF k \in CoreKeys THEN 1
    ELSE IF k \in HeadKeys THEN 2
    ELSE IF k \in SectionKeys["company"] THEN 3
    ELSE IF k \in SectionKeys["customer"] THEN 4
    ELSE IF k \in SectionKeys["insight"] THEN 5
    ELSE 6

\* A notification that is not given has no sections.
NoOrphanSections == ~notified => present = {}

\* The JSON after the blocks before `step`: the reference on their keys.
OutSoFar ==
    \A k \in Keys : out[k] = IF BlockOf(k) < step THEN Expected[k] ELSE None

IInv == TypeOK /\ NoOrphanSections /\ OutSoFar

-----------------------------------------------------------------------------
\* Each section key belongs to exactly one section, so the reference's
\* CHOOSE picks the section a key is listed under.
LEMMA SectionOfKey ==
  ASSUME NEW s \in Sections, NEW k \in SectionKeys[s]
  PROVE  (CHOOSE t \in Sections : k \in SectionKeys[t]) = s
  <1>1. \A t \in Sections : k \in SectionKeys[t] => t = s
    BY DEF Sections, SectionKeys
  <1>2. \E t \in Sections : k \in SectionKeys[t]
    OBVIOUS
  <1>3. QED
    BY <1>1, <1>2

\* A key of the block at index i (3..6) is a section key of Blocks[i], and
\* neither a core nor a headline key.
LEMMA SectionBlock ==
  ASSUME NEW i \in 3..6, NEW k \in Keys
  PROVE  /\ Blocks[i] \in Sections
         /\ k \in SectionKeys[Blocks[i]] <=> BlockOf(k) = i
         /\ BlockOf(k) = i => k \notin CoreKeys \cup HeadKeys
  BY DEF Blocks, Sections, BlockOf, Keys, SectionKeys, CoreKeys, HeadKeys

\* Every key is written by one of the six blocks; the core and headline
\* keys by the first two.
LEMMA BlockRange ==
  ASSUME NEW k \in Keys
  PROVE  /\ BlockOf(k) \in 1..6
         /\ BlockOf(k) = 1 <=> k \in CoreKeys
         /\ BlockOf(k) = 2 <=> k \in HeadKeys
  BY DEF BlockOf, Keys, SectionKeys, CoreKeys, HeadKeys, Sections

\* A core or headline key is read from the field of its own name.
LEMMA OwnField ==
  ASSUME NEW k \in CoreKeys \cup HeadKeys
  PROVE  SectionField(k) = k
  BY DEF SectionField, FieldOf, CoreKeys, HeadKeys

\* Every value a block writes has the type of the JSON's values.
LEMMA WriteType ==
  ASSUME NEW k \in Keys, NEW part \in {"event", "notification"} \cup Sections
  PROVE  Src(part, SectionField(k)) \in Value
  BY DEF Src, Value, Fields

\* The stored severity string is a value of the JSON.
LEMMA SeverityType ==
  ASSUME NEW v \in Severity
  PROVE  Str(SeverityValue[v]) \in Value
  BY DEF Str, Value

-----------------------------------------------------------------------------
\* The input as given, before any block has run, satisfies the invariant.
LEMMA IInvInit == Init => IInv
  <1> SUFFICES ASSUME Init PROVE IInv
    OBVIOUS
  <1>1. TypeOK
    BY DEF Init, TypeOK
  <1>2. NoOrphanSections
    BY DEF Init, NoOrphanSections
  <1>3. OutSoFar
    BY BlockRange DEF Init, OutSoFar
  <1>4. QED
    BY <1>1, <1>2, <1>3 DEF IInv

\* A block that moves to the next index, leaves the input alone, and gives
\* every key the value the invariant asks for at the new index keeps it.
LEMMA BlockKeepsIInv ==
  ASSUME IInv,
         UNCHANGED <<notified, present, severity, customerCo>>,
         step' \in 1..7,
         out' \in [Keys -> Value \cup {None}],
         \A k \in Keys : out'[k] = IF BlockOf(k) < step' THEN Expected[k] ELSE None
  PROVE  IInv'
  <1>1. Expected' = Expected
    BY DEF Expected
  <1>2. QED
    BY <1>1 DEF IInv, TypeOK, NoOrphanSections, OutSoFar

\* The headline and section blocks run only after the core block, so the
\* keys they do not write are still as the invariant says.
LEMMA KeptKey ==
  ASSUME IInv, NEW k \in Keys, out'[k] = out[k], step' = step + 1,
         BlockOf(k) # step
  PROVE  out'[k] = IF BlockOf(k) < step' THEN Expected[k] ELSE None
  BY BlockRange DEF IInv, TypeOK, OutSoFar

\* Each block of the flattening extends the JSON by the reference values of
\* its own keys and leaves every other key as it was.
LEMMA IInvStep == IInv /\ [Next]_vars => IInv'
  <1> SUFFICES ASSUME IInv, [Next]_vars PROVE IInv'
    OBVIOUS
  <1>1. CASE Core
    <2>1. step = 1 /\ step' = 2
      BY <1>1 DEF Core, Blocks, IInv, TypeOK
    <2>2. ASSUME NEW k \in Keys
          PROVE  /\ out'[k] = IF BlockOf(k) < step' THEN Expected[k] ELSE None
                 /\ out'[k] \in Value \cup {None}
      <3>1. CASE k \in CoreKeys
        <4>1. out'[k] = Src("event", k)
          BY <1>1, <3>1, OwnField DEF Core, Write
        <4>2. Expected[k] = Src("event", k)
          BY <3>1 DEF Expected
        <4>3. QED
          BY <2>1, <3>1, <4>1, <4>2, BlockRange, WriteType, OwnField
      <3>2. CASE k \notin CoreKeys
        <4>1. out'[k] = out[k]
          BY <1>1, <3>2 DEF Core, Write
        <4>2. QED
          BY <2>1, <3>2, <4>1, KeptKey, BlockRange DEF IInv, TypeOK
      <3>3. QED
        BY <3>1, <3>2
    <2>3. out' \in [Keys -> Value \cup {None}]
      BY <1>1, <2>2 DEF Core, Write
    <2>4. QED
      BY <1>1, <2>1, <2>2, <2>3, BlockKeepsIInv DEF Core
  <1>2. CASE Head
    <2>1. step = 2 /\ step' = 3
      BY <1>2 DEF Head, Blocks, IInv, TypeOK
    <2>2. ASSUME NEW k \in Keys
          PROVE  /\ out'[k] = IF BlockOf(k) < step' THEN Expected[k] ELSE None
                 /\ out'[k] \in Value \cup {None}
      <3>1. CASE k \in HeadKeys /\ notified
        <4>1. k \notin CoreKeys
          BY <3>1 DEF HeadKeys, CoreKeys
        <4>2. CASE k = "severity"
          <5>1. out'[k] = Str(SeverityValue[severity])
            BY <1>2, <3>1, <4>2 DEF Head, Write, Keys, HeadKeys
          <5>2. Expected[k] = Str(SeverityValue[severity])
            BY <3>1, <4>1, <4>2 DEF Expected
          <5>3. QED
            BY <2>1, <3>1, <5>1, <5>2, BlockRange, SeverityType
               DEF IInv, TypeOK
        <4>3. CASE k # "severity"
          <5>1. out'[k] = Src("notification", k)
            BY <1>2, <3>1, <4>3, OwnField DEF Head, Write
          <5>2. Expected[k] = Src("notification", k)
            BY <3>1, <4>1, <4>3 DEF Expected
          <5>3. QED
            BY <2>1, <3>1, <5>1, <5>2, BlockRange, WriteType, OwnField
        <4>4. QED
          BY <4>2, <4>3
      <3>2. CASE k \in HeadKeys /\ ~notified
        <4>1. out'[k] = out[k]
          BY <1>2, <3>2 DEF Head
        <4>2. out[k] = None
          BY <2>1, <3>2, BlockRange DEF IInv, OutSoFar
        <4>3. Expected[k] = None
          BY <3>2 DEF Expected, HeadKeys, CoreKeys
        <4>4. QED
          BY <2>1, <3>2, <4>1, <4>2, <4>3, BlockRange
      <3>3. CASE k \notin HeadKeys
        <4>1. out'[k] = out[k]
          BY <1>2, <3>3 DEF Head, Write, HeadKeys
        <4>2. QED
          BY <2>1, <3>3, <4>1, KeptKey, BlockRange DEF IInv, TypeOK
      <3>4. QED
        BY <3>1, <3>2, <3>3
    <2>3. out' \in [Keys -> Value \cup {None}]
      <3>1. CASE notified
        BY <1>2, <2>2, <3>1 DEF Head, Write
      <3>2. CASE ~notified
        BY <1>2, <3>2 DEF Head, IInv, TypeOK
      <3>3. QED
        BY <3>1, <3>2
    <2>4. QED
      BY <1>2, <2>1, <2>2, <2>3, BlockKeepsIInv DEF Head
  <1>3. ASSUME NEW s \in Sections, Section(s)
        PROVE  IInv'
    <2>1. step \in 3..6 /\ Blocks[step] = s /\ step' = step + 1
      BY <1>3 DEF Section, Blocks, Sections, IInv, TypeOK
    <2>2. ASSUME NEW k \in Keys
          PROVE  /\ out'[k] = IF BlockOf(k) < step' THEN Expected[k] ELSE None
                 /\ out'[k] \in Value \cup {None}
      <3>1. CASE k \in SectionKeys[s]
        <4>1. BlockOf(k) = step /\ k \notin CoreKeys \cup HeadKeys
          BY <2>1, <3>1, SectionBlock
        <4>2. (CHOOSE t \in Sections : k \in SectionKeys[t]) = s
          BY <3>1, SectionOfKey
        <4>3. k # "severity"
          BY <4>1 DEF HeadKeys
        <4>4. CASE s \in present
          <5>1. notified
            BY <4>4 DEF IInv, NoOrphanSections
          <5>2. out'[k] = Src(s, SectionField(k))
            BY <1>3, <3>1, <4>4 DEF Section, Write
          <5>3. Expected[k] = Src(s, SectionField(k))
            BY <4>1, <4>2, <4>3, <4>4, <5>1 DEF Expected
          <5>4. BlockOf(k) < step'
            BY <2>1, <4>1
          <5>5. Src(s, SectionField(k)) \in Value
            BY WriteType
          <5>6. QED
            BY <5>2, <5>3, <5>4, <5>5
        <4>5. CASE s \notin present
          <5>1. out'[k] = out[k]
            BY <1>3, <4>5 DEF Section
          <5>2. out[k] = None
            BY <2>1, <4>1 DEF IInv, OutSoFar
          <5>3. Expected[k] = None
            BY <4>1, <4>2, <4>3, <4>5 DEF Expected
          <5>4. QED
            BY <2>1, <4>1, <5>1, <5>2, <5>3
        <4>6. QED
          BY <4>4, <4>5
      <3>2. CASE k \notin SectionKeys[s]
        <4>1. out'[k] = out[k]
          BY <1>3, <3>2 DEF Section, Write
        <4>2. BlockOf(k) # step
          BY <2>1, <3>2, SectionBlock
        <4>3. QED
          BY <2>1, <4>1, <4>2, KeptKey DEF IInv, TypeOK
      <3>3. QED
        BY <3>1, <3>2
    <2>3. out' \in [Keys -> Value \cup {None}]
      <3>1. CASE s \in present
        BY <1>3, <2>2, <3>1 DEF Section, Write
      <3>2. CASE s \notin present
        BY <1>3, <3>2 DEF Section, IInv, TypeOK
      <3>3. QED
        BY <3>1, <3>2
    <2>4. QED
      BY <1>3, <2>1, <2>2, <2>3, BlockKeepsIInv DEF Section
  <1>4. CASE Finished \/ UNCHANGED vars
    BY <1>4 DEF Finished, vars, IInv, TypeOK, NoOrphanSections, OutSoFar,
              Expected
  <1>5. QED
    BY <1>1, <1>2, <1>3, <1>4 DEF Next

(***************************************************************************)
(* For every input (with or without a notification, any set of sections,  *)
(* any severity), the stored JSON has the type of the flattened record in  *)
(* every state of the flattening.                                          *)
(***************************************************************************)
THEOREM TypeCorrect == Spec => []TypeOK
  BY IInvInit, IInvStep, PTL DEF Spec, IInv

(***************************************************************************)
(* For every input, the JSON store_enriched_record builds block by block   *)
(* is the reference JSON of spec 4.3: core fields from the event, severity *)
(* as its string, and exactly the keys of the present sections, each read  *)
(* from its own section (the invariant of the enrichment run).             *)
(***************************************************************************)
THEOREM FlattenCorrect == Spec => []FlattenMatchesReference
  <1>1. IInv => FlattenMatchesReference
    <2> SUFFICES ASSUME IInv, Blocks[step] = "done" PROVE out = Expected
      BY DEF FlattenMatchesReference
    <2>1. step = 7
      BY DEF IInv, TypeOK, Blocks
    <2>2. \A k \in Keys : out[k] = Expected[k]
      BY <2>1, BlockRange DEF IInv, OutSoFar
    <2>3. QED
      BY <2>2 DEF IInv, TypeOK, Expected
  <1>2. QED
    BY IInvInit, IInvStep, <1>1, PTL DEF Spec


=============================================================================
