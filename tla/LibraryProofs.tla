--------------------------- MODULE LibraryProofs ---------------------------
(***************************************************************************)
(* What is proved of the state the DQX library keeps, for any writers,     *)
(* trainers, futures and evaluations, whatever fails and whoever else is   *)
(* at it.  RuleStore: what is saved once is loaded from then on, whole and *)
(* unmixed.  AnomalyModels: a model is there until the next one is.        *)
(* EngineRuns: every row, batch and configuration of a pool of runs is     *)
(* accounted for.  Actions: an alert goes out once per window, and a run   *)
(* that was stopped leaves evidence.                                       *)
(***************************************************************************)
EXTENDS Integers, SequenceTheorems, FiniteSetTheorems, WellFoundedInduction, TLAPS

-----------------------------------------------------------------------------
(* The rule store of the library *)

CONSTANTS Writers, Configs, RuleSets, MaxSaves, NoPrint
VARIABLES backend, table, columns, writer, reader, latest, clock

Sets == INSTANCE RuleStore

-----------------------------------------------------------------------------
(* RuleStore: the inductive invariant *)

Prints == RuleSets \cup {NoPrint}
Blocks == [config : Configs, set : Prints, created : Nat, since : Nat, until : Nat]
Saves == [pc : {"columns", "lookup", "delete", "write"}, config : Configs, set : RuleSets, mode : {"append", "overwrite"},
          created : Nat, since : Nat, deleted : SUBSET Blocks]
Marks == [load : [created : Nat, set : Prints], epoch : Nat]
Loads == [pc : {"latest", "collect", "done"}, config : Configs, asked : Prints, found : Prints, since : Marks, result : SUBSET Blocks]

StoreType ==
  /\ backend \in {"delta", "lakebase", "actions"} /\ columns \in {"none", "legacy", "versioned"}
  /\ table \in SUBSET Blocks
  /\ writer \in [Writers -> {Sets!IdleWriter} \cup Saves]
  /\ reader \in {Sets!IdleReader} \cup Loads
  /\ latest \in [Configs -> Marks]
  /\ clock \in [started : Nat, written : Nat]

\* What is stored was written by now; only what was there before the versioning
\* columns has no fingerprint.
Stored(b) ==
  /\ b.since <= clock.written /\ b.until <= clock.written /\ b.created <= clock.started
  /\ b.set = NoPrint => b = Sets!Legacy(b.config)
  /\ b.set # NoPrint => b.created >= 1
TableInv ==
  /\ \A b \in table : Stored(b)
  /\ columns = "none" => table = {}
  /\ columns = "legacy" => \A b \in table : b.set = NoPrint
  /\ backend = "actions" => columns # "legacy"

\* A save that has looked for its rule set may write it: what came in since then
\* was written after the save began.
Saving(s) ==
  s # Sets!IdleWriter =>
    /\ s.created \in 1 .. clock.started /\ s.since <= clock.written
    /\ s.deleted # {} \/ s.pc = "delete" => s.mode = "overwrite"
    /\ \A b \in s.deleted : b.config = s.config
    /\ s.pc # "columns" => columns # "legacy"
    /\ backend # "actions" /\ s.pc \in {"delete", "write"} =>
         \A b \in table : b.config = s.config /\ b.set = s.set => s.since < b.until
WriterInv == \A w \in Writers : Saving(writer[w])

OnceInv ==
  backend # "actions" =>
    \A b, o \in table : b # o /\ b.config = o.config /\ b.set = o.set => b.since < o.until /\ o.since < b.until

\* What the last load gave is still there, unless it was overwritten.
LatestInv ==
  \A c \in Configs : latest[c].load.set # NoPrint =>
    \E b \in table : b.config = c /\ b.set = latest[c].load.set /\ b.created = latest[c].load.created

\* So is what a load has found so far.
Loading(l) ==
  l # Sets!IdleReader =>
    /\ l.since.epoch <= latest[l.config].epoch /\ (l.pc # "done" => l.result = {})
    /\ latest[l.config] = l.since =>
         /\ l.pc = "done" => l.result \subseteq Sets!OfConfig(l.config)
         /\ l.asked = NoPrint /\ l.since.load.set # NoPrint /\ backend # "actions" =>
              /\ l.pc = "collect" =>
                   l.found # NoPrint /\ \E b \in Sets!OfConfig(l.config) : b.set = l.found /\ b.created >= l.since.load.created
              /\ l.pc = "done" =>
                   /\ \A b \in l.result : b.set = l.found
                   /\ \E b \in l.result : b.created >= l.since.load.created

StoreInv == StoreType /\ TableInv /\ WriterInv /\ OnceInv /\ LatestInv /\ Loading(reader)

-----------------------------------------------------------------------------
(* RuleStore: the newest block *)

(* Whatever is bounded has a greatest element. *)
LEMMA GreatestIsThere ==
  ASSUME NEW S \in SUBSET Nat, S # {}, NEW n \in Nat, \A x \in S : x <= n
  PROVE  \E m \in S : \A x \in S : x <= m
PROOF
<1> DEFINE T == {n - x : x \in S}
           R == {ss \in Nat \X Nat : ss[1] < ss[2]}
<1>1. T \in SUBSET Nat /\ T # {}
  <2>1. \A x \in S : n - x \in Nat
    OBVIOUS
  <2>2. PICK x \in S : TRUE
    OBVIOUS
  <2>3. n - x \in T
    OBVIOUS
  <2>4. QED
    BY <2>1, <2>3
<1>2. IsWellFoundedOn(R, Nat)
  BY NatLessThanWellFounded DEF OpToRel
<1>3. \A x, y \in Nat : x < y => <<x, y>> \in R
  OBVIOUS
<1> HIDE DEF R
<1>4. PICK t \in T : \A y \in T : ~(<<y, t>> \in R)
  <2> HIDE DEF T
  <2>1. QED
    BY <1>1, <1>2, WFMin, Zenon
<1>5. PICK m \in S : t = n - m
  OBVIOUS
<1>6. ASSUME NEW x \in S
      PROVE  x <= m
  <2>1. n - x \in T /\ ~(n - x < n - m)
    BY <1>1, <1>3, <1>4, <1>5
  <2>2. QED
    BY <2>1
<1>7. QED
  BY <1>6

(* A set of one element is counted as one. *)
LEMMA OneIsCounted ==
  ASSUME NEW x
  PROVE  Sets!Cardinality({x}) = 1
PROOF
<1>1. Sets!Cardinality({x}) = Cardinality({x})
  BY Zenon DEF Sets!Cardinality, Cardinality
<1>2. QED
  BY <1>1, FS_Singleton

(* The newest of some blocks is one of them, and no other is newer. *)
LEMMA NewestIsNewest ==
  ASSUME StoreInv, NEW S \in SUBSET table, S # {}
  PROVE  \E b \in S : /\ Sets!Newest(S) = [created |-> b.created, set |-> b.set]
                      /\ \A o \in S : o.created <= b.created
PROOF
<1>1. \A b \in S : b \in Blocks /\ b.created \in Nat /\ b.created <= clock.started
  BY DEF StoreInv, StoreType, Blocks, TableInv, Stored
<1>2. clock.started \in Nat
  BY DEF StoreInv, StoreType
<1> DEFINE T == {b.created : b \in S}
<1>3. T \in SUBSET Nat /\ T # {} /\ \A x \in T : x <= clock.started
  BY <1>1
<1>4. PICK m \in T : \A x \in T : x <= m
  <2> HIDE DEF T
  <2>1. QED
    BY <1>2, <1>3, GreatestIsThere
<1>5. \E b \in S : \A o \in S : o.created <= b.created
  BY <1>4
<1> DEFINE newest == CHOOSE x \in S : \A o \in S : o.created <= x.created
<1>6. newest \in S /\ \A o \in S : o.created <= newest.created
  BY <1>5
<1>7. Sets!Newest(S) = [created |-> newest.created, set |-> newest.set]
  BY DEF Sets!Newest
<1> HIDE DEF newest
<1>8. QED
  BY <1>6, <1>7

-----------------------------------------------------------------------------
(* RuleStore: the steps *)

(* A writer goes on, or gives up, without touching what is stored. *)
LEMMA WriterMoves ==
  ASSUME StoreInv, NEW w \in Writers, NEW next \in {Sets!IdleWriter} \cup Saves,
         writer' = [writer EXCEPT ![w] = next], UNCHANGED <<backend, table, reader, latest>>,
         clock' \in [started : Nat, written : Nat], clock'.started >= clock.started, clock'.written = clock.written,
         columns' = columns \/ columns' = "versioned", Saving(next)'
  PROVE  StoreInv'
PROOF
<1>1. StoreType /\ TableInv /\ WriterInv /\ OnceInv /\ LatestInv /\ Loading(reader)
  BY DEF StoreInv
<1>2. StoreType'
  BY <1>1 DEF StoreType
<1>3. TableInv'
  <2>1. \A b \in table : Stored(b)'
    <3>1. ASSUME NEW b \in table
          PROVE  Stored(b)'
      <4>1. Stored(b) /\ b \in Blocks
        BY <1>1 DEF TableInv, StoreType
      <4>2. b.created \in Nat /\ clock.started \in Nat /\ clock'.started \in Nat
        BY <1>1, <4>1 DEF Blocks, StoreType
      <4>3. b.created <= clock'.started
        BY <4>1, <4>2 DEF Stored
      <4>4. QED
        BY <4>1, <4>3 DEF Stored
    <3>2. QED
      BY <3>1
  <2>2. QED
    BY <1>1, <2>1 DEF TableInv
<1>4. WriterInv'
  <2>1. ASSUME NEW v \in Writers, v # w
        PROVE  Saving(writer[v])'
    <3>1. writer'[v] = writer[v] /\ Saving(writer[v]) /\ writer[v] \in {Sets!IdleWriter} \cup Saves
      BY <1>1, <2>1 DEF StoreType, WriterInv
    <3>2. CASE writer[v] = Sets!IdleWriter
      BY <3>1, <3>2 DEF Saving
    <3>3. CASE writer[v] # Sets!IdleWriter
      <4>1. writer[v].created \in 1 .. clock.started /\ clock.started \in Nat /\ clock'.started \in Nat
        BY <1>1, <3>1, <3>3 DEF Saving, StoreType
      <4>2. writer[v].created \in 1 .. clock'.started
        BY <4>1
      <4>3. QED
        BY <3>1, <3>3, <4>2 DEF Saving
    <3>4. QED
      BY <3>2, <3>3
  <2>2. writer'[w] = next
    BY <1>1 DEF StoreType
  <2>3. Saving(writer[w])'
    BY <2>2 DEF Saving
  <2>4. QED
    BY <2>1, <2>3 DEF WriterInv
<1>5. OnceInv' /\ LatestInv'
  BY <1>1 DEF OnceInv, LatestInv
<1>6. Loading(reader)'
  BY <1>1 DEF Loading, Sets!OfConfig
<1>7. QED
  BY <1>2, <1>3, <1>4, <1>5, <1>6 DEF StoreInv

(* A save begins: its time is new. *)
LEMMA SaveBegins ==
  ASSUME StoreInv, NEW w \in Writers, NEW c \in Configs, NEW s \in RuleSets, NEW m \in {"append", "overwrite"},
         Sets!SaveToTable(w, c, s, m) \/ Sets!SaveToLakebase(w, c, s, m) \/ Sets!SaveActions(w, c, s, m)
  PROVE  StoreInv'
PROOF
<1>1. StoreType /\ TableInv
  BY DEF StoreInv
<1>2. PICK step \in {"columns", "write"} :
        Sets!Begin(w, c, s, m, step) /\ (step = "write" => backend = "actions")
  BY DEF Sets!SaveToTable, Sets!SaveToLakebase, Sets!SaveActions
<1>next. PICK next : next = [pc |-> step, config |-> c, set |-> s, mode |-> m, created |-> clock'.started, since |-> clock.written, deleted |-> {}]
  OBVIOUS
<1>3. /\ writer' = [writer EXCEPT ![w] = next] /\ UNCHANGED <<backend, table, columns, reader, latest>>
      /\ clock' = [clock EXCEPT !.started = clock.started + 1]
  BY <1>2, <1>next DEF Sets!Begin
<1>4. /\ clock' \in [started : Nat, written : Nat] /\ clock'.started = clock.started + 1 /\ clock'.written = clock.written
      /\ clock.started \in Nat /\ clock.written \in Nat
  BY <1>1, <1>3 DEF StoreType
<1>5. next \in Saves
  BY <1>next, <1>4 DEF Saves
<1>6. next.created \in 1 .. clock'.started /\ next.since <= clock'.written /\ next.deleted = {} /\ next.pc = step
  BY <1>next, <1>4
<1>7. Saving(next)'
  BY <1>1, <1>2, <1>3, <1>6 DEF Saving, TableInv
<1>8. clock'.started >= clock.started
  BY <1>4
<1>9. QED
  BY <1>3, <1>4, <1>5, <1>7, <1>8, WriterMoves

(* What is stored is looked at, and a save that is not needed ends. *)
LEMMA SaveGoesOn ==
  ASSUME StoreInv, NEW w \in Writers,
         Sets!EnsureColumns(w) \/ Sets!EnsureLakebaseTable(w) \/ Sets!LookUp(w) \/ Sets!Delete(w) \/ Sets!Abandon(w)
  PROVE  StoreInv'
PROOF
<1>1. StoreType /\ TableInv /\ Saving(writer[w])
  BY DEF StoreInv, WriterInv
<1>2. writer[w].pc # "idle" /\ UNCHANGED <<backend, table, reader, latest, clock>>
  BY DEF Sets!EnsureColumns, Sets!EnsureLakebaseTable, Sets!LookUp, Sets!Delete, Sets!Abandon
<1>3. writer[w] \in Saves /\ writer[w] # Sets!IdleWriter
  BY <1>1, <1>2 DEF StoreType, Sets!IdleWriter
<1>4. clock' \in [started : Nat, written : Nat] /\ clock'.started >= clock.started /\ clock'.written = clock.written
  BY <1>1, <1>2 DEF StoreType
<1>5. ASSUME NEW step \in {"lookup", "delete", "write"}, Sets!At(w, step), columns' = columns \/ columns' = "versioned",
             columns' # "legacy", step = "delete" => writer[w].mode = "overwrite",
             step \in {"delete", "write"} => \A b \in table : b.config = writer[w].config => b.set # writer[w].set
      PROVE  StoreInv'
  <2>next. PICK next : next = [writer[w] EXCEPT !.pc = step]
    OBVIOUS
  <2>1. next \in Saves /\ next.pc = step
    BY <1>3, <2>next DEF Saves
  <2>2. /\ next.config = writer[w].config /\ next.set = writer[w].set /\ next.mode = writer[w].mode
        /\ next.created = writer[w].created /\ next.since = writer[w].since /\ next.deleted = writer[w].deleted
    BY <1>3, <2>next DEF Saves
  <2>3. writer' = [writer EXCEPT ![w] = next]
    BY <1>5, <2>next DEF Sets!At
  <2>4. Saving(next)'
    BY <1>1, <1>2, <1>3, <1>5, <2>1, <2>2 DEF Saving
  <2>5. QED
    BY <1>2, <1>4, <1>5, <2>1, <2>3, <2>4, WriterMoves
<1>6. ASSUME writer' = [writer EXCEPT ![w] = Sets!IdleWriter], columns' = columns
      PROVE  StoreInv'
  <2>1. Saving(Sets!IdleWriter)'
    BY DEF Saving
  <2>2. QED
    BY <1>2, <1>4, <1>6, <2>1, WriterMoves
<1>7. CASE Sets!EnsureColumns(w)
  <2>1. CASE columns = "none"
    BY <1>1, <1>5, <1>7, <2>1 DEF Sets!EnsureColumns, TableInv
  <2>2. CASE columns # "none"
    BY <1>5, <1>7, <2>2 DEF Sets!EnsureColumns
  <2>3. QED
    BY <2>1, <2>2
<1>8. CASE Sets!EnsureLakebaseTable(w)
  BY <1>5, <1>8 DEF Sets!EnsureLakebaseTable
<1>9. CASE Sets!LookUp(w)
  <2>1. columns' = columns /\ columns # "legacy" /\ writer[w].mode \in {"append", "overwrite"}
    BY <1>1, <1>3, <1>9 DEF Sets!LookUp, Saving, Saves
  <2>2. CASE Sets!Exists(writer[w].config, writer[w].set)
    BY <1>6, <1>9, <2>1, <2>2 DEF Sets!LookUp
  <2>3. CASE ~Sets!Exists(writer[w].config, writer[w].set)
    <3>1. \A b \in table : b.config = writer[w].config => b.set # writer[w].set
      BY <2>3 DEF Sets!Exists
    <3>2. CASE backend = "lakebase" /\ writer[w].mode = "overwrite"
      BY <1>5, <1>9, <2>1, <2>3, <3>1, <3>2 DEF Sets!LookUp
    <3>3. CASE ~(backend = "lakebase" /\ writer[w].mode = "overwrite")
      BY <1>5, <1>9, <2>1, <2>3, <3>1, <3>3 DEF Sets!LookUp
    <3>4. QED
      BY <3>2, <3>3
  <2>4. QED
    BY <2>2, <2>3
<1>10. CASE Sets!Delete(w)
  <2>gone. PICK gone : gone = Sets!OfConfig(writer[w].config)
    OBVIOUS
  <2>next. PICK next : next = [writer[w] EXCEPT !.deleted = gone, !.pc = "write"]
    OBVIOUS
  <2>1. gone \in SUBSET Blocks /\ \A b \in gone : b.config = writer[w].config
    BY <1>1, <2>gone DEF StoreType, Sets!OfConfig
  <2>2. writer' = [writer EXCEPT ![w] = next]
    BY <1>10, <2>gone, <2>next DEF Sets!Delete
  <2>3. next \in Saves /\ next.pc = "write" /\ next.deleted = gone
    BY <1>3, <2>1, <2>next DEF Saves
  <2>4. /\ next.config = writer[w].config /\ next.set = writer[w].set /\ next.mode = writer[w].mode
        /\ next.created = writer[w].created /\ next.since = writer[w].since
    BY <1>3, <2>next DEF Saves
  <2>5. columns' = columns /\ writer[w].pc = "delete"
    BY <1>10 DEF Sets!Delete
  <2>6. Saving(next)'
    BY <1>1, <1>2, <1>3, <2>1, <2>3, <2>4, <2>5 DEF Saving
  <2>7. QED
    BY <1>2, <1>4, <2>2, <2>3, <2>5, <2>6, WriterMoves
<1>11. CASE Sets!Abandon(w)
  BY <1>6, <1>11 DEF Sets!Abandon
<1>12. QED
  BY <1>7, <1>8, <1>9, <1>10, <1>11

(* A save is written: it is newer than whatever began before, and takes away     *)
(* only what it overwrites.                                                      *)
LEMMA SaveIsWritten ==
  ASSUME StoreInv, NoPrint \notin RuleSets, NEW w \in Writers, Sets!SaveAsTable(w) \/ Sets!Commit(w)
  PROVE  StoreInv'
PROOF
<1>1. StoreType /\ TableInv /\ WriterInv /\ OnceInv /\ LatestInv /\ Loading(reader) /\ Saving(writer[w])
  BY DEF StoreInv, WriterInv
<1>2. PICK gone : gone = IF backend # "lakebase" THEN (IF writer[w].pc = "write" /\ writer[w].mode = "overwrite"
                                                       THEN Sets!OfConfig(writer[w].config) ELSE {})
                         ELSE writer[w].deleted
  OBVIOUS
<1>3. Sets!Store(w, gone)
  BY <1>2 DEF Sets!SaveAsTable, Sets!Commit
<1>4. PICK s : s = writer[w]
  OBVIOUS
<1>5. s \in Saves /\ s.pc = "write" /\ s # Sets!IdleWriter
  BY <1>1, <1>3, <1>4 DEF StoreType, Sets!Store, Sets!IdleWriter
<1>6. Saving(s)
  BY <1>1, <1>4
<1>7. (gone # {} => s.mode = "overwrite") /\ \A b \in gone : b.config = s.config
  BY <1>2, <1>4, <1>5, <1>6 DEF Saving, Sets!OfConfig
<1>8. PICK n : n = [config |-> s.config, set |-> s.set, created |-> s.created, since |-> s.since, until |-> clock.written + 1]
  OBVIOUS
<1>9. clock \in [started : Nat, written : Nat] /\ s.created \in 1 .. clock.started /\ s.since <= clock.written
  BY <1>1, <1>5, <1>6 DEF StoreType, Saving
<1>10. /\ n \in Blocks /\ n.config = s.config /\ n.set = s.set /\ n.created = s.created /\ n.since = s.since
       /\ n.until = clock.written + 1
  BY <1>5, <1>8, <1>9 DEF Blocks, Saves, Prints
<1>11. clock' \in [started : Nat, written : Nat] /\ clock'.started = clock.started /\ clock'.written = clock.written + 1
  BY <1>3, <1>9 DEF Sets!Store
<1>12. /\ table' = (table \ gone) \cup {n} /\ writer' = [writer EXCEPT ![w] = Sets!IdleWriter] /\ UNCHANGED <<backend, reader>>
       /\ columns' = IF columns = "none" THEN "versioned" ELSE columns
  BY <1>3, <1>4, <1>8, <1>11 DEF Sets!Store
<1>13. latest' = IF s.mode = "overwrite" THEN [latest EXCEPT ![s.config] = Sets!Renewed(latest[s.config])] ELSE latest
  BY <1>3, <1>4 DEF Sets!Store
<1>14. latest' \in [Configs -> Marks] /\ \A c \in Configs :
         latest'[c] = IF s.mode = "overwrite" /\ c = s.config THEN Sets!Renewed(latest[c]) ELSE latest[c]
  <2>1. \A m \in Marks : Sets!Renewed(m) \in Marks
    BY DEF Sets!Renewed, Marks, Sets!Older, Prints
  <2>2. QED
    BY <1>1, <1>5, <1>13, <2>1 DEF StoreType, Saves
<1>15. StoreType'
  BY <1>1, <1>10, <1>11, <1>12, <1>14 DEF StoreType
<1>16. TableInv'
  <2>1. ASSUME NEW b \in table
        PROVE  Stored(b)'
    <3>1. Stored(b) /\ b \in Blocks
      BY <1>1 DEF TableInv, StoreType
    <3>2. b.since \in Nat /\ b.until \in Nat /\ b.since <= clock.written /\ b.until <= clock.written
      BY <3>1 DEF Blocks, Stored
    <3>3. b.since <= clock'.written /\ b.until <= clock'.written
      BY <1>9, <1>11, <3>2
    <3>4. QED
      BY <1>11, <3>1, <3>3 DEF Stored
  <2>2. Stored(n)'
    <3>1. n.set # NoPrint /\ n.created >= 1 /\ n.created <= clock'.started
      BY <1>5, <1>9, <1>10, <1>11 DEF Saves
    <3>2. n.since <= clock'.written /\ n.until <= clock'.written
      BY <1>5, <1>9, <1>10, <1>11 DEF Saves
    <3>3. QED
      BY <3>1, <3>2 DEF Stored
  <2>3. columns # "legacy"
    BY <1>5, <1>6 DEF Saving
  <2>4. QED
    BY <1>1, <1>12, <2>1, <2>2, <2>3 DEF TableInv
<1>17. WriterInv'
  <2>1. ASSUME NEW v \in Writers
        PROVE  Saving(writer[v])'
    <3>1. CASE writer'[v] = Sets!IdleWriter
      BY <3>1 DEF Saving
    <3>2. CASE writer'[v] # Sets!IdleWriter
      <4>1. writer'[v] = writer[v] /\ Saving(writer[v]) /\ writer[v] \in Saves
        BY <1>1, <1>12, <3>2 DEF StoreType, WriterInv
      <4>2. writer[v].since <= clock.written /\ writer[v].since \in Nat
        BY <3>2, <4>1 DEF Saving, Saves
      <4>3. writer[v].since < n.until /\ writer[v].since <= clock'.written
        BY <1>9, <1>10, <1>11, <4>2
      <4>4. writer[v].pc # "columns" => columns' # "legacy"
        BY <1>12, <3>2, <4>1 DEF Saving
      <4>5. QED
        BY <1>11, <1>12, <3>2, <4>1, <4>3, <4>4 DEF Saving
    <3>3. QED
      BY <3>1, <3>2
  <2>2. QED
    BY <2>1 DEF WriterInv
<1>18. OnceInv'
  <2>1. ASSUME backend # "actions", NEW b \in table, b.config = n.config, b.set = n.set
        PROVE  b.since < n.until /\ n.since < b.until
    <3>1. n.since < b.until
      BY <1>5, <1>6, <1>10, <2>1 DEF Saving
    <3>2. b.since <= clock.written /\ b.since \in Nat
      BY <1>1, <2>1 DEF TableInv, Stored, StoreType, Blocks
    <3>3. QED
      BY <1>9, <1>10, <3>1, <3>2
  <2>2. QED
    BY <1>1, <1>12, <2>1 DEF OnceInv
<1>19. LatestInv'
  <2>1. ASSUME NEW c \in Configs, latest'[c].load.set # NoPrint
        PROVE  \E b \in table' : b.config = c /\ b.set = latest'[c].load.set /\ b.created = latest'[c].load.created
    <3>1. ~(s.mode = "overwrite" /\ c = s.config) /\ latest'[c] = latest[c]
      BY <1>14, <2>1 DEF Sets!Renewed, Sets!Older
    <3>2. PICK b \in table : b.config = c /\ b.set = latest[c].load.set /\ b.created = latest[c].load.created
      BY <1>1, <2>1, <3>1 DEF LatestInv
    <3>3. b \notin gone
      BY <1>7, <3>1, <3>2
    <3>4. QED
      BY <1>12, <3>1, <3>2, <3>3
  <2>2. QED
    BY <2>1 DEF LatestInv
<1>20. Loading(reader)'
  <2>1. SUFFICES ASSUME reader # Sets!IdleReader
                 PROVE  Loading(reader)'
    BY <1>12 DEF Loading
  <2>2. PICK l : l = reader
    OBVIOUS
  <2>3. l \in Loads /\ l.config \in Configs /\ Loading(l) /\ reader' = l /\ l # Sets!IdleReader
    BY <1>1, <1>12, <2>1, <2>2 DEF StoreType, Loads
  <2>4. l.since \in Marks /\ latest[l.config] \in Marks /\ l.since.epoch <= latest[l.config].epoch
    BY <1>1, <2>3 DEF StoreType, Loads, Loading
  <2>5. l.since.epoch \in Nat /\ latest[l.config].epoch \in Nat
    BY <2>4 DEF Marks
  <2>6. CASE s.mode = "overwrite" /\ l.config = s.config
    <3>1. latest'[l.config].epoch = latest[l.config].epoch + 1
      BY <1>14, <2>3, <2>6 DEF Sets!Renewed
    <3>2. l.since.epoch < latest'[l.config].epoch
      BY <2>4, <2>5, <3>1
    <3>3. latest'[l.config] # l.since /\ l.since.epoch <= latest'[l.config].epoch
      BY <1>14, <2>3, <2>5, <3>1, <3>2
    <3>4. QED
      BY <2>3, <3>3 DEF Loading
  <2>7. CASE ~(s.mode = "overwrite" /\ l.config = s.config)
    <3>1. latest'[l.config] = latest[l.config]
      BY <1>14, <2>3, <2>7
    <3>2. Sets!OfConfig(l.config) \subseteq Sets!OfConfig(l.config)'
      BY <1>7, <1>12, <2>7 DEF Sets!OfConfig
    <3>3. QED
      BY <1>12, <2>3, <3>1, <3>2 DEF Loading
  <2>8. QED
    BY <2>6, <2>7
<1>21. QED
  BY <1>15, <1>16, <1>17, <1>18, <1>19, <1>20 DEF StoreInv

(* The reader goes on. *)
LEMMA ReaderMoves ==
  ASSUME StoreInv, NEW next \in {Sets!IdleReader} \cup Loads, reader' = next,
         UNCHANGED <<backend, table, columns, writer, latest, clock>>, Loading(next)
  PROVE  StoreInv'
PROOF
<1>1. StoreType' /\ TableInv' /\ WriterInv' /\ OnceInv' /\ LatestInv'
  BY DEF StoreInv, StoreType, TableInv, Stored, WriterInv, Saving, OnceInv, LatestInv
<1>2. Loading(reader)'
  BY DEF Loading, Sets!OfConfig
<1>3. QED
  BY <1>1, <1>2 DEF StoreInv

(* A load begins with the mark of the last one. *)
LEMMA LoadBegins ==
  ASSUME StoreInv, NEW c \in Configs, NEW wanted \in Prints,
         Sets!LoadFromTable(c, wanted) \/ Sets!LoadFromLakebase(c, wanted) \/ (wanted = NoPrint /\ Sets!LoadActions(c))
  PROVE  StoreInv'
PROOF
<1>1. StoreType /\ TableInv /\ LatestInv
  BY DEF StoreInv
<1>2. PICK step \in {"latest", "collect"} :
        Sets!Open(c, wanted, step) /\ (step = "collect" => wanted # NoPrint \/ backend = "actions")
  BY DEF Sets!LoadFromTable, Sets!LoadFromLakebase, Sets!LoadActions
<1>3. PICK next : next = [pc |-> IF columns = "legacy" THEN "collect" ELSE step, config |-> c, asked |-> wanted, found |-> wanted,
                          since |-> latest[c], result |-> {}]
  OBVIOUS
<1>4. reader' = next /\ UNCHANGED <<backend, table, columns, writer, latest, clock>>
  BY <1>2, <1>3 DEF Sets!Open
<1>5. next \in Loads /\ next.config = c /\ next.since = latest[c] /\ next.asked = wanted /\ next.pc # "done" /\ next.result = {}
      /\ (next.pc = "collect" => columns = "legacy" \/ wanted # NoPrint \/ backend = "actions")
  BY <1>1, <1>2, <1>3 DEF Loads, StoreType
<1>6. latest[c].epoch \in Nat
  BY <1>1 DEF StoreType, Marks
<1>7. columns = "legacy" => latest[c].load.set = NoPrint
  BY <1>1 DEF TableInv, LatestInv
<1>8. Loading(next)
  BY <1>5, <1>6, <1>7 DEF Loading
<1>9. QED
  BY <1>4, <1>5, <1>8, ReaderMoves

(* The newest rule set that is found is no older than the last one loaded. *)
LEMMA LatestIsFound ==
  ASSUME StoreInv, NoPrint \notin RuleSets, Sets!FindLatest \/ Sets!FindLatestInLakebase
  PROVE  StoreInv'
PROOF
<1>1. StoreType /\ TableInv /\ LatestInv /\ Loading(reader)
  BY DEF StoreInv
<1>2. PICK l : l = reader
  OBVIOUS
<1>3. l \in Loads /\ l.pc = "latest" /\ l # Sets!IdleReader /\ Loading(l)
  <2>1. l.pc = "latest"
    BY <1>2 DEF Sets!FindLatest, Sets!FindLatestInLakebase
  <2>2. QED
    BY <1>1, <1>2, <2>1 DEF StoreType, Sets!IdleReader
<1>4. UNCHANGED <<backend, table, columns, writer, latest, clock>>
  BY DEF Sets!FindLatest, Sets!FindLatestInLakebase
<1>5. PICK S : S = Sets!OfConfig(l.config)
  OBVIOUS
<1>6. S \subseteq table /\ \A b \in S : b \in Blocks /\ b.created \in Nat /\ Stored(b)
  BY <1>1, <1>5 DEF Sets!OfConfig, StoreType, TableInv, Blocks
<1>7. l.config \in Configs /\ l.since \in Marks /\ l.since.load.created \in Nat
  BY <1>3 DEF Loads, Marks
\* What the last load gave is among the blocks.
<1>8. latest[l.config] = l.since /\ l.since.load.set # NoPrint =>
        \E b \in S : b.set # NoPrint /\ b.created = l.since.load.created /\ b.created >= 1
  <2> SUFFICES ASSUME latest[l.config] = l.since, l.since.load.set # NoPrint
               PROVE  \E b \in S : b.set # NoPrint /\ b.created = l.since.load.created /\ b.created >= 1
    OBVIOUS
  <2>1. PICK b \in table : b.config = l.config /\ b.set = l.since.load.set /\ b.created = l.since.load.created
    BY <1>1, <1>7 DEF LatestInv
  <2>2. b \in S
    BY <1>5, <2>1 DEF Sets!OfConfig
  <2>3. QED
    BY <1>6, <2>1, <2>2 DEF Stored
<1>9. ASSUME NEW b \in S, reader' = [l EXCEPT !.pc = "collect", !.found = b.set],
             \A o \in S : o.set # NoPrint => o.created <= b.created
      PROVE  StoreInv'
  <2>1. PICK next : next = [l EXCEPT !.pc = "collect", !.found = b.set]
    OBVIOUS
  <2>2. next \in Loads /\ next.pc = "collect" /\ next.found = b.set /\ next.config = l.config /\ next.since = l.since
        /\ next.asked = l.asked /\ next.result = {}
    BY <1>3, <1>6, <1>9, <2>1 DEF Loads, Blocks, Loading
  <2>3. ASSUME latest[l.config] = l.since, l.since.load.set # NoPrint
        PROVE  b.set # NoPrint /\ b.created >= l.since.load.created
    <3>1. PICK o \in S : o.set # NoPrint /\ o.created = l.since.load.created /\ o.created >= 1
      BY <1>8, <2>3
    <3>2. b.created >= o.created /\ b.created >= 1 /\ b.created \in Nat
      BY <1>6, <1>9, <3>1
    <3>3. b.set # NoPrint
      <4>1. Sets!Legacy(b.config).created = 0
        BY DEF Sets!Legacy
      <4>2. QED
        BY <1>6, <3>2, <4>1 DEF Stored
    <3>4. QED
      BY <1>7, <3>1, <3>2, <3>3
  <2>4. Loading(next)
    BY <1>3, <1>5, <2>2, <2>3 DEF Loading
  <2>5. QED
    BY <1>4, <1>9, <2>1, <2>2, <2>4, ReaderMoves
<1>10. ASSUME NEW step \in {"collect", "done"}, NEW next \in Loads, reader' = next, \A b \in S : b.set = NoPrint,
              next.pc = step, next.config = l.config, next.since = l.since, next.result = {}
       PROVE  StoreInv'
  <2>1. latest[l.config] = l.since => l.since.load.set = NoPrint
    BY <1>8, <1>10
  <2>2. Loading(next)
    BY <1>3, <1>10, <2>1 DEF Loading
  <2>3. QED
    BY <1>4, <1>10, <2>2, ReaderMoves
<1>11. CASE Sets!FindLatest
  <2>1. \/ S = {} /\ reader' = [l EXCEPT !.pc = "done"]
        \/ \E b \in Sets!First(S) : reader' = [l EXCEPT !.pc = "collect", !.found = b.set]
    BY <1>2, <1>5, <1>11 DEF Sets!FindLatest
  <2>2. CASE S = {} /\ reader' = [l EXCEPT !.pc = "done"]
    <3>1. PICK next : next = [l EXCEPT !.pc = "done"]
      OBVIOUS
    <3>2. next \in Loads /\ next.pc = "done" /\ next.config = l.config /\ next.since = l.since /\ next.result = {}
      BY <1>3, <3>1 DEF Loads, Loading
    <3>3. QED
      BY <1>10, <2>2, <3>1, <3>2
  <2>3. ASSUME NEW b \in Sets!First(S), reader' = [l EXCEPT !.pc = "collect", !.found = b.set]
        PROVE  StoreInv'
    BY <1>9, <2>3 DEF Sets!First
  <2>4. QED
    BY <2>1, <2>2, <2>3
<1>12. CASE Sets!FindLatestInLakebase
  <2> DEFINE T == {b \in S : b.set # NoPrint}
  <2>1. PICK b \in IF T = {} THEN {Sets!Older} ELSE Sets!First(T) : reader' = [l EXCEPT !.pc = "collect", !.found = b.set]
    BY <1>2, <1>5, <1>12 DEF Sets!FindLatestInLakebase
  <2>2. CASE T = {}
    <3>1. b.set = NoPrint
      BY <2>1, <2>2 DEF Sets!Older
    <3>2. PICK next : next = [l EXCEPT !.pc = "collect", !.found = b.set]
      OBVIOUS
    <3>3. next \in Loads /\ next.pc = "collect" /\ next.config = l.config /\ next.since = l.since /\ next.result = {}
      BY <1>3, <3>1, <3>2 DEF Loads, Loading, Prints
    <3>4. QED
      BY <1>10, <2>1, <2>2, <3>2, <3>3
  <2>3. CASE T # {}
    <3>1. b \in S /\ \A o \in S : o.set # NoPrint => o.created <= b.created
      BY <2>1, <2>3 DEF Sets!First
    <3>2. QED
      BY <1>9, <2>1, <3>1
  <2>4. QED
    BY <2>2, <2>3
<1>13. QED
  BY <1>11, <1>12

(* The blocks that are collected are those of the fingerprint that was found. *)
LEMMA ChecksAreCollected ==
  ASSUME StoreInv, Sets!Collect
  PROVE  StoreInv'
PROOF
<1>1. StoreType /\ Loading(reader)
  BY DEF StoreInv
<1>2. PICK l : l = reader
  OBVIOUS
<1>3. l \in Loads /\ l.pc = "collect" /\ l # Sets!IdleReader /\ Loading(l)
  BY <1>1, <1>2 DEF Sets!Collect, StoreType, Sets!IdleReader
<1>4. PICK result : result = {b \in Sets!OfConfig(l.config) : l.found # NoPrint => b.set = l.found}
  OBVIOUS
<1>5. PICK next : next = [l EXCEPT !.pc = "done", !.result = result]
  OBVIOUS
<1>6. reader' = next /\ UNCHANGED <<backend, table, columns, writer, latest, clock>>
  BY <1>2, <1>4, <1>5 DEF Sets!Collect
<1>7. result \in SUBSET Blocks /\ result \subseteq Sets!OfConfig(l.config)
  BY <1>1, <1>4 DEF StoreType, Sets!OfConfig
<1>8. /\ next \in Loads /\ next.pc = "done" /\ next.config = l.config /\ next.since = l.since
      /\ next.asked = l.asked /\ next.found = l.found /\ next.result = result
  BY <1>3, <1>5, <1>7 DEF Loads
<1>9. Loading(next)
  BY <1>3, <1>4, <1>7, <1>8 DEF Loading
<1>10. QED
  BY <1>6, <1>8, <1>9, ReaderMoves

(* What a load gave is remembered as long as nothing overwrote it meanwhile. *)
LEMMA LoadReturns ==
  ASSUME StoreInv, Sets!Return
  PROVE  StoreInv'
PROOF
<1>1. StoreType /\ TableInv /\ WriterInv /\ OnceInv /\ LatestInv /\ Loading(reader)
  BY DEF StoreInv
<1>2. PICK l : l = reader
  OBVIOUS
<1>3. l \in Loads /\ l.pc = "done" /\ l # Sets!IdleReader /\ Loading(l) /\ l.config \in Configs
  BY <1>1, <1>2 DEF Sets!Return, StoreType, Sets!IdleReader, Loads
<1>4. reader' = Sets!IdleReader /\ UNCHANGED <<backend, table, columns, writer, clock>>
  BY DEF Sets!Return
<1>5. \/ latest' = latest
      \/ latest[l.config] = l.since /\ latest' = [latest EXCEPT ![l.config].load = Sets!Newest(l.result)]
  BY <1>2 DEF Sets!Return
<1>6. CASE latest' = latest
  <2>1. StoreType' /\ TableInv' /\ WriterInv' /\ OnceInv' /\ LatestInv'
    BY <1>1, <1>4, <1>6 DEF StoreType, TableInv, Stored, WriterInv, Saving, OnceInv, LatestInv
  <2>2. Loading(reader)'
    BY <1>4 DEF Loading
  <2>3. QED
    BY <2>1, <2>2 DEF StoreInv
<1>7. CASE latest[l.config] = l.since /\ latest' = [latest EXCEPT ![l.config].load = Sets!Newest(l.result)]
  <2>1. l.result \subseteq Sets!OfConfig(l.config) /\ l.result \subseteq table
    BY <1>3, <1>7 DEF Loading, Sets!OfConfig
  <2>2. PICK load : load = Sets!Newest(l.result)
    OBVIOUS
  <2>3. /\ load \in [created : Nat, set : Prints]
        /\ load.set # NoPrint => \E b \in table : b.config = l.config /\ b.set = load.set /\ b.created = load.created
    <3>1. CASE l.result = {}
      BY <2>2, <3>1 DEF Sets!Newest, Sets!Older, Prints
    <3>2. CASE l.result # {}
      <4>1. PICK b \in l.result : load = [created |-> b.created, set |-> b.set]
        BY <2>1, <2>2, <3>2, NewestIsNewest
      <4>2. b \in Blocks /\ b \in table /\ b.config = l.config
        BY <1>1, <2>1 DEF StoreType, Sets!OfConfig
      <4>3. QED
        BY <4>1, <4>2 DEF Blocks
    <3>3. QED
      BY <3>1, <3>2
  <2>4. latest[l.config] \in Marks /\ latest' = [latest EXCEPT ![l.config] = [latest[l.config] EXCEPT !.load = load]]
    BY <1>1, <1>3, <1>7, <2>2 DEF StoreType
  <2>5. PICK mark : mark = [latest[l.config] EXCEPT !.load = load]
    OBVIOUS
  <2>6. mark \in Marks /\ mark.load = load
    BY <2>3, <2>4, <2>5 DEF Marks
  <2>7. latest' \in [Configs -> Marks] /\ \A c \in Configs : latest'[c] = IF c = l.config THEN mark ELSE latest[c]
    BY <1>1, <1>3, <2>4, <2>5, <2>6 DEF StoreType
  <2>8. StoreType'
    BY <1>1, <1>4, <2>7 DEF StoreType
  <2>9. TableInv' /\ WriterInv' /\ OnceInv'
    BY <1>1, <1>4 DEF TableInv, Stored, WriterInv, Saving, OnceInv
  <2>10. LatestInv'
    BY <1>1, <1>4, <2>3, <2>6, <2>7 DEF LatestInv
  <2>11. Loading(reader)'
    BY <1>4 DEF Loading
  <2>12. QED
    BY <2>8, <2>9, <2>10, <2>11 DEF StoreInv
<1>8. QED
  BY <1>5, <1>6, <1>7

(* Every step keeps the invariant. *)
LEMMA RuleStoreStep ==
  ASSUME StoreInv, NoPrint \notin RuleSets, [Sets!Next]_(Sets!vars)
  PROVE  StoreInv'
PROOF
<1>1. CASE UNCHANGED Sets!vars
  BY <1>1 DEF Sets!vars, StoreInv, StoreType, TableInv, Stored, WriterInv, Saving, OnceInv, LatestInv, Loading, Sets!OfConfig
<1>2. CASE \E c \in Configs, wanted \in RuleSets \cup {NoPrint} : Sets!LoadFromTable(c, wanted) \/ Sets!LoadFromLakebase(c, wanted)
  BY <1>2, LoadBegins DEF Prints
<1>3. CASE \E c \in Configs : Sets!LoadActions(c)
  BY <1>3, LoadBegins DEF Prints
<1>4. CASE \E w \in Writers, c \in Configs, s \in RuleSets, m \in {"append", "overwrite"} :
             Sets!SaveToTable(w, c, s, m) \/ Sets!SaveToLakebase(w, c, s, m) \/ Sets!SaveActions(w, c, s, m)
  BY <1>4, SaveBegins
<1>5. CASE \E w \in Writers : \/ Sets!EnsureColumns(w) \/ Sets!EnsureLakebaseTable(w) \/ Sets!LookUp(w) \/ Sets!Delete(w)
                              \/ Sets!SaveAsTable(w) \/ Sets!Commit(w) \/ Sets!Abandon(w)
  BY <1>5, SaveGoesOn, SaveIsWritten
<1>6. QED
  BY <1>1, <1>2, <1>3, <1>4, <1>5, LatestIsFound, ChecksAreCollected, LoadReturns DEF Sets!Next

(* SavedOnceLoadedForward: two blocks of one rule set in one run configuration   *)
(* come from saves that overlapped, and while rule sets are appended a load      *)
(* gives one rule set and never an older one than the load before, whatever the  *)
(* number of writers, run configurations and saves                               *)
(* (TableChecksStorageHandler, LakebaseChecksStorageHandler: save, load).        *)
THEOREM RuleSetsAreSavedOnceAndLoadedForward ==
  ASSUME NoPrint \notin RuleSets
  PROVE  Sets!Spec => []Sets!SavedOnceLoadedForward
PROOF
<1>1. Sets!Init => StoreInv
  <2> SUFFICES ASSUME Sets!Init
               PROVE  StoreInv
    OBVIOUS
  <2>1. table \in SUBSET Blocks /\ \A b \in table : b = Sets!Legacy(b.config) /\ b.set = NoPrint
    BY DEF Sets!Init, Sets!Legacy, Blocks, Prints
  <2>2. StoreType
    <3>1. latest \in [Configs -> Marks]
      BY DEF Sets!Init, Sets!Older, Marks, Prints
    <3>2. QED
      BY <2>1, <3>1 DEF Sets!Init, StoreType
  <2>3. TableInv
    BY <2>1 DEF Sets!Init, TableInv, Stored, Sets!Legacy
  <2>4. WriterInv
    BY DEF Sets!Init, WriterInv, Saving
  <2>5. OnceInv
    BY <2>1 DEF OnceInv
  <2>6. LatestInv /\ Loading(reader)
    BY DEF Sets!Init, LatestInv, Loading, Sets!Older
  <2>7. QED
    BY <2>2, <2>3, <2>4, <2>5, <2>6 DEF StoreInv
<1>2. StoreInv /\ [Sets!Next]_(Sets!vars) => StoreInv'
  BY RuleStoreStep
<1>3. StoreInv => Sets!SavedOnceLoadedForward
  <2> SUFFICES ASSUME StoreInv
               PROVE  Sets!SavedOnceLoadedForward
    OBVIOUS
  <2>1. backend # "actions" =>
          \A b, o \in table : b # o /\ b.config = o.config /\ b.set = o.set => b.since < o.until /\ o.since < b.until
    BY DEF StoreInv, OnceInv
  <2>2. ASSUME reader.pc = "done", backend # "actions", reader.asked = NoPrint,
               reader.since.load.set # NoPrint, latest[reader.config] = reader.since
        PROVE  /\ Sets!Cardinality({b.set : b \in reader.result}) = 1
               /\ Sets!Newest(reader.result).created >= reader.since.load.created
    <3>1. reader \in Loads /\ reader # Sets!IdleReader
      BY <2>2 DEF StoreInv, StoreType, Sets!IdleReader
    <3>2. /\ reader.result \subseteq table
          /\ \A b \in reader.result : b.set = reader.found
          /\ \E b \in reader.result : b.created >= reader.since.load.created
      BY <2>2, <3>1 DEF StoreInv, Loading, Sets!OfConfig
    <3>3. PICK b \in reader.result : b.created >= reader.since.load.created
      BY <3>2
    <3>4. {o.set : o \in reader.result} = {reader.found}
      BY <3>2, <3>3
    <3>5. Sets!Cardinality({o.set : o \in reader.result}) = 1
      BY <3>4, OneIsCounted
    <3>6. PICK n \in reader.result : Sets!Newest(reader.result) = [created |-> n.created, set |-> n.set] /\ \A o \in reader.result : o.created <= n.created
      BY <3>2, <3>3, NewestIsNewest
    <3>7. b \in Blocks /\ n \in Blocks /\ reader.since.load.created \in Nat
      BY <3>1, <3>2, <3>3, <3>6 DEF StoreInv, StoreType, Loads, Marks
    <3>8. Sets!Newest(reader.result).created >= reader.since.load.created
      BY <3>3, <3>6, <3>7 DEF Blocks
    <3>9. QED
      BY <3>5, <3>8
  <2>3. QED
    BY <2>1, <2>2, Zenon DEF Sets!SavedOnceLoadedForward
<1>4. QED
  BY <1>1, <1>2, <1>3, PTL DEF Sets!Spec

-----------------------------------------------------------------------------
(* AnomalyModels: the table of models.  A save archives and then appends; what
   the table shows in between, and when a save breaks off there, is hidden. *)

CONSTANTS Trainers, Segments, Spellings, MaxTrainings, MaxBreaks
VARIABLES models, trainer, trainings, hidden, overlapped, failures, created, lost

Models == INSTANCE AnomalyModels WITH MaxFailures <- MaxBreaks, table <- models, started <- trainings

Of == Segments \cup {Models!Global}
ModelNames == [base : Spellings, of : Of]
Records == [name : ModelNames, time : Nat, status : {"active", "archived"}]
InSave == {"save", "create", "archive", "append"}
Trainings == [step : {"fit"} \cup InSave, base : Spellings, left : SUBSET Of, now : Of, time : Nat, saved : Nat, told : SUBSET Records]

ModelType ==
  /\ models \in SUBSET Records
  /\ trainer \in [Trainers -> {Models!Idle} \cup Trainings]
  /\ trainings \in Nat /\ hidden \in SUBSET ModelNames /\ overlapped \in BOOLEAN
  /\ created \in BOOLEAN /\ lost \in SUBSET Records

\* Without overlaps one trains at a time, with the time of the last training.
AloneInv == ~overlapped => \A t, u \in Trainers : trainer[t] # Models!Idle /\ trainer[u] # Models!Idle => t = u
TimeInv ==
  /\ \A r \in models : r.time <= trainings
  /\ ~overlapped => \A t \in Trainers : trainer[t].step \in InSave => trainer[t].time = trainings
  /\ \A t \in Trainers : trainer[t].step \in InSave => trainer[t].time <= trainings

\* Nothing is saved before the table is created; who is about to create it alone
\* does not find it there, and so nothing is lost.
CreateInv ==
  /\ ~created => models = {}
  /\ \A t \in Trainers : trainer[t].step \in {"archive", "append"} => created
  /\ ~overlapped => lost = {} /\ \A t \in Trainers : trainer[t].step = "create" => ~created

\* A name without an active model is hidden, or the table was created over it.
HiddenInv ==
  \A r \in models :
    \/ \E q \in models : q.name.of = r.name.of /\ q.status = "active"
    \/ \E n \in hidden : n.of = r.name.of
    \/ \E l \in lost : l.name.of = r.name.of

\* Without overlaps the active model is one and the newest, and there is none
\* when the next is to be appended.
OneInv ==
  ~overlapped =>
    /\ \A q, r \in models : q.status = "active" /\ r.name.of = q.name.of => r.time <= q.time /\ (r.status = "active" => r = q)
    /\ \A t \in Trainers : trainer[t].step = "append" => \A r \in models : r.name.of = trainer[t].now => r.status # "active"

ModelInv == ModelType /\ AloneInv /\ TimeInv /\ CreateInv /\ HiddenInv /\ OneInv

(* A trainer goes on, and the table stays. *)
LEMMA TrainerMoves ==
  ASSUME ModelInv, NEW t \in Trainers, NEW next \in {Models!Idle} \cup Trainings, trainer' = [trainer EXCEPT ![t] = next],
         trainer[t] # Models!Idle, UNCHANGED <<models, trainings, hidden, overlapped, created, lost>>,
         next.step # "append", next.step = "create" => ~created, next.step = "archive" => created,
         next.step \in InSave => next.time <= trainings /\ (~overlapped => next.time = trainings)
  PROVE  ModelInv'
PROOF
<1>1. ModelType'
  BY DEF ModelInv, ModelType
<1>2. \A u \in Trainers : trainer'[u] = IF u = t THEN next ELSE trainer[u]
  BY DEF ModelInv, ModelType
<1>3. AloneInv'
  BY <1>2 DEF ModelInv, AloneInv
<1>4. TimeInv'
  BY <1>2 DEF ModelInv, ModelType, TimeInv
<1>5. CreateInv'
  BY <1>2 DEF ModelInv, CreateInv
<1>6. HiddenInv'
  BY DEF ModelInv, HiddenInv
<1>7. OneInv'
  BY <1>2 DEF ModelInv, OneInv
<1>8. QED
  BY <1>1, <1>3, <1>4, <1>5, <1>6, <1>7 DEF ModelInv

(* A training begins: the clock goes on, and it may be one of several. *)
LEMMA TrainKeeps ==
  ASSUME ModelInv, NEW t \in Trainers, Models!train(t)
  PROVE  ModelInv'
PROOF
<1>1. PICK base \in Spellings, left \in {{Models!Global}} \cup (SUBSET Segments \ {{}}) :
        trainer' = [trainer EXCEPT ![t] = [step |-> "fit", base |-> base, left |-> left, now |-> Models!Global, time |-> 0, saved |-> 0,
                      told |-> IF left = {Models!Global} THEN {} ELSE Models!get_active_model(Models!Name(base, Models!Global))]]
  BY DEF Models!train
<1>2. PICK told : told = IF left = {Models!Global} THEN {} ELSE Models!get_active_model(Models!Name(base, Models!Global))
  OBVIOUS
<1>3. told \in SUBSET Records
  BY <1>2 DEF ModelInv, ModelType, Models!get_active_model, Models!Latest, Models!Active
<1>4. PICK next : next = [step |-> "fit", base |-> base, left |-> left, now |-> Models!Global, time |-> 0, saved |-> 0, told |-> told]
  OBVIOUS
<1>5. next \in Trainings /\ next.step = "fit"
  BY <1>3, <1>4 DEF Trainings, Of
<1>6. trainer' = [trainer EXCEPT ![t] = next] /\ UNCHANGED <<models, hidden, created, lost>> /\ trainings' = trainings + 1
      /\ trainer[t] = Models!Idle /\ (overlapped' <=> overlapped \/ \E o \in Trainers \ {t} : trainer[o] # Models!Idle)
      /\ overlapped' \in BOOLEAN
  BY <1>1, <1>2, <1>4 DEF ModelInv, ModelType, Models!train
<1>7. \A u \in Trainers : trainer'[u] = IF u = t THEN next ELSE trainer[u]
  BY <1>6 DEF ModelInv, ModelType
<1>8. ModelType'
  BY <1>5, <1>6 DEF ModelInv, ModelType
<1>9. ~overlapped' => ~overlapped /\ \A u \in Trainers \ {t} : trainer[u] = Models!Idle
  BY <1>6
<1>10. AloneInv'
  BY <1>7, <1>9 DEF AloneInv
<1>11. TimeInv'
  <2>1. \A r \in models : r.time \in Nat
    BY DEF ModelInv, ModelType, Records
  <2>2. \A r \in models' : r.time <= trainings'
    BY <1>6, <2>1 DEF ModelInv, ModelType, TimeInv
  <2>3. \A u \in Trainers : trainer[u].step \in InSave => trainer[u].time \in Nat
    BY DEF ModelInv, ModelType, Models!Idle, Trainings, InSave
  <2>4. \A u \in Trainers : trainer'[u].step \in InSave => trainer'[u].time <= trainings'
    BY <1>5, <1>6, <1>7, <2>3 DEF ModelInv, ModelType, TimeInv, InSave
  <2>5. ~overlapped' => \A u \in Trainers : trainer'[u].step \notin InSave
    BY <1>5, <1>7, <1>9 DEF Models!Idle, InSave
  <2>6. QED
    BY <2>2, <2>4, <2>5 DEF TimeInv
<1>12. HiddenInv'
  BY <1>6 DEF ModelInv, HiddenInv
<1>13. OneInv'
  BY <1>5, <1>6, <1>7, <1>9 DEF ModelInv, OneInv
<1>14. CreateInv'
  BY <1>5, <1>6, <1>7, <1>9 DEF ModelInv, CreateInv
<1>15. QED
  BY <1>8, <1>10, <1>11, <1>12, <1>13, <1>14 DEF ModelInv

(* What a trainer does to its own state, apart from the table. *)
LEMMA FitKeeps ==
  ASSUME ModelInv, NEW t \in Trainers, Models!Fit(t) \/ Models!Fail(t) \/ Models!_report_training_summary(t)
  PROVE  ModelInv'
PROOF
<1>1. PICK b : b = trainer[t]
  OBVIOUS
<1>2. b \in Trainings /\ b # Models!Idle
  <2>1. b.step \in {"fit"} \cup InSave
    BY <1>1 DEF Models!Fit, Models!Fail, Models!_report_training_summary, InSave
  <2>2. QED
    BY <1>1, <2>1 DEF ModelInv, ModelType, Models!Idle, InSave
<1>3. UNCHANGED <<models, trainings, hidden, overlapped, created, lost>>
  BY DEF Models!Fit, Models!Fail, Models!_report_training_summary
<1>4. trainings \in Nat /\ trainer \in [Trainers -> {Models!Idle} \cup Trainings]
  BY DEF ModelInv, ModelType
<1>5. CASE Models!Fit(t)
  <2>1. PICK of \in b.left :
          \/ trainer' = [trainer EXCEPT ![t].step = "save", ![t].now = of, ![t].time = trainings, ![t].left = @ \ {of}]
          \/ trainer' = [trainer EXCEPT ![t].left = @ \ {of}]
    BY <1>1, <1>5 DEF Models!Fit
  <2>2. b.step = "fit"
    BY <1>1, <1>5 DEF Models!Fit
  <2>3. CASE trainer' = [trainer EXCEPT ![t].step = "save", ![t].now = of, ![t].time = trainings, ![t].left = @ \ {of}]
    <3>1. PICK next : next = [b EXCEPT !.step = "save", !.now = of, !.time = trainings, !.left = b.left \ {of}]
      OBVIOUS
    <3>2. trainer' = [trainer EXCEPT ![t] = next]
      BY <1>1, <1>4, <2>3, <3>1
    <3>3. of \in Of /\ b.left \ {of} \in SUBSET Of
      BY <1>2, <2>1 DEF Trainings
    <3>4. next \in Trainings /\ next.step = "save" /\ next.time = trainings
      BY <1>2, <1>4, <3>1, <3>3 DEF Trainings, InSave
    <3>5. trainings <= trainings
      BY <1>4
    <3>6. QED
      BY <3>5, <1>1, <1>2, <1>3, <3>2, <3>4, TrainerMoves
  <2>4. CASE trainer' = [trainer EXCEPT ![t].left = @ \ {of}]
    <3>1. PICK next : next = [b EXCEPT !.left = b.left \ {of}]
      OBVIOUS
    <3>2. trainer' = [trainer EXCEPT ![t] = next]
      BY <1>1, <1>4, <2>4, <3>1
    <3>3. b.left \ {of} \in SUBSET Of
      BY <1>2, <2>1 DEF Trainings
    <3>4. next \in Trainings /\ next.step = "fit"
      BY <1>2, <2>2, <3>1, <3>3 DEF Trainings
    <3>5. QED
      BY <1>1, <1>2, <1>3, <3>2, <3>4, TrainerMoves DEF InSave
  <2>5. QED
    BY <2>1, <2>3, <2>4
<1>6. CASE trainer' = [trainer EXCEPT ![t] = Models!Idle]
  <2>1. Models!Idle.step = "idle"
    BY DEF Models!Idle
  <2>2. QED
    BY <1>1, <1>2, <1>3, <1>6, <2>1, TrainerMoves DEF InSave
<1>7. CASE trainer' = [trainer EXCEPT ![t].step = "fit"]
  <2>1. PICK next : next = [b EXCEPT !.step = "fit"]
    OBVIOUS
  <2>2. trainer' = [trainer EXCEPT ![t] = next]
    BY <1>1, <1>4, <1>7, <2>1
  <2>3. next \in Trainings /\ next.step = "fit"
    BY <1>2, <2>1 DEF Trainings
  <2>4. QED
    BY <1>1, <1>2, <1>3, <2>2, <2>3, TrainerMoves DEF InSave
<1>8. QED
  BY <1>5, <1>6, <1>7 DEF Models!Fail, Models!_report_training_summary

(* A save asks for the table. *)
LEMMA BeginSaveKeeps ==
  ASSUME ModelInv, NEW t \in Trainers, Models!save_model(t)
  PROVE  ModelInv'
PROOF
<1>1. PICK b : b = trainer[t]
  OBVIOUS
<1>2. PICK to \in {"archive", "create"} : to = IF created THEN "archive" ELSE "create"
  BY Zenon
<1>3. /\ b.step = "save" /\ UNCHANGED <<models, trainings, hidden, overlapped, created, lost>>
      /\ trainer' = [trainer EXCEPT ![t].step = to]
  <2>1. trainer' = [trainer EXCEPT ![t].step = IF created THEN "archive" ELSE "create"]
    BY Zenon DEF Models!save_model
  <2>2. trainer' = [trainer EXCEPT ![t].step = to]
    BY <1>2, <2>1, Zenon
  <2>3. b.step = "save" /\ UNCHANGED <<models, trainings, hidden, overlapped, created, lost>>
    BY <1>1, Zenon DEF Models!save_model
  <2>4. QED
    BY <2>2, <2>3, Zenon
<1>4. b \in Trainings /\ b # Models!Idle /\ b.step \in InSave
  BY <1>1, <1>3 DEF ModelInv, ModelType, Models!Idle, InSave
<1>5. PICK next : next = [b EXCEPT !.step = to]
  OBVIOUS
<1>6. trainer' = [trainer EXCEPT ![t] = next]
  BY <1>1, <1>3, <1>5 DEF ModelInv, ModelType
<1>7. next \in Trainings /\ next.step = to /\ next.time = b.time
  BY <1>2, <1>4, <1>5 DEF Trainings, InSave
<1>8. b.time <= trainings /\ (~overlapped => b.time = trainings)
  BY <1>1, <1>4 DEF ModelInv, TimeInv
<1>9. QED
  <2>1. (to = "create" => ~created) /\ (to = "archive" => created)
    BY <1>2, Zenon
  <2>2. /\ next \in {Models!Idle} \cup Trainings /\ trainer[t] # Models!Idle
        /\ next.step # "append" /\ (next.step = "create" => ~created) /\ (next.step = "archive" => created)
    BY <1>1, <1>2, <1>4, <1>7, <2>1, Zenon
  <2>3. next.step \in InSave => next.time <= trainings /\ (~overlapped => next.time = trainings)
    BY <1>7, <1>8
  <2>4. QED
    BY <1>3, <1>6, <2>2, <2>3, TrainerMoves, Zenon

(* The active model of the name is archived: until the next is there, it is
   hidden. *)
LEMMA ArchiveKeeps ==
  ASSUME ModelInv, NEW t \in Trainers, Models!_archive_previous(t)
  PROVE  ModelInv'
PROOF
<1>1. PICK b : b = trainer[t]
  OBVIOUS
<1>2. b \in Trainings /\ b.step = "archive" /\ b.now \in Of /\ b.base \in Spellings
  <2>1. b.step = "archive"
    BY <1>1 DEF Models!_archive_previous
  <2>2. b \in Trainings
    BY <1>1, <2>1 DEF ModelInv, ModelType, Models!Idle
  <2>3. QED
    BY <2>1, <2>2 DEF Trainings
<1>3. PICK name : name = [base |-> b.base, of |-> b.now]
  OBVIOUS
<1>4. name \in ModelNames /\ name.of = b.now
  BY <1>2, <1>3 DEF ModelNames
<1>5. PICK Kept : Kept = [r \in Records |-> IF r.status = "active" /\ r.name.of = name.of THEN [r EXCEPT !.status = "archived"] ELSE r]
  OBVIOUS
<1>6. \A r \in Records : Kept[r] \in Records /\ Kept[r].name = r.name /\ Kept[r].time = r.time
                         /\ (Kept[r].status = "active" <=> r.status = "active" /\ r.name.of # name.of)
                         /\ (Kept[r].status = "active" => Kept[r] = r)
  BY <1>5 DEF Records
<1>7. models \in SUBSET Records /\ trainer \in [Trainers -> {Models!Idle} \cup Trainings] /\ trainings \in Nat
  BY DEF ModelInv, ModelType
<1>8. models' = {Kept[r] : r \in models}
  <2>1. Models!Record(t).name = name
    BY <1>1, <1>3 DEF Models!Record, Models!Name
  <2>2. models' = {IF r.status = "active" /\ r.name.of = name.of THEN [r EXCEPT !.status = "archived"] ELSE r : r \in models}
    BY <2>1 DEF Models!_archive_previous, Models!Replaced, Models!SameName
  <2>3. QED
    BY <1>5, <1>7, <2>2
<1>9. hidden' = hidden \cup {name} /\ UNCHANGED <<trainings, overlapped, created, lost>>
  BY <1>1, <1>3 DEF Models!_archive_previous, Models!Record, Models!Name
<1>10. PICK next : next = [b EXCEPT !.step = "append"]
  OBVIOUS
<1>11. next \in Trainings /\ next.step = "append" /\ next.now = b.now /\ next.time = b.time
  BY <1>2, <1>10 DEF Trainings, InSave
<1>12. trainer' = [trainer EXCEPT ![t] = next]
  BY <1>1, <1>7, <1>10 DEF Models!_archive_previous
<1>13. \A u \in Trainers : trainer'[u] = IF u = t THEN next ELSE trainer[u]
  BY <1>7, <1>12
<1>14. ModelType'
  BY <1>4, <1>6, <1>7, <1>8, <1>9, <1>11, <1>12 DEF ModelInv, ModelType
<1>15. b # Models!Idle
  BY <1>2 DEF Models!Idle
<1>16. AloneInv'
  BY <1>1, <1>9, <1>13, <1>15 DEF ModelInv, AloneInv
<1>17. TimeInv'
  <2>1. \A r \in models' : r.time <= trainings'
    BY <1>6, <1>7, <1>8, <1>9 DEF ModelInv, TimeInv
  <2>2. QED
    BY <1>1, <1>2, <1>9, <1>11, <1>13, <2>1 DEF ModelInv, TimeInv, InSave
<1>18. HiddenInv'
  <2> SUFFICES ASSUME NEW r \in models'
               PROVE  \/ \E q \in models' : q.name.of = r.name.of /\ q.status = "active"
                      \/ \E n \in hidden' : n.of = r.name.of
                      \/ \E l \in lost : l.name.of = r.name.of
    BY <1>9 DEF HiddenInv
  <2>1. PICK o \in models : r = Kept[o]
    BY <1>8
  <2>2. CASE o.name.of = name.of
    BY <1>6, <1>7, <1>9, <2>1, <2>2
  <2>3. CASE o.name.of # name.of
    <3>1. CASE \E n \in hidden : n.of = o.name.of
      BY <1>6, <1>7, <1>9, <2>1, <3>1
    <3>2. ASSUME NEW q \in models, q.name.of = o.name.of, q.status = "active"
          PROVE  \E p \in models' : p.name.of = r.name.of /\ p.status = "active"
      BY <1>6, <1>7, <1>8, <2>1, <2>3, <3>2
    <3>3. CASE \E l \in lost : l.name.of = o.name.of
      BY <1>6, <1>7, <2>1, <3>3
    <3>4. QED
      BY <3>1, <3>2, <3>3 DEF ModelInv, HiddenInv
  <2>4. QED
    BY <2>2, <2>3
<1>19. OneInv'
  <2> SUFFICES ASSUME ~overlapped
               PROVE  /\ \A q, r \in models' : q.status = "active" /\ r.name.of = q.name.of => r.time <= q.time /\ (r.status = "active" => r = q)
                      /\ \A u \in Trainers : trainer'[u].step = "append" => \A r \in models' : r.name.of = trainer'[u].now => r.status # "active"
    BY <1>9 DEF OneInv
  <2>1. ASSUME NEW q \in models', NEW r \in models', q.status = "active", r.name.of = q.name.of
        PROVE  r.time <= q.time /\ (r.status = "active" => r = q)
    <3>1. PICK o \in models, p \in models : q = Kept[o] /\ r = Kept[p]
      BY <1>8
    <3>2. o.status = "active" /\ p.name.of = o.name.of /\ r.time = p.time /\ q = o /\ (r.status = "active" => p.status = "active" /\ r = p)
      BY <1>6, <1>7, <2>1, <3>1
    <3>3. QED
      BY <3>1, <3>2 DEF ModelInv, OneInv
  <2>2. ASSUME NEW u \in Trainers, trainer'[u].step = "append", NEW r \in models', r.name.of = trainer'[u].now
        PROVE  r.status # "active"
    <3>1. u = t
      BY <1>1, <1>13, <1>15, <2>2 DEF ModelInv, AloneInv, Models!Idle
    <3>2. r.name.of = name.of
      BY <1>4, <1>11, <1>13, <2>2, <3>1
    <3>3. QED
      BY <1>6, <1>7, <1>8, <3>2
  <2>3. QED
    BY <2>1, <2>2
<1>20. CreateInv'
  BY <1>1, <1>2, <1>8, <1>9, <1>11, <1>13 DEF ModelInv, CreateInv
<1>21. QED
  BY <1>14, <1>16, <1>17, <1>18, <1>19, <1>20 DEF ModelInv

(* The table is created: over nothing, unless trainings overlapped. *)
LEMMA CreateKeeps ==
  ASSUME ModelInv, NEW t \in Trainers, Models!_create_table(t)
  PROVE  ModelInv'
PROOF
<1>1. PICK b : b = trainer[t]
  OBVIOUS
<1>2. b \in Trainings /\ b.step = "create" /\ b # Models!Idle
  <2>1. b.step = "create"
    BY <1>1 DEF Models!_create_table
  <2>2. QED
    BY <1>1, <2>1 DEF ModelInv, ModelType, Models!Idle
<1>3. PICK next : next = [b EXCEPT !.step = "append"]
  OBVIOUS
<1>4. next \in Trainings /\ next.step = "append" /\ next.time = b.time
  BY <1>2, <1>3 DEF Trainings, InSave
<1>5. /\ trainer' = [trainer EXCEPT ![t] = next] /\ created' = TRUE /\ models' = {} /\ lost' = lost \cup models
      /\ UNCHANGED <<trainings, hidden, overlapped>>
  BY <1>1, <1>3 DEF ModelInv, ModelType, Models!_create_table
<1>6. \A u \in Trainers : trainer'[u] = IF u = t THEN next ELSE trainer[u]
  BY <1>5 DEF ModelInv, ModelType
<1>7. ModelType'
  BY <1>4, <1>5 DEF ModelInv, ModelType
<1>8. AloneInv'
  BY <1>1, <1>2, <1>5, <1>6 DEF ModelInv, AloneInv
<1>9. TimeInv'
  BY <1>1, <1>2, <1>4, <1>5, <1>6 DEF ModelInv, TimeInv, InSave
<1>10. ~overlapped => /\ lost' = {}
                      /\ \A u \in Trainers : trainer'[u].step # "create"
  <2>1. SUFFICES ASSUME ~overlapped
                 PROVE  lost' = {} /\ \A u \in Trainers : trainer'[u].step # "create"
    OBVIOUS
  <2>2. ~created /\ models = {} /\ lost = {}
    BY <1>1, <1>2, <2>1 DEF ModelInv, CreateInv
  <2>3. \A u \in Trainers : u # t => trainer[u] = Models!Idle
    BY <1>1, <1>2, <2>1 DEF ModelInv, AloneInv
  <2>4. QED
    BY <1>4, <1>5, <1>6, <2>2, <2>3 DEF Models!Idle
<1>11. CreateInv'
  BY <1>5, <1>10 DEF CreateInv
<1>12. HiddenInv' /\ OneInv'
  BY <1>5 DEF HiddenInv, OneInv
<1>13. QED
  BY <1>7, <1>8, <1>9, <1>11, <1>12 DEF ModelInv

(* The new model is the newest, and nothing of its name is hidden any more. *)
LEMMA AppendKeeps ==
  ASSUME ModelInv, NEW t \in Trainers, Models!AppendRecord(t)
  PROVE  ModelInv'
PROOF
<1>1. PICK b : b = trainer[t]
  OBVIOUS
<1>2. b \in Trainings /\ b.step = "append" /\ b.now \in Of /\ b.base \in Spellings /\ b.time \in Nat /\ b.saved \in Nat
  <2>1. b.step = "append"
    BY <1>1 DEF Models!AppendRecord
  <2>2. b \in Trainings
    BY <1>1, <2>1 DEF ModelInv, ModelType, Models!Idle
  <2>3. QED
    BY <2>1, <2>2 DEF Trainings
<1>3. PICK new : new = [name |-> [base |-> b.base, of |-> b.now], time |-> b.time, status |-> "active"]
  OBVIOUS
<1>4. new \in Records /\ new.name.of = b.now /\ new.time = b.time /\ new.status = "active"
  BY <1>2, <1>3 DEF Records, ModelNames
<1>5. models' = models \cup {new} /\ hidden' = {n \in hidden : n.of # b.now} /\ UNCHANGED <<trainings, overlapped, created, lost>>
  BY <1>1, <1>3, <1>4 DEF Models!AppendRecord, Models!Record, Models!Name, Models!SameName
<1>6. models \in SUBSET Records /\ trainer \in [Trainers -> {Models!Idle} \cup Trainings] /\ trainings \in Nat /\ hidden \in SUBSET ModelNames
  BY DEF ModelInv, ModelType
<1>7. PICK next : next = [b EXCEPT !.step = "fit", !.saved = b.saved + 1]
  OBVIOUS
<1>8. next \in Trainings /\ next.step = "fit"
  <2>1. PICK n \in Nat : n = b.saved + 1
    BY <1>2
  <2>2. next = [b EXCEPT !.step = "fit", !.saved = n]
    BY <1>7, <2>1
  <2>3. QED
    BY <1>2, <2>2 DEF Trainings
<1>9. trainer' = [trainer EXCEPT ![t] = next]
  BY <1>1, <1>6, <1>7 DEF Models!AppendRecord
<1>10. \A u \in Trainers : trainer'[u] = IF u = t THEN next ELSE trainer[u]
  BY <1>6, <1>9
<1>11. ModelType'
  BY <1>4, <1>5, <1>6, <1>8, <1>9 DEF ModelInv, ModelType
<1>12. b # Models!Idle
  BY <1>2 DEF Models!Idle
<1>13. AloneInv'
  BY <1>1, <1>5, <1>10, <1>12 DEF ModelInv, AloneInv
<1>14. b.time <= trainings /\ (~overlapped => b.time = trainings)
  BY <1>1, <1>2 DEF ModelInv, TimeInv, InSave
<1>15. TimeInv'
  BY <1>4, <1>5, <1>8, <1>10, <1>14 DEF ModelInv, TimeInv, InSave
<1>16. HiddenInv'
  BY <1>4, <1>5 DEF ModelInv, HiddenInv
<1>17. OneInv'
  <2> SUFFICES ASSUME ~overlapped
               PROVE  /\ \A q, r \in models' : q.status = "active" /\ r.name.of = q.name.of => r.time <= q.time /\ (r.status = "active" => r = q)
                      /\ \A u \in Trainers : trainer'[u].step # "append"
    BY <1>5 DEF OneInv
  <2>1. \A u \in Trainers : trainer'[u].step # "append"
    BY <1>1, <1>8, <1>10, <1>12 DEF ModelInv, AloneInv, Models!Idle
  <2>2. \A r \in models : r.time <= new.time /\ (r.name.of = new.name.of => r.status # "active")
    BY <1>1, <1>2, <1>4, <1>14 DEF ModelInv, TimeInv, OneInv
  <2>3. new.time <= new.time
    BY <1>2, <1>4
  <2>4. QED
    BY <1>4, <1>5, <2>1, <2>2, <2>3 DEF ModelInv, OneInv
<1>18. CreateInv'
  BY <1>1, <1>2, <1>5, <1>8, <1>10 DEF ModelInv, CreateInv
<1>19. QED
  BY <1>11, <1>13, <1>15, <1>16, <1>17, <1>18 DEF ModelInv

(* At most one is at most one, whichever module counts. *)
LEMMA CountedAtMostOnce ==
  ASSUME NEW S, \A x, y \in S : x = y
  PROVE  Models!Cardinality(S) <= 1
PROOF
<1>1. Models!Cardinality(S) = Cardinality(S)
  BY Zenon DEF Models!Cardinality, Cardinality
<1>2. CASE S = {}
  BY <1>1, <1>2, FS_EmptySet
<1>3. CASE S # {}
  <2>1. PICK x \in S : S = {x}
    BY <1>3
  <2>2. Cardinality(S) = 1
    BY <2>1, FS_Singleton
  <2>3. QED
    BY <1>1, <2>2
<1>4. QED
  BY <1>2, <1>3

(* A model stays in use until its successor is: save_model, for any number of
   trainings at once, any names and segments, wherever a save breaks off; and
   only where trainings overlapped is a record lost. *)
THEOREM ModelsHaveSuccessors ==
  Models!modelsInit /\ [][Models!modelsNext]_(Models!modelsVars) => []Models!ModelsAreSucceeded
PROOF
<1>1. Models!modelsInit => ModelInv
  <2> SUFFICES ASSUME Models!modelsInit
               PROVE  ModelInv
    OBVIOUS
  <2>1. models = {} /\ trainings = 0 /\ hidden = {} /\ overlapped = FALSE /\ created = FALSE /\ lost = {} /\ trainer \in [Trainers -> {Models!Idle}]
    BY DEF Models!modelsInit
  <2>2. ModelType
    BY <2>1 DEF ModelType
  <2>3. \A t \in Trainers : trainer[t] = Models!Idle /\ trainer[t].step = "idle"
    BY <2>1 DEF Models!Idle
  <2>4. QED
    BY <2>1, <2>2, <2>3 DEF ModelInv, AloneInv, TimeInv, CreateInv, HiddenInv, OneInv, InSave
<1>2. ModelInv /\ [Models!modelsNext]_(Models!modelsVars) => ModelInv'
  <2> SUFFICES ASSUME ModelInv, [Models!modelsNext]_(Models!modelsVars)
               PROVE  ModelInv'
    OBVIOUS
  <2>1. CASE UNCHANGED Models!modelsVars
    BY <2>1 DEF ModelInv, ModelType, AloneInv, TimeInv, CreateInv, HiddenInv, OneInv, Models!modelsVars
  <2>2. QED
    BY <2>1, TrainKeeps, FitKeeps, BeginSaveKeeps, CreateKeeps, ArchiveKeeps, AppendKeeps DEF Models!modelsNext
<1>3. ModelInv => Models!ModelsAreSucceeded
  <2> SUFFICES ASSUME ModelInv, NEW r \in models
               PROVE  LET active == {q \in models : Models!SameName(q.name, r.name) /\ q.status = "active"}
                      IN /\ active = {} => \E n \in hidden \cup {l.name : l \in lost} : Models!SameName(n, r.name)
                         /\ ~overlapped => Models!Cardinality(active) <= 1 /\ \A q \in active : r.time <= q.time
    BY DEF Models!ModelsAreSucceeded, ModelInv, CreateInv
  <2> DEFINE active == {q \in models : Models!SameName(q.name, r.name) /\ q.status = "active"}
  <2>1. active = {} => \E n \in hidden \cup {l.name : l \in lost} : Models!SameName(n, r.name)
    BY DEF ModelInv, HiddenInv, Models!SameName
  <2>2. ASSUME ~overlapped PROVE (\A q \in active : r.time <= q.time) /\ \A q, p \in active : q = p
    BY <2>2 DEF ModelInv, OneInv, Models!SameName
  <2>3. ~overlapped => Models!Cardinality(active) <= 1
    BY <2>2, CountedAtMostOnce
  <2>4. QED
    BY <2>1, <2>2, <2>3
<1>4. QED
  BY <1>1, <1>2, <1>3, PTL

-----------------------------------------------------------------------------
(* EngineRuns: a pool of run configurations.  PoolInv follows every future from
   stage to stage: what it has written, and who fills its observation. *)

CONSTANTS Null, Slots, MaxParallelism, MaxBatches, MaxFailures
VARIABLES configs, observer, futures, queries, tables, events, measured, caller

Pool == INSTANCE EngineRuns WITH run <- futures, metrics <- measured

Stages == {"queued", "output", "quarantine", "observe", "wait", "metrics", "actions", "done", "failed"}
Over == {"done", "failed"}
Queries == [of : Slots, to : Slots \X {"output", "quarantine"}, batches : Nat, ended : BOOLEAN, raised : BOOLEAN]
Futures == [stage : Stages, cached : BOOLEAN, filled : BOOLEAN, listens : BOOLEAN, broke : BOOLEAN]

\* Configurations have their own input, tables and rules.
PoolConfigs ==
  /\ \A s \in Slots :
       /\ configs[s].input = s
       /\ configs[s].output \in {Null, <<s, "output">>} /\ configs[s].quarantine \in {Null, <<s, "quarantine">>}
       /\ \A t \in Slots : configs[s].checks = configs[t].checks => s = t
  /\ observer \in BOOLEAN

\* What is written goes where its configuration says.
PoolTables ==
  /\ \A w \in tables : w.to[1] = w.input
  /\ \A q \in queries : q \in Queries /\ q.to[1] = q.of

\* The table of a configuration that its metrics are about.
TargetOf(s) == IF configs[s].quarantine # Null THEN configs[s].quarantine ELSE configs[s].output
HasQuery(s, location) == \E q \in queries : q.of = s /\ q.to = location
HasTable(s, location) == \E w \in tables : w.to = location /\ w.input = s

\* Once a future has passed a table, it is written, or a query writes it.
Passed(s, f, location) ==
  location # Null => IF configs[s].stream THEN HasQuery(s, location) ELSE f.filled /\ HasTable(s, location)

Early == {"queued", "output", "quarantine"}

\* What future s may be: no query is started for it but early on.
Sound(s, f) ==
  /\ f.stage \in {"quarantine", "observe", "wait", "metrics", "actions"} => Passed(s, f, configs[s].output)
  /\ f.stage \in {"observe", "wait", "metrics", "actions"} => Passed(s, f, configs[s].quarantine)
  /\ f.stage \notin {"output", "quarantine"} => ~f.cached
  /\ f.stage \in {"wait", "metrics", "actions"} /\ configs[s].metrics /\ ~HasQuery(s, TargetOf(s)) /\ Pool!Observed(s) => f.filled
  /\ f.stage \in {"metrics", "actions"} => ~HasQuery(s, TargetOf(s)) /\ Pool!Observed(s)
  /\ f.listens => f.stage \notin Early /\ HasQuery(s, TargetOf(s))

\* Rows of metrics are of a batch that was written, or of the target of a stream.
OfBatch(r, s) ==
  /\ r = Pool!Row(s, [of |-> s, to |-> Null], 1) /\ ~HasQuery(s, TargetOf(s)) /\ futures[s].stage \notin Early
  /\ \A t \in {configs[s].output, configs[s].quarantine} \ {Null} : HasTable(s, t)
OfStream(r, s) ==
  /\ r = Pool!Row(s, [of |-> s, to |-> TargetOf(s)], r.batch) /\ HasQuery(s, TargetOf(s))
MeasuredInv == \A r \in measured : \E s \in Slots : OfBatch(r, s) \/ OfStream(r, s)

CallerInv ==
  /\ caller \in {"waits", "raised", "returned"}
  /\ caller # "waits" => (\A s \in Pool!Pooled : futures[s].stage \in Over)
                         /\ (caller = "raised" <=> \E s \in Pool!Pooled : futures[s].stage = "failed")

PoolInv ==
  /\ PoolConfigs /\ futures \in [Slots -> Futures] /\ PoolTables
  /\ (\A s \in Slots : Sound(s, futures[s])) /\ MeasuredInv /\ CallerInv

(* A future goes on: its queries and tables, and the metrics, stay or grow. *)
LEMMA FutureMoves ==
  ASSUME PoolInv, NEW s \in Slots, NEW f \in Futures, futures' = [futures EXCEPT ![s] = f],
         futures[s].stage \notin Over, futures[s].stage \notin Early => f.stage \notin Early,
         UNCHANGED <<configs, observer, caller>>, PoolTables',
         \A t \in Slots : \A l : HasTable(t, l) => HasTable(t, l)',
         \A t \in Slots : \A l : HasQuery(t, l) => HasQuery(t, l)',
         \A t \in Slots : \A l : HasQuery(t, l)' => HasQuery(t, l) \/ (t = s /\ futures[s].stage \in Early),
         Sound(s, f)', \A r \in measured' : r \in measured \/ OfBatch(r, s)'
  PROVE  PoolInv'
PROOF
<1>1. PoolConfigs' /\ futures' \in [Slots -> Futures]
  BY DEF PoolInv, PoolConfigs
<1>2. \A t \in Slots : futures'[t] = IF t = s THEN f ELSE futures[t]
  BY DEF PoolInv
<1>3. \A t \in Slots : TargetOf(t)' = TargetOf(t) /\ Pool!Observed(t)' = Pool!Observed(t)
  BY DEF TargetOf, Pool!Observed
<1>4. ASSUME NEW t \in Slots PROVE Sound(t, futures[t])'
  <2>1. CASE t = s
    BY <1>2, <2>1 DEF Sound, Passed
  <2>2. CASE t # s
    <3>1. PICK g : g = futures[t]
      OBVIOUS
    <3>2. Sound(t, g) /\ futures'[t] = g /\ g' = g
      BY <1>2, <2>2, <3>1 DEF PoolInv
    <3>3. \A l : HasQuery(t, l)' <=> HasQuery(t, l)
      BY <2>2
    <3>4. \A l : HasTable(t, l) => HasTable(t, l)'
      OBVIOUS
    <3>5. Passed(t, g, configs[t].output) => Passed(t, g, configs[t].output)'
      BY <3>3, <3>4 DEF Passed
    <3>6. Passed(t, g, configs[t].quarantine) => Passed(t, g, configs[t].quarantine)'
      BY <3>3, <3>4 DEF Passed
    <3>7. HasQuery(t, TargetOf(t))' <=> HasQuery(t, TargetOf(t))
      BY <1>3, <3>3
    <3>8. Sound(t, g)'
      BY <1>3, <3>2, <3>5, <3>6, <3>7 DEF Sound
    <3>9. QED
      BY <3>2, <3>8
  <2>3. QED
    BY <2>1, <2>2
<1>5. MeasuredInv'
  <2> SUFFICES ASSUME NEW r \in measured'
               PROVE  \E t \in Slots : OfBatch(r, t)' \/ OfStream(r, t)'
    BY DEF MeasuredInv
  <2>1. CASE r \in measured
    <3>1. PICK t \in Slots : OfBatch(r, t) \/ OfStream(r, t)
      BY <2>1 DEF PoolInv, MeasuredInv
    <3>2. Pool!Row(t, [of |-> t, to |-> Null], 1)' = Pool!Row(t, [of |-> t, to |-> Null], 1)
          /\ Pool!Row(t, [of |-> t, to |-> TargetOf(t)], r.batch)' = Pool!Row(t, [of |-> t, to |-> TargetOf(t)], r.batch)
      BY <1>3 DEF Pool!Row
    <3>3. CASE OfStream(r, t)
      BY <1>3, <3>2, <3>3 DEF OfStream
    <3>4. CASE OfBatch(r, t)
      <4>1. futures[t].stage \notin Early /\ futures'[t].stage \notin Early
        BY <1>2, <3>4 DEF OfBatch
      <4>2. ~HasQuery(t, TargetOf(t))'
        BY <1>3, <3>4, <4>1 DEF OfBatch
      <4>3. \A l \in {configs[t].output, configs[t].quarantine} \ {Null} : HasTable(t, l)'
        BY <3>4 DEF OfBatch
      <4>4. OfBatch(r, t)'
        BY <3>2, <3>4, <4>1, <4>2, <4>3 DEF OfBatch
      <4>5. QED
        BY <4>4
    <3>5. QED
      BY <3>1, <3>3, <3>4
  <2>2. QED
    BY <2>1
<1>6. CallerInv'
  <2>1. Pool!Pooled' = Pool!Pooled
    BY DEF Pool!Pooled
  <2>2. caller # "waits" => s \notin Pool!Pooled
    BY DEF PoolInv, CallerInv
  <2>3. caller # "waits" => \A t \in Pool!Pooled : futures'[t] = futures[t]
    BY <1>2, <2>2 DEF Pool!Pooled
  <2>4. QED
    BY <2>1, <2>3 DEF PoolInv, CallerInv
<1>7. QED
  BY <1>1, <1>4, <1>5, <1>6 DEF PoolInv

(* The rest of the system goes on. *)
LEMMA FuturesStay ==
  ASSUME PoolInv, UNCHANGED <<configs, observer, futures>>, PoolTables', CallerInv',
         \A t \in Slots : \A l : HasTable(t, l) => HasTable(t, l)',
         \A t \in Slots : \A l : HasQuery(t, l)' <=> HasQuery(t, l),
         \A r \in measured' : r \in measured \/ \E s \in Slots : OfStream(r, s)
  PROVE  PoolInv'
PROOF
<1>1. PoolConfigs' /\ futures' \in [Slots -> Futures]
  BY DEF PoolInv, PoolConfigs
<1>2. \A t \in Slots : TargetOf(t)' = TargetOf(t) /\ Pool!Observed(t)' = Pool!Observed(t)
  BY DEF TargetOf, Pool!Observed
<1>3. \A t \in Slots : HasQuery(t, TargetOf(t))' <=> HasQuery(t, TargetOf(t))
  BY <1>2
<1>4. ASSUME NEW t \in Slots PROVE Sound(t, futures[t])'
  <2>1. Passed(t, futures[t], configs[t].output) => Passed(t, futures[t], configs[t].output)'
    BY DEF Passed
  <2>2. Passed(t, futures[t], configs[t].quarantine) => Passed(t, futures[t], configs[t].quarantine)'
    BY DEF Passed
  <2>3. QED
    BY <1>2, <1>3, <2>1, <2>2 DEF PoolInv, Sound
<1>5. MeasuredInv'
  <2> SUFFICES ASSUME NEW r \in measured'
               PROVE  \E t \in Slots : OfBatch(r, t)' \/ OfStream(r, t)'
    BY DEF MeasuredInv
  <2>1. PICK t \in Slots : OfBatch(r, t) \/ OfStream(r, t)
    BY DEF PoolInv, MeasuredInv
  <2>2. Pool!Row(t, [of |-> t, to |-> Null], 1)' = Pool!Row(t, [of |-> t, to |-> Null], 1)
        /\ Pool!Row(t, [of |-> t, to |-> TargetOf(t)], r.batch)' = Pool!Row(t, [of |-> t, to |-> TargetOf(t)], r.batch)
    BY <1>2 DEF Pool!Row
  <2>3. CASE OfStream(r, t)
    BY <1>3, <2>2, <2>3 DEF OfStream
  <2>4. CASE OfBatch(r, t)
    <3>1. \A l \in {configs[t].output, configs[t].quarantine} \ {Null} : HasTable(t, l)'
      BY <2>4 DEF OfBatch
    <3>2. OfBatch(r, t)'
      BY <1>3, <2>2, <2>4, <3>1 DEF OfBatch
    <3>3. QED
      BY <3>2
  <2>5. QED
    BY <2>1, <2>3, <2>4
<1>6. QED
  BY <1>1, <1>4, <1>5 DEF PoolInv

(* A future's stage and marks, once it has begun. *)
LEMMA Begun ==
  ASSUME PoolInv, NEW s \in Slots
  PROVE  /\ futures[s] \in Futures /\ Sound(s, futures[s]) /\ PoolConfigs /\ PoolTables /\ MeasuredInv /\ CallerInv
         /\ futures \in [Slots -> Futures] /\ configs[s].input = s
PROOF
<1>1. QED
  BY DEF PoolInv, PoolConfigs

(* A table is written, or a query is started that writes it. *)
LEMMA SaveMoves ==
  ASSUME PoolInv, NEW s \in Slots, NEW l, NEW f \in Futures, NEW b \in Futures, b = futures[s], futures' = [futures EXCEPT ![s] = f],
         \/ b.stage = "output" /\ f.stage = "quarantine" /\ l = configs[s].output
         \/ b.stage = "quarantine" /\ f.stage = "observe" /\ l = configs[s].quarantine /\ ~f.cached,
         f.listens = b.listens,
         UNCHANGED <<configs, observer, measured, caller>>,
         \/ l = Null /\ f.filled = b.filled /\ UNCHANGED <<queries, tables>>
         \/ l # Null /\ configs[s].stream /\ f.filled = b.filled /\ UNCHANGED tables
            /\ queries' = queries \cup {[of |-> s, to |-> l, batches |-> 0, ended |-> FALSE, raised |-> FALSE]}
         \/ l # Null /\ ~configs[s].stream /\ f.filled = TRUE /\ UNCHANGED queries
            /\ tables' = tables \cup {[to |-> l, input |-> configs[s].input, batch |-> 1]}
  PROVE  PoolInv'
PROOF
<1>1. Sound(s, b) /\ PoolConfigs /\ PoolTables /\ configs[s].input = s
  BY Begun
<1>2. l # Null => l[1] = s /\ l \in Slots \X {"output", "quarantine"}
  BY <1>1 DEF PoolConfigs
<1>3. PoolTables'
  <2>1. \A w \in tables' : w \in tables \/ (l # Null /\ w = [to |-> l, input |-> s, batch |-> 1])
    BY <1>1
  <2>2. \A q \in queries' : q \in queries \/ (l # Null /\ q = [of |-> s, to |-> l, batches |-> 0, ended |-> FALSE, raised |-> FALSE])
    OBVIOUS
  <2>3. \A q \in queries' : q \in Queries /\ q.to[1] = q.of
    <3>1. PICK n : n = [of |-> s, to |-> l, batches |-> 0, ended |-> FALSE, raised |-> FALSE]
      OBVIOUS
    <3>2. l # Null => n \in Queries /\ n.to[1] = n.of
      BY <1>2, <3>1 DEF Queries
    <3>3. QED
      BY <1>1, <2>2, <3>1, <3>2 DEF PoolTables
  <2>4. QED
    BY <1>1, <1>2, <2>1, <2>3 DEF PoolTables
<1>4. \A t \in Slots : \A k : HasTable(t, k) => HasTable(t, k)'
  BY DEF HasTable
<1>5. \A t \in Slots : \A k : HasQuery(t, k) => HasQuery(t, k)'
  BY DEF HasQuery
<1>6. \A t \in Slots : \A k : HasQuery(t, k)' => HasQuery(t, k) \/ t = s
  BY DEF HasQuery
<1>7. Passed(s, f, l)'
  <2>1. CASE l = Null
    BY <2>1 DEF Passed
  <2>2. CASE l # Null /\ configs[s].stream
    <3>1. PICK q : q = [of |-> s, to |-> l, batches |-> 0, ended |-> FALSE, raised |-> FALSE]
      OBVIOUS
    <3>2. q \in queries' /\ q.of = s /\ q.to = l
      BY <2>2, <3>1
    <3>3. HasQuery(s, l)'
      BY <3>2 DEF HasQuery
    <3>4. QED
      BY <2>2, <3>3 DEF Passed
  <2>3. CASE l # Null /\ ~configs[s].stream
    <3>1. PICK w : w = [to |-> l, input |-> s, batch |-> 1]
      OBVIOUS
    <3>2. w \in tables' /\ w.to = l /\ w.input = s
      BY <1>1, <2>3, <3>1
    <3>3. HasTable(s, l)'
      BY <3>2 DEF HasTable
    <3>4. QED
      BY <2>3, <3>3 DEF Passed
  <2>4. QED
    BY <2>1, <2>2, <2>3
<1>8. b.stage = "quarantine" => Passed(s, f, configs[s].output)'
  <2>1. b.filled => f.filled
    BY DEF Futures
  <2>2. QED
    BY <1>1, <1>4, <1>5, <2>1 DEF Sound, Passed
<1>9. ~f.listens
  BY <1>1 DEF Sound, Early
<1>10. Sound(s, f)'
  BY <1>7, <1>8, <1>9 DEF Sound, Passed
<1>11. futures[s].stage \in Early /\ futures[s].stage \notin Over
  BY DEF Early, Over
<1>12. QED
  BY <1>3, <1>4, <1>5, <1>6, <1>10, <1>11, FutureMoves

LEMMA SaveKeeps ==
  ASSUME PoolInv, NEW s \in Slots, Pool!SaveOutput(s) \/ Pool!SaveQuarantine(s)
  PROVE  PoolInv'
PROOF
<1>1. PICK b : b = futures[s]
  OBVIOUS
<1>2. b \in Futures /\ futures \in [Slots -> Futures]
  BY <1>1, Begun
<1>3. ASSUME NEW l, NEW next \in Stages, NEW c \in BOOLEAN,
             \/ b.stage = "output" /\ next = "quarantine" /\ l = configs[s].output
             \/ b.stage = "quarantine" /\ next = "observe" /\ l = configs[s].quarantine /\ ~c,
             UNCHANGED <<configs, observer, measured, caller>>,
             IF l = Null
             THEN futures' = [futures EXCEPT ![s].stage = next, ![s].cached = c] /\ UNCHANGED <<queries, tables>>
             ELSE IF configs[s].stream
             THEN /\ queries' = queries \cup {[of |-> s, to |-> l, batches |-> 0, ended |-> FALSE, raised |-> FALSE]}
                  /\ futures' = [futures EXCEPT ![s].stage = next, ![s].cached = c] /\ UNCHANGED tables
             ELSE /\ tables' = tables \cup {[to |-> l, input |-> configs[s].input, batch |-> 1]}
                  /\ futures' = [futures EXCEPT ![s].stage = next, ![s].cached = c, ![s].filled = TRUE] /\ UNCHANGED queries
      PROVE  PoolInv'
  <2>1. PICK f : f = [b EXCEPT !.stage = next, !.cached = c]
    OBVIOUS
  <2>2. PICK g : g = [b EXCEPT !.stage = next, !.cached = c, !.filled = TRUE]
    OBVIOUS
  <2>3. f \in Futures /\ f.stage = next /\ f.cached = c /\ f.filled = b.filled /\ f.listens = b.listens
    BY <1>2, <2>1 DEF Futures
  <2>4. g \in Futures /\ g.stage = next /\ g.cached = c /\ g.filled = TRUE /\ g.listens = b.listens
    BY <1>2, <2>2 DEF Futures
  <2>5. CASE l = Null
    <3>1. futures' = [futures EXCEPT ![s] = f] /\ UNCHANGED <<queries, tables>>
      BY <1>1, <1>2, <1>3, <2>1, <2>5
    <3>2. \/ b.stage = "output" /\ f.stage = "quarantine" /\ l = configs[s].output
          \/ b.stage = "quarantine" /\ f.stage = "observe" /\ l = configs[s].quarantine /\ ~f.cached
      BY <1>3, <2>3
    <3>3. UNCHANGED <<configs, observer, measured, caller>>
      BY <1>3
    <3>4. QED
      BY <1>1, <1>2, <2>3, <2>5, <3>1, <3>2, <3>3, SaveMoves
  <2>6. CASE l # Null /\ configs[s].stream
    <3>1. /\ futures' = [futures EXCEPT ![s] = f] /\ UNCHANGED tables
          /\ queries' = queries \cup {[of |-> s, to |-> l, batches |-> 0, ended |-> FALSE, raised |-> FALSE]}
      BY <1>1, <1>2, <1>3, <2>1, <2>6
    <3>2. QED
      BY <1>1, <1>2, <1>3, <2>3, <2>6, <3>1, SaveMoves
  <2>7. CASE l # Null /\ ~configs[s].stream
    <3>1. /\ futures' = [futures EXCEPT ![s] = g] /\ UNCHANGED queries
          /\ tables' = tables \cup {[to |-> l, input |-> configs[s].input, batch |-> 1]}
      BY <1>1, <1>2, <1>3, <2>2, <2>7
    <3>2. QED
      BY <1>1, <1>2, <1>3, <2>4, <2>7, <3>1, SaveMoves
  <2>8. QED
    BY <2>5, <2>6, <2>7
<1>4. CASE Pool!SaveOutput(s)
  <2>1. PICK l, c : l = configs[s].output /\ c = b.cached
    OBVIOUS
  <2>2. b.stage = "output" /\ c \in BOOLEAN /\ UNCHANGED <<configs, observer, measured, caller>>
    BY <1>1, <1>2, <1>4, <2>1 DEF Pool!SaveOutput, Pool!At, Futures
  <2>3. IF l = Null
        THEN futures' = [futures EXCEPT ![s].stage = "quarantine", ![s].cached = c] /\ UNCHANGED <<queries, tables>>
        ELSE IF configs[s].stream
        THEN /\ queries' = queries \cup {[of |-> s, to |-> l, batches |-> 0, ended |-> FALSE, raised |-> FALSE]}
             /\ futures' = [futures EXCEPT ![s].stage = "quarantine", ![s].cached = c] /\ UNCHANGED tables
        ELSE /\ tables' = tables \cup {[to |-> l, input |-> configs[s].input, batch |-> 1]}
             /\ futures' = [futures EXCEPT ![s].stage = "quarantine", ![s].cached = c, ![s].filled = TRUE] /\ UNCHANGED queries
    BY <1>1, <1>4, <2>1 DEF Pool!SaveOutput, Pool!SaveTo
  <2>4. QED
    BY <1>3, <2>1, <2>2, <2>3 DEF Stages
<1>5. CASE Pool!SaveQuarantine(s)
  <2>1. PICK l : l = configs[s].quarantine
    OBVIOUS
  <2>2. b.stage = "quarantine" /\ UNCHANGED <<configs, observer, measured, caller>>
    BY <1>1, <1>5 DEF Pool!SaveQuarantine, Pool!At
  <2>3. IF l = Null
        THEN futures' = [futures EXCEPT ![s].stage = "observe", ![s].cached = FALSE] /\ UNCHANGED <<queries, tables>>
        ELSE IF configs[s].stream
        THEN /\ queries' = queries \cup {[of |-> s, to |-> l, batches |-> 0, ended |-> FALSE, raised |-> FALSE]}
             /\ futures' = [futures EXCEPT ![s].stage = "observe", ![s].cached = FALSE] /\ UNCHANGED tables
        ELSE /\ tables' = tables \cup {[to |-> l, input |-> configs[s].input, batch |-> 1]}
             /\ futures' = [futures EXCEPT ![s].stage = "observe", ![s].cached = FALSE, ![s].filled = TRUE] /\ UNCHANGED queries
    BY <1>5, <2>1 DEF Pool!SaveQuarantine, Pool!SaveTo
  <2>4. QED
    BY <1>3, <2>1, <2>2, <2>3 DEF Stages
<1>6. QED
  BY <1>4, <1>5

(* A future goes on without a table or a query. *)
LEMMA StageMoves ==
  ASSUME PoolInv, NEW s \in Slots, NEW f \in Futures, NEW b \in Futures, b = futures[s], futures' = [futures EXCEPT ![s] = f],
         b.stage \notin Over, b.stage \notin Early => f.stage \notin Early,
         UNCHANGED <<configs, observer, queries, tables, caller>>, Sound(s, f),
         \A r \in measured' : r \in measured \/ OfBatch(r, s)'
  PROVE  PoolInv'
PROOF
<1>1. \A t \in Slots : \A l : HasTable(t, l)' = HasTable(t, l) /\ HasQuery(t, l)' = HasQuery(t, l)
  BY DEF HasTable, HasQuery
<1>2. Sound(s, f)'
  BY DEF Sound, Passed, HasTable, HasQuery, TargetOf, Pool!Observed
<1>3. PoolTables'
  BY Begun DEF PoolTables
<1>4. QED
  BY <1>1, <1>2, <1>3, FutureMoves

(* What a query is for. *)
LEMMA TargetIsQuery ==
  ASSUME NEW s \in Slots
  PROVE  Pool!Target(s) = {} <=> ~HasQuery(s, TargetOf(s))
PROOF
<1>1. QED
  BY DEF Pool!Target, HasQuery, TargetOf

LEMMA StartKeeps ==
  ASSUME PoolInv, NEW s \in Slots, Pool!Start(s) \/ Pool!SaveResults(s)
  PROVE  PoolInv'
PROOF
<1>1. PICK b : b = futures[s]
  OBVIOUS
<1>2. b \in Futures /\ futures \in [Slots -> Futures] /\ Sound(s, b)
  BY <1>1, Begun
<1>3. b.stage = "queued" /\ UNCHANGED <<configs, observer, queries, tables, measured, caller>>
  BY <1>1 DEF Pool!Start, Pool!SaveResults, Pool!At
<1>4. ~b.cached /\ ~b.listens
  BY <1>2, <1>3 DEF Sound, Early
<1>5. ASSUME NEW stage \in {"failed", "output"}, NEW c \in BOOLEAN, stage = "failed" => c = FALSE,
             futures' = [futures EXCEPT ![s].stage = stage, ![s].cached = c]
      PROVE  PoolInv'
  <2>1. PICK f : f = [b EXCEPT !.stage = stage, !.cached = c]
    OBVIOUS
  <2>2. f \in Futures /\ f.stage = stage /\ f.cached = c /\ ~f.listens
    BY <1>2, <1>4, <2>1 DEF Futures, Stages
  <2>3. futures' = [futures EXCEPT ![s] = f]
    BY <1>1, <1>2, <1>5, <2>1
  <2>4. Sound(s, f)
    BY <1>5, <2>2 DEF Sound
  <2>5. QED
    BY <1>1, <1>2, <1>3, <2>2, <2>3, <2>4, StageMoves DEF Early, Over
<1>6. b.cached = FALSE
  BY <1>2, <1>4 DEF Futures
<1>7. CASE Pool!Goes(s, "failed") \/ Pool!Goes(s, "output")
  <2>1. PICK stage \in {"failed", "output"} : futures' = [futures EXCEPT ![s].stage = stage]
    BY <1>7 DEF Pool!Goes
  <2>2. PICK f : f = [b EXCEPT !.stage = stage]
    OBVIOUS
  <2>3. f \in Futures /\ f.stage = stage /\ f.cached = FALSE /\ ~f.listens
    BY <1>2, <1>4, <1>6, <2>2 DEF Futures, Stages
  <2>4. futures' = [futures EXCEPT ![s] = f]
    BY <1>1, <1>2, <2>1, <2>2
  <2>5. Sound(s, f)
    BY <2>3 DEF Sound
  <2>6. QED
    BY <1>1, <1>2, <1>3, <2>3, <2>4, <2>5, StageMoves DEF Early, Over
<1>8. CASE futures' = [futures EXCEPT ![s].stage = "output", ![s].cached = Pool!Cached(s)]
  <2>1. PICK c : c = Pool!Cached(s)
    OBVIOUS
  <2>2. c \in BOOLEAN
    BY <2>1 DEF Pool!Cached
  <2>3. QED
    BY <1>5, <1>8, <2>1, <2>2
<1>9. QED
  BY <1>7, <1>8 DEF Pool!Start, Pool!SaveResults

(* A frame that nothing is written from is counted, so that somebody fills the
   observation a batch waits for. *)
LEMMA ObserveKeeps ==
  ASSUME PoolInv, NEW s \in Slots, Pool!Observe(s)
  PROVE  PoolInv'
PROOF
<1>1. PICK b : b = futures[s]
  OBVIOUS
<1>2. b \in Futures /\ futures \in [Slots -> Futures] /\ Sound(s, b) /\ PoolConfigs
  BY <1>1, Begun
<1>3. b.stage = "observe" /\ UNCHANGED <<configs, observer, queries, tables, measured, caller>>
  BY <1>1 DEF Pool!Observe, Pool!At
<1>4. PICK filled, listens : filled = Pool!Filled(s) /\ listens = (Pool!Observed(s) /\ (configs[s].metrics \/ configs[s].actions) /\ Pool!Target(s) # {})
  OBVIOUS
<1>5. listens \in BOOLEAN /\ (listens => HasQuery(s, TargetOf(s)))
  BY <1>4, TargetIsQuery
<1>6. filled \in BOOLEAN /\ (filled <=> b.filled \/ (configs[s].metrics /\ Pool!Observed(s) /\ configs[s].output = Null /\ configs[s].quarantine = Null))
  BY <1>1, <1>4 DEF Pool!Filled
<1>7. PICK f : f = [b EXCEPT !.stage = "wait", !.filled = filled, !.listens = listens]
  OBVIOUS
<1>8. f \in Futures /\ f.stage = "wait" /\ f.filled = filled /\ f.listens = listens /\ f.cached = b.cached
  BY <1>2, <1>5, <1>6, <1>7 DEF Futures, Stages
<1>9. futures' = [futures EXCEPT ![s] = f]
  BY <1>1, <1>2, <1>4, <1>7 DEF Pool!Observe
<1>10. Passed(s, b, configs[s].output) /\ Passed(s, b, configs[s].quarantine) /\ ~b.cached
  BY <1>2, <1>3 DEF Sound
<1>11. Passed(s, f, configs[s].output) /\ Passed(s, f, configs[s].quarantine)
  BY <1>6, <1>8, <1>10 DEF Passed
<1>12. configs[s].metrics /\ ~HasQuery(s, TargetOf(s)) /\ Pool!Observed(s) => f.filled
  BY <1>6, <1>8, <1>11 DEF Passed, TargetOf
<1>13. Sound(s, f)
  BY <1>5, <1>8, <1>10, <1>11, <1>12 DEF Sound, Early
<1>14. QED
  BY <1>1, <1>2, <1>3, <1>8, <1>9, <1>13, StageMoves DEF Early, Over

(* A future goes to another stage, nothing else. *)
LEMMA GoesOn ==
  ASSUME PoolInv, NEW s \in Slots, NEW stage \in {"metrics", "actions", "done", "failed"}, Pool!Goes(s, stage),
         futures[s].stage \in {"wait", "metrics", "actions"},
         stage = "metrics" => ~HasQuery(s, TargetOf(s)) /\ Pool!Observed(s),
         stage = "actions" => futures[s].stage = "metrics",
         UNCHANGED <<configs, observer, queries, tables, caller>>,
         \A r \in measured' : r \in measured \/ OfBatch(r, s)'
  PROVE  PoolInv'
PROOF
<1>1. PICK b : b = futures[s]
  OBVIOUS
<1>2. b \in Futures /\ futures \in [Slots -> Futures] /\ Sound(s, b)
  BY <1>1, Begun
<1>3. PICK f : f = [b EXCEPT !.stage = stage]
  OBVIOUS
<1>4. f \in Futures /\ f.stage = stage /\ f.filled = b.filled /\ f.listens = b.listens /\ f.cached = b.cached
  BY <1>2, <1>3 DEF Futures, Stages
<1>5. futures' = [futures EXCEPT ![s] = f]
  BY <1>1, <1>2, <1>3 DEF Pool!Goes
<1>6. Sound(s, f)
  BY <1>1, <1>2, <1>4 DEF Sound, Passed, Early
<1>7. QED
  BY <1>1, <1>2, <1>4, <1>5, <1>6, StageMoves DEF Early, Over

LEMMA WaitKeeps ==
  ASSUME PoolInv, NEW s \in Slots, Pool!Wait(s) \/ Pool!EvaluateActions(s)
  PROVE  PoolInv'
PROOF
<1>1. UNCHANGED <<configs, observer, queries, tables, measured, caller>> /\ futures[s].stage \in {"wait", "actions"}
  BY DEF Pool!Wait, Pool!EvaluateActions, Pool!At
<1>2. PICK stage \in {"metrics", "done", "failed"} :
        Pool!Goes(s, stage) /\ (stage = "metrics" => Pool!Target(s) = {} /\ Pool!Observed(s))
  BY DEF Pool!Wait, Pool!EvaluateActions
<1>3. QED
  BY <1>1, <1>2, TargetIsQuery, GoesOn

(* The metrics of a batch are saved after its tables. *)
LEMMA MetricsOfBatches ==
  ASSUME PoolInv, NEW s \in Slots, Pool!SaveMetrics(s)
  PROVE  PoolInv'
PROOF
<1>1. PICK b : b = futures[s]
  OBVIOUS
<1>2. b \in Futures /\ futures \in [Slots -> Futures] /\ Sound(s, b) /\ b.stage = "metrics"
  BY <1>1, Begun DEF Pool!SaveMetrics, Pool!At
<1>3. UNCHANGED <<configs, observer, queries, tables, caller>>
  BY DEF Pool!SaveMetrics
<1>4. PICK stage \in {"actions", "done"} : Pool!Goes(s, stage)
  BY DEF Pool!SaveMetrics
<1>5. ~HasQuery(s, TargetOf(s)) /\ Passed(s, b, configs[s].output) /\ Passed(s, b, configs[s].quarantine)
  BY <1>2 DEF Sound
<1>6. \A t \in {configs[s].output, configs[s].quarantine} \ {Null} : HasTable(s, t)
  BY <1>5 DEF Passed, TargetOf
<1>7. futures'[s].stage = stage
  BY <1>2, <1>4 DEF Pool!Goes, Futures
<1>8. ASSUME NEW r, r = Pool!Row(s, [of |-> s, to |-> Null], 1) PROVE OfBatch(r, s)'
  <2>1. r = Pool!Row(s, [of |-> s, to |-> Null], 1)'
    BY <1>3, <1>8 DEF Pool!Row
  <2>2. ~HasQuery(s, TargetOf(s))'
    BY <1>3, <1>5 DEF HasQuery, TargetOf
  <2>3. \A t \in {configs[s].output, configs[s].quarantine} \ {Null} : HasTable(s, t)'
    BY <1>3, <1>6 DEF HasTable
  <2>4. ({configs[s].output, configs[s].quarantine} \ {Null})' = {configs[s].output, configs[s].quarantine} \ {Null}
    BY <1>3
  <2>5. QED
    BY <1>7, <2>1, <2>2, <2>3, <2>4 DEF OfBatch, Early
<1>9. \A r \in measured' : r \in measured \/ r = Pool!Row(s, [of |-> s, to |-> Null], 1)
  BY DEF Pool!SaveMetrics
<1>10. \A r \in measured' : r \in measured \/ OfBatch(r, s)'
  BY <1>8, <1>9
<1>11. QED
  BY <1>1, <1>2, <1>3, <1>4, <1>10, GoesOn

LEMMA FailKeepsFutures ==
  ASSUME PoolInv, NEW s \in Slots, Pool!Fail(s)
  PROVE  PoolInv'
PROOF
<1>1. PICK b : b = futures[s]
  OBVIOUS
<1>2. b \in Futures /\ futures \in [Slots -> Futures] /\ Sound(s, b)
  BY <1>1, Begun
<1>3. b.stage \in {"output", "quarantine", "metrics"} /\ UNCHANGED <<configs, observer, queries, tables, measured, caller>>
  BY <1>1 DEF Pool!Fail
<1>4. PICK f : f = [b EXCEPT !.stage = "failed", !.broke = TRUE, !.cached = FALSE]
  OBVIOUS
<1>5. f \in Futures /\ f.stage = "failed" /\ f.filled = b.filled /\ f.listens = b.listens /\ f.cached = FALSE
  BY <1>2, <1>4 DEF Futures, Stages
<1>6. futures' = [futures EXCEPT ![s] = f]
  BY <1>1, <1>2, <1>4 DEF Pool!Fail, Pool!CachedAfterFailure
<1>7. Sound(s, f)
  BY <1>2, <1>3, <1>5 DEF Sound, Early
<1>8. QED
  BY <1>1, <1>2, <1>3, <1>5, <1>6, <1>7, StageMoves DEF Early, Over

(* A query goes on as the one it was. *)
LEMMA QueriesKeep ==
  ASSUME PoolInv, NEW q \in queries, Pool!MicroBatch(q) \/ Pool!QueryEnds(q) \/ Pool!QueryFails(q)
  PROVE  PoolInv'
PROOF
<1>1. PoolConfigs /\ PoolTables /\ MeasuredInv /\ CallerInv
  BY DEF PoolInv
<1>2. UNCHANGED <<configs, observer, futures, measured, caller>>
  BY DEF Pool!MicroBatch, Pool!QueryEnds, Pool!QueryFails
<1>3. PICK p \in Queries : queries' = (queries \ {q}) \cup {p} /\ p.of = q.of /\ p.to = q.to
  <2>1. q \in Queries
    BY <1>1 DEF PoolTables
  <2>2. CASE Pool!MicroBatch(q)
    <3>1. PICK n \in Nat : n = q.batches + 1
      BY <2>1 DEF Queries
    <3>2. PICK p : p = [q EXCEPT !.batches = n]
      OBVIOUS
    <3>3. p \in Queries /\ p.of = q.of /\ p.to = q.to
      BY <2>1, <3>2 DEF Queries
    <3>4. queries' = (queries \ {q}) \cup {p}
      BY <2>2, <3>1, <3>2 DEF Pool!MicroBatch
    <3>5. QED
      BY <3>3, <3>4
  <2>3. CASE Pool!QueryEnds(q)
    <3>1. PICK p : p = [q EXCEPT !.ended = TRUE]
      OBVIOUS
    <3>2. p \in Queries /\ p.of = q.of /\ p.to = q.to
      BY <2>1, <3>1 DEF Queries
    <3>3. QED
      BY <2>3, <3>1, <3>2 DEF Pool!QueryEnds
  <2>4. CASE Pool!QueryFails(q)
    <3>1. PICK p : p = [q EXCEPT !.ended = TRUE, !.raised = TRUE]
      OBVIOUS
    <3>2. p \in Queries /\ p.of = q.of /\ p.to = q.to
      BY <2>1, <3>1 DEF Queries
    <3>3. QED
      BY <2>4, <3>1, <3>2 DEF Pool!QueryFails
  <2>5. QED
    BY <2>2, <2>3, <2>4
<1>4. q.of \in Slots /\ q.to[1] = q.of /\ configs[q.of].input = q.of
  BY <1>1 DEF PoolConfigs, PoolTables, Queries
<1>5. \A w \in tables' : w \in tables \/ (w.to = q.to /\ w.input = q.of)
  BY <1>4 DEF Pool!MicroBatch, Pool!QueryEnds, Pool!QueryFails
<1>6. tables \subseteq tables'
  BY DEF Pool!MicroBatch, Pool!QueryEnds, Pool!QueryFails
<1>7. PoolTables'
  BY <1>1, <1>3, <1>4, <1>5 DEF PoolTables
<1>8. \A t \in Slots : \A l : HasTable(t, l) => HasTable(t, l)'
  BY <1>6 DEF HasTable
<1>9. \A t \in Slots : \A l : HasQuery(t, l)' <=> HasQuery(t, l)
  BY <1>3 DEF HasQuery
<1>10. CallerInv'
  BY <1>1, <1>2 DEF CallerInv, Pool!Pooled
<1>11. QED
  BY <1>2, <1>7, <1>8, <1>9, <1>10, FuturesStay

(* A listener takes the progress of its target query only. *)
LEMMA ProgressKeeps ==
  ASSUME PoolInv, Pool!Progress
  PROVE  PoolInv'
PROOF
<1>1. UNCHANGED <<configs, observer, futures, queries, tables, caller>>
  BY DEF Pool!Progress
<1>2. PICK e : e = Head(events)
  OBVIOUS
<1>3. measured' = measured \cup {Pool!Row(s, e.query, e.batch) : s \in {l \in Slots : futures[l].listens /\ configs[l].metrics /\ Pool!Concerns(l, e)}}
  BY <1>2 DEF Pool!Progress
<1>4. ASSUME NEW s \in Slots, Pool!Concerns(s, e) PROVE OfStream(Pool!Row(s, e.query, e.batch), s)
  <2>1. e.query.of = s /\ e.query.to = TargetOf(s) /\ HasQuery(s, TargetOf(s))
    BY <1>4 DEF Pool!Concerns, Pool!Target, TargetOf, HasQuery
  <2>2. Pool!Row(s, e.query, e.batch) = Pool!Row(s, [of |-> s, to |-> TargetOf(s)], e.batch)
    BY <2>1 DEF Pool!Row
  <2>3. Pool!Row(s, e.query, e.batch).batch = e.batch
    BY DEF Pool!Row
  <2>4. QED
    BY <2>1, <2>2, <2>3 DEF OfStream
<1>5. \A r \in measured' : r \in measured \/ \E s \in Slots : OfStream(r, s)
  BY <1>3, <1>4
<1>6. PoolTables' /\ CallerInv'
  BY <1>1 DEF PoolInv, PoolTables, CallerInv, Pool!Pooled
<1>7. \A t \in Slots : \A l : HasTable(t, l)' = HasTable(t, l) /\ HasQuery(t, l)' = HasQuery(t, l)
  BY <1>1 DEF HasTable, HasQuery
<1>8. QED
  BY <1>1, <1>5, <1>6, <1>7, FuturesStay

(* The caller learns of it when all have run. *)
LEMMA CallerReturns ==
  ASSUME PoolInv, Pool!Return
  PROVE  PoolInv'
PROOF
<1>1. UNCHANGED <<configs, observer, futures, queries, tables, measured>>
  BY DEF Pool!Return
<1>2. CallerInv'
  BY <1>1 DEF Pool!Return, Pool!Collected, CallerInv, Pool!At, Pool!Pooled, Over
<1>3. PoolTables'
  BY <1>1 DEF PoolInv, PoolTables
<1>4. \A t \in Slots : \A l : HasTable(t, l)' = HasTable(t, l) /\ HasQuery(t, l)' = HasQuery(t, l)
  BY <1>1 DEF HasTable, HasQuery
<1>5. QED
  BY <1>1, <1>2, <1>3, <1>4, FuturesStay

(* The configurations of a call: from a template, or given one by one. *)
LEMMA PoolBegins ==
  Pool!Init => PoolInv
PROOF
<1> SUFFICES ASSUME Pool!Init
             PROVE  PoolInv
  OBVIOUS
<1>1. PICK shape \in [Slots -> Pool!Shape], in_table \in BOOLEAN : configs = [s \in Slots |-> Pool!For(shape[s], s, in_table)]
  <2>1. ASSUME NEW one \in {x \in Pool!Shapes : ~x.given}, NEW in_table \in BOOLEAN, configs = Pool!FromTemplate(one, in_table)
        PROVE  \E shape \in [Slots -> Pool!Shape], n \in BOOLEAN : configs = [s \in Slots |-> Pool!For(shape[s], s, n)]
    <3>1. PICK w : w = Pool!WithOutput(one)
      OBVIOUS
    <3>2. w \in Pool!Shape
      BY <2>1, <3>1 DEF Pool!WithOutput, Pool!Shapes, Pool!Shape
    <3>3. PICK shape : shape = [s \in Slots |-> w]
      OBVIOUS
    <3>4. shape \in [Slots -> Pool!Shape]
      BY <3>2, <3>3
    <3>5. configs = [s \in Slots |-> Pool!For(shape[s], s, in_table)]
      BY <2>1, <3>1, <3>3 DEF Pool!FromTemplate
    <3>6. QED
      BY <3>4, <3>5
  <2>2. ASSUME NEW shape \in [Slots -> Pool!Shapes], configs = Pool!Explicit(shape)
        PROVE  \E d \in [Slots -> Pool!Shape], n \in BOOLEAN : configs = [s \in Slots |-> Pool!For(d[s], s, n)]
    <3>1. shape \in [Slots -> Pool!Shape]
      BY <2>2 DEF Pool!Shapes
    <3>2. configs = [s \in Slots |-> Pool!For(shape[s], s, TRUE)]
      BY <2>2 DEF Pool!Explicit
    <3>3. QED
      BY <3>1, <3>2
  <2>3. ASSUME NEW one \in {x \in Pool!Shapes : x.given}, NEW other \in Pool!Mixed, NEW first \in Slots,
               configs = Pool!Explicit([s \in Slots |-> IF s = first THEN one ELSE other])
        PROVE  \E d \in [Slots -> Pool!Shape], n \in BOOLEAN : configs = [s \in Slots |-> Pool!For(d[s], s, n)]
    <3>1. PICK shape : shape = [s \in Slots |-> IF s = first THEN one ELSE other]
      OBVIOUS
    <3>2. shape \in [Slots -> Pool!Shapes] /\ configs = Pool!Explicit(shape)
      BY <2>3, <3>1 DEF Pool!Mixed
    <3>3. QED
      BY <2>2, <3>2
  <2>4. ASSUME NEW choice \in [Slots -> Pool!Mixed], configs = Pool!Explicit(choice)
        PROVE  \E d \in [Slots -> Pool!Shape], n \in BOOLEAN : configs = [s \in Slots |-> Pool!For(d[s], s, n)]
    <3>1. choice \in [Slots -> Pool!Shapes]
      BY DEF Pool!Mixed
    <3>2. QED
      BY <2>2, <2>4, <3>1
  <2>5. QED
    BY <2>1, <2>3, <2>4 DEF Pool!Init
<1>2. PoolConfigs
  <2>1. ASSUME NEW s \in Slots
        PROVE  configs[s].input = s /\ configs[s].output \in {Null, <<s, "output">>} /\ configs[s].quarantine \in {Null, <<s, "quarantine">>}
    BY <1>1 DEF Pool!For
  <2>2. ASSUME NEW s \in Slots, NEW t \in Slots, configs[s].checks = configs[t].checks
        PROVE  s = t
    <3>1. Pool!ChecksOf(s, in_table) = Pool!ChecksOf(t, in_table)
      BY <1>1, <2>2 DEF Pool!For
    <3>2. CASE in_table
      <4>1. [location |-> "checks", run_config_name |-> s] = [location |-> "checks", run_config_name |-> t]
        BY <3>1, <3>2 DEF Pool!ChecksOf
      <4>2. QED
        BY <4>1
    <3>3. CASE ~in_table
      <4>1. [location |-> s, run_config_name |-> Null] = [location |-> t, run_config_name |-> Null]
        BY <3>1, <3>3 DEF Pool!ChecksOf
      <4>2. QED
        BY <4>1
    <3>4. QED
      BY <3>2, <3>3
  <2>3. QED
    BY <2>1, <2>2 DEF PoolConfigs, Pool!Init
<1>3. futures \in [Slots -> Futures] /\ \A s \in Slots : futures[s].stage = "queued" /\ ~futures[s].cached /\ ~futures[s].listens
  BY DEF Pool!Init, Futures, Stages
<1>4. queries = {} /\ tables = {} /\ measured = {} /\ caller = "waits"
  BY DEF Pool!Init
<1>5. \A s \in Slots : Sound(s, futures[s])
  BY <1>3 DEF Sound
<1>6. QED
  BY <1>2, <1>3, <1>4, <1>5 DEF PoolInv, PoolTables, MeasuredInv, CallerInv

LEMMA PoolStep ==
  PoolInv /\ [Pool!Next]_(Pool!vars) => PoolInv'
PROOF
<1> SUFFICES ASSUME PoolInv, [Pool!Next]_(Pool!vars)
             PROVE  PoolInv'
  OBVIOUS
<1>1. CASE UNCHANGED Pool!vars
  <2>1. UNCHANGED <<configs, observer, futures, queries, tables, measured, caller>>
    BY <1>1 DEF Pool!vars
  <2>2. PoolTables' /\ CallerInv'
    BY <2>1 DEF PoolInv, PoolTables, CallerInv, Pool!Pooled
  <2>3. \A t \in Slots : \A l : HasTable(t, l)' = HasTable(t, l) /\ HasQuery(t, l)' = HasQuery(t, l)
    BY <2>1 DEF HasTable, HasQuery
  <2>4. QED
    BY <2>1, <2>2, <2>3, FuturesStay
<1>2. CASE Pool!Next
  BY <1>2, StartKeeps, SaveKeeps, ObserveKeeps, WaitKeeps, MetricsOfBatches, FailKeepsFutures, QueriesKeep, ProgressKeeps, CallerReturns
  DEF Pool!Next
<1>3. QED
  BY <1>1, <1>2

(* Rows of metrics are of their own configuration, each batch once. *)
LEMMA PoolAccounts ==
  ASSUME PoolInv
  PROVE  Pool!RunsAreAccountedFor
PROOF
<1>1. PoolConfigs /\ PoolTables /\ MeasuredInv /\ CallerInv
  BY DEF PoolInv
<1>2. ASSUME NEW r \in measured, NEW s \in Slots, OfBatch(r, s) \/ OfStream(r, s)
      PROVE  r.input = s /\ r.of = s /\ r.output = configs[s].output /\ r.quarantine = configs[s].quarantine
  BY <1>1, <1>2 DEF OfBatch, OfStream, Pool!Row, PoolConfigs
<1>3. Pool!MetricsAreOwn
  <2> SUFFICES ASSUME NEW r \in measured
               PROVE  /\ r.of = r.input
                      /\ \A o \in measured : o.input = r.input /\ o.batch = r.batch => o = r
    BY DEF Pool!MetricsAreOwn
  <2>1. PICK s \in Slots : OfBatch(r, s) \/ OfStream(r, s)
    BY <1>1 DEF MeasuredInv
  <2>2. ASSUME NEW o \in measured, o.input = r.input, o.batch = r.batch PROVE o = r
    <3>1. PICK t \in Slots : OfBatch(o, t) \/ OfStream(o, t)
      BY <1>1 DEF MeasuredInv
    <3>2. t = s
      BY <1>2, <2>1, <2>2, <3>1
    <3>3. CASE HasQuery(s, TargetOf(s))
      BY <2>1, <2>2, <3>1, <3>2, <3>3 DEF OfBatch, OfStream
    <3>4. CASE ~HasQuery(s, TargetOf(s))
      BY <2>1, <3>1, <3>2, <3>4 DEF OfBatch, OfStream
    <3>5. QED
      BY <3>3, <3>4
  <2>3. QED
    BY <1>2, <2>1, <2>2
<1>4. Pool!MetricsFollowTables
  <2> SUFFICES ASSUME NEW r \in measured, r.from = Null, NEW t \in {r.output, r.quarantine} \ {Null}
               PROVE  \E w \in tables : w.to = t /\ w.input = r.input
    BY DEF Pool!MetricsFollowTables
  <2>1. PICK s \in Slots : OfBatch(r, s) \/ OfStream(r, s)
    BY <1>1 DEF MeasuredInv
  <2>2. CASE OfBatch(r, s)
    BY <1>2, <2>2 DEF OfBatch, HasTable
  <2>3. CASE OfStream(r, s)
    <3>1. TargetOf(s) = Null
      BY <2>3 DEF OfStream, Pool!Row
    <3>2. r.output = Null /\ r.quarantine = Null
      BY <1>2, <2>3, <3>1 DEF TargetOf
    <3>3. QED
      BY <3>2
  <2>4. QED
    BY <2>1, <2>2, <2>3
<1>5. Pool!TablesAreOwn
  BY <1>1 DEF Pool!TablesAreOwn, PoolTables, PoolConfigs
<1>6. Pool!RunsEnd
  BY DEF Pool!RunsEnd, PoolInv, Sound
<1>7. Pool!FailuresStopNobody
  BY <1>1 DEF Pool!FailuresStopNobody, CallerInv, Pool!AnyFailed, Pool!At, Over
<1>8. QED
  BY <1>3, <1>4, <1>5, <1>6, <1>7 DEF Pool!RunsAreAccountedFor

(* What a call of the engine leaves is accounted for: apply_checks_and_save_in_
   tables, for any number of configurations and threads, batches and streams,
   whichever of them fail. *)
THEOREM ConfigurationsAreAccountedFor ==
  Pool!Spec => []Pool!RunsAreAccountedFor
PROOF
<1>1. QED
  BY PoolBegins, PoolStep, PoolAccounts, PTL DEF Pool!Spec


-----------------------------------------------------------------------------
(* Actions: what alerts remember.  A run in an evaluation is young, and the    *)
(* slot of an hourly alert that it reserved is its own until it has recorded.  *)

CONSTANTS Evaluations, ActionLists, Metrics, Hour, MaxTime, MaxCrashes, MaxRetries
VARIABLES ticks, epoch, actions, last_fired, last_status, recorded, run, fires

Alerts == INSTANCE Actions WITH Runs <- Evaluations, clock <- ticks, events <- recorded

\* Null is no time; state is kept by the name of an action, so that actions of
\* one name are to agree on kind and frequency.
ActionAssumption ==
  /\ Hour \in Nat \ {0} /\ Null \notin Nat
  /\ \A list \in ActionLists :
       /\ Len(list) \in Nat /\ DOMAIN list = 1 .. Len(list)
       /\ \A m, n \in DOMAIN list :
            list[m].name = list[n].name => list[m].kind = list[n].kind /\ list[m].frequency = list[n].frequency

Before == {"idle", "output", "quarantine", "listen", "metrics"}
Evaluating == {"evaluate", "execute", "record", "append"}
Labels == Before \cup Evaluating \cup {"done", "failed", "terminated", "lost"}
AllTables == {"output", "quarantine", "metrics"}
Times == Nat \cup {Null}
Event == [name : Alerts!Names, fired : BOOLEAN, status : Alerts!ActionStatus, time : Nat]
EvaluationRecords ==
  [pc : Labels, streaming : BOOLEAN, metrics : Metrics \cup {Null}, time : Nat, saved : SUBSET AllTables, next : Nat \ {0},
   event : Event \cup {Null}, failing : BOOLEAN, deferred : BOOLEAN]
Fires == [name : Alerts!Names, hourly : BOOLEAN, run : Evaluations, time : Nat, epoch : Nat, durable : BOOLEAN]

AlertTypes ==
  /\ ticks \in Nat /\ epoch \in Nat /\ actions \in ActionLists
  /\ last_fired \in [Alerts!Names -> Times]
  /\ recorded \in SUBSET Event /\ fires \in SUBSET Fires
  /\ run \in [Evaluations -> EvaluationRecords]

EventInv == \A e \in recorded : e.time <= ticks

\* Tables and metrics are saved before the actions are evaluated.
SavedBy(x) ==
  /\ x.pc \in {"idle", "output"} => x.saved = {}
  /\ x.pc = "quarantine" => x.saved = {"output"}
  /\ x.pc \in {"listen", "metrics"} => x.saved = {"output", "quarantine"}
  /\ x.pc \in Evaluating \cup {"terminated"} => x.saved = AllTables

\* Where an evaluation is in the list.
Placed(x) ==
  /\ x.time <= ticks
  /\ x.pc \in Evaluating => ticks < x.time + Hour
  /\ x.pc \in {"execute", "record", "append"} => x.next <= Len(actions)
  /\ x.pc = "terminated" => x.next > Len(actions)
  /\ x.pc \in {"record", "append"} => x.event \in Event /\ x.event.name = actions[x.next].name /\ x.event.time = x.time

Hourly(a) == a.kind = "alert" /\ a.frequency = "hourly"

\* The slot of an hourly alert is this run's.
Reserved(x) ==
  /\ x.pc \in {"execute", "record"} /\ Hourly(actions[x.next]) /\ (x.pc = "record" => x.event.fired)
  => last_fired[actions[x.next].name] = x.time

RunInv == \A r \in Evaluations : SavedBy(run[r]) /\ Placed(run[r]) /\ Reserved(run[r])

\* An alert that went out is remembered, by this process or by an event.
Remembered(f) ==
  /\ f.epoch <= epoch
  /\ \A n \in DOMAIN actions : actions[n].name = f.name => actions[n].kind = "alert" /\ (f.hourly <=> actions[n].frequency = "hourly")
  /\ f.hourly /\ (f.epoch = epoch \/ f.durable) => last_fired[f.name] \in Nat /\ f.time <= last_fired[f.name]
  /\ f.durable => \E e \in recorded : e.name = f.name /\ e.fired /\ e.time = f.time
  /\ run[f.run].pc \notin Before
  /\ run[f.run].pc \in Evaluating => f.epoch = epoch /\ f.time = run[f.run].time

FireInv == \A f \in fires : Remembered(f)

Apart(f, g) ==
  /\ f # g /\ f.name = g.name /\ f.hourly
  /\ f.epoch <= g.epoch
  /\ f.time - g.time < Hour /\ g.time - f.time < Hour
  => f.epoch < g.epoch /\ ~f.durable

AlertsInv == AlertTypes /\ EventInv /\ RunInv /\ FireInv /\ \A f, g \in fires : Apart(f, g)

-----------------------------------------------------------------------------
(* One run moves *)

(* The names of the actions stay. *)
LEMMA NamesStay == UNCHANGED actions => Alerts!Names' = Alerts!Names
PROOF
  BY DEF Alerts!Names

(* What a move of one run to x needs when nothing else changes. *)
LEMMA OneRunMoves ==
  ASSUME AlertsInv, ActionAssumption, NEW r \in Evaluations, NEW x \in EvaluationRecords,
         run' = [run EXCEPT ![r] = x], UNCHANGED <<ticks, epoch, actions, last_fired, recorded, fires>>,
         SavedBy(x), Placed(x), Reserved(x),
         x.pc \in Before => run[r].pc \in Before,
         x.pc \in Evaluating => run[r].pc \in Before \/ (run[r].pc \in Evaluating /\ x.time = run[r].time)
  PROVE  AlertsInv'
PROOF
<1>1. Alerts!Names' = Alerts!Names
  BY NamesStay
<1>2. run' \in [Evaluations -> EvaluationRecords] /\ run'[r] = x /\ \A s \in Evaluations : s # r => run'[s] = run[s]
  BY DEF AlertsInv, AlertTypes
<1>3. AlertTypes'
  BY <1>1, <1>2 DEF AlertsInv, AlertTypes, EvaluationRecords, Event, Fires
<1>4. EventInv'
  BY DEF AlertsInv, EventInv
<1>5. RunInv'
  <2> SUFFICES ASSUME NEW s \in Evaluations
               PROVE  (SavedBy(run[s]) /\ Placed(run[s]) /\ Reserved(run[s]))'
    BY DEF RunInv
  <2>1. Event' = Event
    BY <1>1 DEF Event
  <2>2. CASE s = r
    BY <2>1, <2>2, <1>2 DEF SavedBy, Placed, Reserved
  <2>3. CASE s # r
    BY <2>1, <2>3, <1>2 DEF AlertsInv, RunInv, SavedBy, Placed, Reserved
  <2>4. QED
    BY <2>2, <2>3
<1>6. FireInv'
  <2> SUFFICES ASSUME NEW f \in fires
               PROVE  Remembered(f)'
    BY DEF FireInv
  <2>1. Remembered(f) /\ f.run \in Evaluations
    BY DEF AlertsInv, FireInv, AlertTypes, Fires
  <2>2. run'[f.run].pc \notin Before
    BY <2>1, <1>2 DEF Remembered
  <2>3. run'[f.run].pc \in Evaluating => f.epoch = epoch /\ f.time = run'[f.run].time
    BY <2>1, <1>2 DEF Remembered
  <2>4. QED
    BY <2>1, <2>2, <2>3 DEF Remembered
<1>7. (\A f, g \in fires : Apart(f, g))'
  BY DEF AlertsInv, Apart
<1>8. QED
  BY <1>3, <1>4, <1>5, <1>6, <1>7 DEF AlertsInv

(* A run that leaves for good. *)
LEMMA RunLeaves ==
  ASSUME AlertsInv, ActionAssumption, NEW r \in Evaluations, NEW label \in {"done", "failed"},
         Alerts!Goto(r, label), UNCHANGED <<ticks, epoch, actions, last_fired, recorded, fires>>
  PROVE  AlertsInv'
PROOF
<1> DEFINE x == [run[r] EXCEPT !.pc = label]
<1>1. run[r] \in EvaluationRecords /\ Placed(run[r])
  BY DEF AlertsInv, AlertTypes, RunInv
<1>2. x \in EvaluationRecords /\ x.pc = label /\ x.time = run[r].time
  BY <1>1 DEF EvaluationRecords, Labels
<1>3. SavedBy(x) /\ Placed(x) /\ Reserved(x)
  BY <1>1, <1>2 DEF SavedBy, Placed, Reserved, Evaluating
<1>4. run' = [run EXCEPT ![r] = x]
  BY DEF Alerts!Goto
<1> HIDE DEF x
<1>5. QED
  BY <1>2, <1>3, <1>4, OneRunMoves DEF Before, Evaluating

(* The same of Fail. *)
LEMMA FailLeaves ==
  ASSUME AlertsInv, ActionAssumption, NEW r \in Evaluations,
         Alerts!Fail(r), UNCHANGED <<ticks, epoch, actions, last_fired, recorded, fires>>
  PROVE  AlertsInv'
PROOF
<1> DEFINE label == IF run[r].streaming /\ run[r].saved = DOMAIN Alerts!Following THEN "done" ELSE "failed"
<1>1. label \in {"done", "failed"} /\ Alerts!Goto(r, label)
  BY DEF Alerts!Fail
<1> HIDE DEF label
<1>2. QED
  BY <1>1, RunLeaves

-----------------------------------------------------------------------------
(* The steps of a run *)

(* apply_checks_and_save_in_table begins *)
LEMMA AlertStartKeeps ==
  ASSUME AlertsInv, ActionAssumption, NEW r \in Evaluations, NEW m \in Metrics, NEW streaming \in BOOLEAN,
         Alerts!Start(r, m, streaming)
  PROVE  AlertsInv'
PROOF
<1> DEFINE x == [run[r] EXCEPT !.pc = "output", !.metrics = m, !.streaming = streaming]
<1>1. run[r] \in EvaluationRecords /\ Placed(run[r]) /\ SavedBy(run[r]) /\ run[r].pc = "idle"
  BY DEF AlertsInv, AlertTypes, RunInv, Alerts!Start, Alerts!In
<1>2. x \in EvaluationRecords /\ x.pc = "output" /\ x.time = run[r].time /\ x.saved = run[r].saved
  BY <1>1 DEF EvaluationRecords, Labels, Before
<1>3. SavedBy(x) /\ Placed(x) /\ Reserved(x)
  BY <1>1, <1>2 DEF SavedBy, Placed, Reserved, Evaluating
<1>4. run' = [run EXCEPT ![r] = x] /\ UNCHANGED <<ticks, epoch, actions, last_fired, recorded, fires>>
  BY DEF Alerts!Start
<1> HIDE DEF x
<1>5. QED
  BY <1>1, <1>2, <1>3, <1>4, OneRunMoves DEF Before, Evaluating

(* A table, or the metrics, are saved. *)
LEMMA AlertSaveKeeps ==
  ASSUME AlertsInv, ActionAssumption, NEW r \in Evaluations, Alerts!Save(r)
  PROVE  AlertsInv'
PROOF
<1>1. CASE Alerts!Fail(r)
  BY <1>1, FailLeaves DEF Alerts!Save
<1>2. CASE ~Alerts!Fail(r)
  <2> DEFINE to == IF run[r].pc = "quarantine" /\ run[r].streaming THEN "listen" ELSE Alerts!Following[run[r].pc]
             x == [run[r] EXCEPT !.pc = to, !.saved = @ \cup {run[r].pc}, !.time = ticks]
  <2>1. run[r] \in EvaluationRecords /\ Placed(run[r]) /\ SavedBy(run[r]) /\ ticks \in Nat
    BY DEF AlertsInv, AlertTypes, RunInv
  <2>2. run[r].pc \in {"output", "quarantine", "metrics"}
    BY DEF Alerts!Save, Alerts!Following
  <2>3. /\ run[r].pc = "output" => to = "quarantine"
        /\ run[r].pc = "quarantine" => to \in {"listen", "metrics"}
        /\ run[r].pc = "metrics" => to = "evaluate"
    BY <2>2 DEF Alerts!Following
  <2>4. run' = [run EXCEPT ![r] = x] /\ UNCHANGED <<ticks, epoch, actions, last_fired, recorded, fires>>
    BY <1>2 DEF Alerts!Save
  <2> HIDE DEF to
  <2>5. to \in Labels /\ run[r].saved \cup {run[r].pc} \subseteq AllTables
    BY <2>1, <2>2, <2>3 DEF EvaluationRecords, Labels, Before, Evaluating, AllTables
  <2>6. x \in EvaluationRecords /\ x.pc = to /\ x.time = ticks /\ x.saved = run[r].saved \cup {run[r].pc}
    BY <2>1, <2>5 DEF EvaluationRecords
  <2> HIDE DEF x
  <2>7. SavedBy(x)
    BY <2>1, <2>2, <2>3, <2>6 DEF SavedBy, Evaluating, AllTables
  <2>8. Placed(x) /\ Reserved(x)
    BY <2>1, <2>2, <2>3, <2>6 DEF Placed, Reserved, Evaluating, ActionAssumption
  <2>9. QED
    BY <2>2, <2>3, <2>4, <2>6, <2>7, <2>8, OneRunMoves DEF Before, Evaluating
<1>3. QED
  BY <1>1, <1>2

(* The listener is added, in time or too late. *)
LEMMA ListenKeeps ==
  ASSUME AlertsInv, ActionAssumption, NEW r \in Evaluations, Alerts!addListener(r)
  PROVE  AlertsInv'
PROOF
<1>1. run[r] \in EvaluationRecords /\ Placed(run[r]) /\ SavedBy(run[r]) /\ run[r].pc = "listen"
  BY DEF AlertsInv, AlertTypes, RunInv, Alerts!addListener, Alerts!In
<1>2. Alerts!Goto(r, "done") \/ Alerts!Goto(r, "metrics")
  BY DEF Alerts!addListener
<1>3. UNCHANGED <<ticks, epoch, actions, last_fired, recorded, fires>>
  BY DEF Alerts!addListener
<1>4. CASE Alerts!Goto(r, "done")
  BY <1>3, <1>4, RunLeaves
<1>5. CASE Alerts!Goto(r, "metrics")
  <2> DEFINE x == [run[r] EXCEPT !.pc = "metrics"]
  <2>1. x \in EvaluationRecords /\ x.pc = "metrics" /\ x.time = run[r].time /\ x.saved = run[r].saved
    BY <1>1 DEF EvaluationRecords, Labels, Before
  <2>2. SavedBy(x) /\ Placed(x) /\ Reserved(x)
    BY <1>1, <2>1 DEF SavedBy, Placed, Reserved, Evaluating
  <2>3. run' = [run EXCEPT ![r] = x]
    BY <1>5 DEF Alerts!Goto
  <2> HIDE DEF x
  <2>4. QED
    BY <1>1, <1>3, <2>1, <2>2, <2>3, OneRunMoves DEF Before, Evaluating
<1>6. QED
  BY <1>2, <1>4, <1>5

(* The evaluation is over. *)
LEMMA FinishKeeps ==
  ASSUME AlertsInv, ActionAssumption, NEW r \in Evaluations, Alerts!Finish(r)
  PROVE  AlertsInv'
PROOF
<1>1. run[r] \in EvaluationRecords /\ Placed(run[r]) /\ SavedBy(run[r]) /\ run[r].pc = "evaluate" /\ run[r].next > Len(actions)
  BY DEF AlertsInv, AlertTypes, RunInv, Alerts!Finish, Alerts!In
<1>2. Alerts!Goto(r, "done") \/ Alerts!Goto(r, "terminated")
  BY DEF Alerts!Finish
<1>3. UNCHANGED <<ticks, epoch, actions, last_fired, recorded, fires>>
  BY DEF Alerts!Finish
<1>4. CASE Alerts!Goto(r, "done")
  BY <1>3, <1>4, RunLeaves
<1>5. CASE Alerts!Goto(r, "terminated")
  <2> DEFINE x == [run[r] EXCEPT !.pc = "terminated"]
  <2>1. x \in EvaluationRecords /\ x.pc = "terminated" /\ x.time = run[r].time /\ x.saved = run[r].saved /\ x.next = run[r].next
    BY <1>1 DEF EvaluationRecords, Labels
  <2>2. SavedBy(x) /\ Placed(x) /\ Reserved(x)
    BY <1>1, <2>1 DEF SavedBy, Placed, Reserved, Evaluating
  <2>3. run' = [run EXCEPT ![r] = x]
    BY <1>5 DEF Alerts!Goto
  <2> HIDE DEF x
  <2>4. QED
    BY <1>1, <1>3, <2>1, <2>2, <2>3, OneRunMoves DEF Before, Evaluating
<1>6. QED
  BY <1>2, <1>4, <1>5

(* Names say which kind an action is of. *)
LEMMA ActionsOfOneName ==
  ASSUME AlertsInv, ActionAssumption, NEW m \in DOMAIN actions, NEW n \in DOMAIN actions, actions[m].name = actions[n].name
  PROVE  actions[m].kind = actions[n].kind /\ actions[m].frequency = actions[n].frequency
PROOF
  BY DEF AlertsInv, AlertTypes, ActionAssumption

(* An evaluation that has more actions to consider stands at one of them. *)
LEMMA AtAnAction ==
  ASSUME AlertsInv, ActionAssumption, NEW r \in Evaluations, run[r].next <= Len(actions)
  PROVE  run[r].next \in DOMAIN actions /\ actions[run[r].next].name \in Alerts!Names
PROOF
<1>1. run[r].next \in Nat \ {0} /\ Len(actions) \in Nat /\ DOMAIN actions = 1 .. Len(actions)
  BY DEF AlertsInv, AlertTypes, EvaluationRecords, ActionAssumption
<1>2. QED
  BY <1>1 DEF Alerts!Names

(* An event of the action a run is at. *)
LEMMA EventsAreEvents ==
  ASSUME AlertsInv, ActionAssumption, NEW r \in Evaluations, run[r].next <= Len(actions),
         NEW fired \in BOOLEAN, NEW status \in Alerts!ActionStatus
  PROVE  Alerts!Event(actions[run[r].next], r, fired, status) \in Event
PROOF
<1>1. actions[run[r].next].name \in Alerts!Names /\ run[r].time \in Nat
  BY AtAnAction DEF AlertsInv, AlertTypes, EvaluationRecords
<1>2. QED
  BY <1>1 DEF Alerts!Event, Event

(* An action whose condition does not hold, or that is held back, is recorded. *)
LEMMA HeldBackKeeps ==
  ASSUME AlertsInv, ActionAssumption, NEW r \in Evaluations, run[r].pc \in {"evaluate"}, run[r].next <= Len(actions),
         NEW status \in Alerts!ActionStatus,
         run' = [run EXCEPT ![r].pc = "record", ![r].event = Alerts!Event(actions[run[r].next], r, FALSE, status)],
         UNCHANGED <<ticks, epoch, actions, last_fired, recorded, fires>>
  PROVE  AlertsInv'
PROOF
<1> DEFINE event == Alerts!Event(actions[run[r].next], r, FALSE, status)
           x == [run[r] EXCEPT !.pc = "record", !.event = event]
<1>1. run[r] \in EvaluationRecords /\ Placed(run[r]) /\ SavedBy(run[r])
  BY DEF AlertsInv, AlertTypes, RunInv
<1>2. event \in Event
  BY EventsAreEvents
<1>3. event.name = actions[run[r].next].name /\ event.time = run[r].time /\ event.fired = FALSE
  BY DEF Alerts!Event
<1> HIDE DEF event
<1>4. x \in EvaluationRecords /\ x.pc = "record" /\ x.event = event
        /\ x.time = run[r].time /\ x.saved = run[r].saved /\ x.next = run[r].next
  BY <1>1, <1>2 DEF EvaluationRecords, Labels, Evaluating
<1>5. run' = [run EXCEPT ![r] = x]
  BY DEF event
<1> HIDE DEF x
<1>6. SavedBy(x) /\ Placed(x) /\ Reserved(x)
  BY <1>1, <1>2, <1>3, <1>4 DEF SavedBy, Placed, Reserved, Evaluating
<1>7. QED
  BY <1>4, <1>5, <1>6, OneRunMoves DEF Before, Evaluating

(* execute of an action, in each of its ways. *)
LEMMA ExecuteKeeps ==
  ASSUME AlertsInv, ActionAssumption, NEW r \in Evaluations, Alerts!Execute(r)
  PROVE  AlertsInv'
PROOF
<1> DEFINE action == actions[run[r].next]
           event == Alerts!Event(action, r, TRUE, "unhealthy")
<1>1. run[r] \in EvaluationRecords /\ Placed(run[r]) /\ SavedBy(run[r]) /\ Reserved(run[r]) /\ run[r].pc = "execute"
        /\ run[r].next <= Len(actions)
  BY DEF AlertsInv, AlertTypes, RunInv, Alerts!Execute, Alerts!In, Placed
<1>2. event \in Event
  BY <1>1, EventsAreEvents DEF Alerts!ActionStatus
<1>3. event.name = actions[run[r].next].name /\ event.time = run[r].time /\ event.fired = TRUE
  BY DEF Alerts!Event
<1>4. UNCHANGED <<ticks, epoch, actions, last_fired, recorded, fires>>
  BY DEF Alerts!Execute
<1>5. \/ \E failing \in BOOLEAN : run' = [run EXCEPT ![r].pc = "record", ![r].event = event, ![r].failing = failing]
      \/ run' = [run EXCEPT ![r].pc = "record", ![r].event = event, ![r].deferred = TRUE]
      \/ run' = [run EXCEPT ![r].pc = "record", ![r].event = event]
      \/ Alerts!Fail(r)
  <2>1. ASSUME NEW responses \in [1..(MaxRetries + 1) -> Alerts!Responses],
               run' = [run EXCEPT ![r].pc = "record", ![r].event = event, ![r].failing = @ \/ ~Alerts!post(responses)]
        PROVE  \E failing \in BOOLEAN : run' = [run EXCEPT ![r].pc = "record", ![r].event = event, ![r].failing = failing]
    <3>1. (run[r].failing \/ ~Alerts!post(responses)) \in BOOLEAN
      BY DEF Alerts!post
    <3>2. run' = [run EXCEPT ![r].pc = "record", ![r].event = event, ![r].failing = run[r].failing \/ ~Alerts!post(responses)]
      BY <2>1
    <3>3. QED
      BY <3>1, <3>2
  <2>2. QED
    BY <2>1 DEF Alerts!Execute, Alerts!Deferring
<1>6. CASE Alerts!Fail(r)
  BY <1>4, <1>6, FailLeaves
<1>7. ASSUME NEW x, x = run'[r], run' = [run EXCEPT ![r] = x], x \in EvaluationRecords, x.pc = "record", x.event = event,
             x.time = run[r].time, x.saved = run[r].saved, x.next = run[r].next
      PROVE  AlertsInv'
  <2> HIDE DEF event
  <2>1. SavedBy(x) /\ Placed(x) /\ Reserved(x)
    BY <1>1, <1>2, <1>3, <1>7 DEF SavedBy, Placed, Reserved, Evaluating
  <2>2. QED
    BY <1>1, <1>4, <1>7, <2>1, OneRunMoves DEF Before, Evaluating
<1>8. ASSUME NEW failing \in BOOLEAN, NEW deferred \in BOOLEAN,
             run' = [run EXCEPT ![r] = [run[r] EXCEPT !.pc = "record", !.event = event, !.failing = failing, !.deferred = deferred]]
      PROVE  AlertsInv'
  <2> HIDE DEF event
  <2> DEFINE x == [run[r] EXCEPT !.pc = "record", !.event = event, !.failing = failing, !.deferred = deferred]
  <2>1. x \in EvaluationRecords /\ x.pc = "record" /\ x.event = event
          /\ x.time = run[r].time /\ x.saved = run[r].saved /\ x.next = run[r].next
    BY <1>1, <1>2 DEF EvaluationRecords, Labels, Evaluating
  <2>2. run' = [run EXCEPT ![r] = x] /\ run'[r] = x
    BY <1>8 DEF AlertsInv, AlertTypes
  <2> HIDE DEF x
  <2>3. QED
    BY <1>7, <2>1, <2>2
<1>9. run[r].failing \in BOOLEAN /\ run[r].deferred \in BOOLEAN /\ r \in DOMAIN run
  BY <1>1 DEF AlertsInv, AlertTypes, EvaluationRecords
<1> HIDE DEF event
<1>10. ASSUME NEW failing \in BOOLEAN, run' = [run EXCEPT ![r].pc = "record", ![r].event = event, ![r].failing = failing]
       PROVE  AlertsInv'
  <2>1. run' = [run EXCEPT ![r] = [run[r] EXCEPT !.pc = "record", !.event = event, !.failing = failing, !.deferred = run[r].deferred]]
    BY <1>1, <1>10 DEF EvaluationRecords
  <2>2. QED
    BY <1>8, <1>9, <2>1
<1>11. CASE run' = [run EXCEPT ![r].pc = "record", ![r].event = event, ![r].deferred = TRUE]
  <2>1. run' = [run EXCEPT ![r] = [run[r] EXCEPT !.pc = "record", !.event = event, !.failing = run[r].failing, !.deferred = TRUE]]
    BY <1>1, <1>11 DEF EvaluationRecords
  <2>2. QED
    BY <1>8, <1>9, <2>1
<1>12. CASE run' = [run EXCEPT ![r].pc = "record", ![r].event = event]
  <2>1. run' = [run EXCEPT ![r] = [run[r] EXCEPT !.pc = "record", !.event = event, !.failing = run[r].failing, !.deferred = run[r].deferred]]
    BY <1>1, <1>12 DEF EvaluationRecords
  <2>2. QED
    BY <1>8, <1>9, <2>1
<1>13. QED
  BY <1>5, <1>6, <1>10, <1>11, <1>12

(* Who reserves the slot of an hourly alert had it to himself: whoever holds it
   began less than an hour ago (try_fire). *)
LEMMA SlotsAreFree ==
  ASSUME AlertsInv, ActionAssumption, NEW r \in Evaluations, run[r].pc = "evaluate", run[r].next <= Len(actions),
         Hourly(actions[run[r].next]), Alerts!_should_fire_locked(actions[run[r].next], run[r].time)
  PROVE  /\ last_fired[actions[run[r].next].name] # Null => last_fired[actions[run[r].next].name] + Hour <= run[r].time
         /\ \A s \in Evaluations :
              ~ /\ run[s].pc \in {"execute", "record"} /\ actions[run[s].next].name = actions[run[r].next].name
                /\ run[s].pc = "record" => run[s].event.fired
PROOF
<1> DEFINE n == run[r].next
<1>1. n \in DOMAIN actions /\ actions[n].name \in Alerts!Names /\ run[r].time \in Nat /\ run[r].time <= ticks /\ ticks \in Nat
  BY AtAnAction DEF AlertsInv, AlertTypes, RunInv, Placed, EvaluationRecords
<1>2. last_fired[actions[n].name] \in Times /\ Hour \in Nat /\ Null \notin Nat
  BY <1>1 DEF AlertsInv, AlertTypes, ActionAssumption
<1>3. last_fired[actions[n].name] # Null => last_fired[actions[n].name] + Hour <= run[r].time
  BY <1>1, <1>2 DEF Hourly, Alerts!_should_fire_locked, Alerts!_check_frequency, Times
<1>4. ASSUME NEW s \in Evaluations, run[s].pc \in {"execute", "record"}, actions[run[s].next].name = actions[n].name,
             run[s].pc = "record" => run[s].event.fired
      PROVE  FALSE
  <2>1. run[s] \in EvaluationRecords /\ Placed(run[s]) /\ Reserved(run[s])
    BY DEF AlertsInv, AlertTypes, RunInv
  <2>2. run[s].next <= Len(actions) /\ ticks < run[s].time + Hour /\ run[s].time \in Nat
    BY <1>4, <2>1 DEF Placed, Evaluating, EvaluationRecords
  <2>3. run[s].next \in DOMAIN actions
    BY <2>2, AtAnAction
  <2>4. Hourly(actions[run[s].next])
    BY <1>1, <1>4, <2>3, ActionsOfOneName DEF Hourly
  <2>5. last_fired[actions[n].name] = run[s].time
    BY <1>4, <2>1, <2>4 DEF Reserved
  <2>6. QED
    BY <1>1, <1>2, <1>3, <2>2, <2>5
<1>5. QED
  BY <1>3, <1>4

(* An alert goes out: try_fire reserves its slot under the lock. *)
LEMMA FiringKeeps ==
  ASSUME AlertsInv, ActionAssumption, NEW r \in Evaluations, run[r].pc = "evaluate", run[r].next <= Len(actions),
         NEW action, action = actions[run[r].next], action.kind = "alert",
         Alerts!_should_fire_locked(action, run[r].time), Alerts!Goto(r, "execute"),
         last_fired' = [last_fired EXCEPT ![action.name] = run[r].time],
         fires' = fires \cup {[name |-> action.name, hourly |-> action.frequency = "hourly", run |-> r, time |-> run[r].time,
                               epoch |-> epoch, durable |-> FALSE]},
         UNCHANGED <<ticks, epoch, actions, recorded>>
  PROVE  AlertsInv'
PROOF
<1> DEFINE x == [run[r] EXCEPT !.pc = "execute"]
           fired == [name |-> action.name, hourly |-> action.frequency = "hourly", run |-> r, time |-> run[r].time,
                     epoch |-> epoch, durable |-> FALSE]
<1>1. run[r] \in EvaluationRecords /\ Placed(run[r]) /\ SavedBy(run[r]) /\ run[r].time \in Nat /\ run[r].time <= ticks /\ ticks \in Nat
  BY DEF AlertsInv, AlertTypes, RunInv, Placed, EvaluationRecords
<1>2. x \in EvaluationRecords /\ x.pc = "execute" /\ x.time = run[r].time /\ x.saved = run[r].saved /\ x.next = run[r].next
  BY <1>1 DEF EvaluationRecords, Labels, Evaluating
<1>3. run' \in [Evaluations -> EvaluationRecords] /\ run'[r] = x /\ \A s \in Evaluations : s # r => run'[s] = run[s]
  BY <1>2 DEF Alerts!Goto, AlertsInv, AlertTypes
<1> HIDE DEF x
<1>4. Alerts!Names' = Alerts!Names
  BY NamesStay
<1>5. run[r].next \in DOMAIN actions /\ action.name \in Alerts!Names /\ run[r].time \in Times /\ Hour \in Nat /\ Null \notin Nat
  BY <1>1, AtAnAction DEF Times, ActionAssumption
<1>6. /\ last_fired' \in [Alerts!Names -> Times] /\ last_fired'[action.name] = run[r].time
      /\ \A n \in Alerts!Names : n # action.name => last_fired'[n] = last_fired[n]
  BY <1>5 DEF AlertsInv, AlertTypes
<1>7. PICK new \in Fires : new = fired /\ fires' = fires \cup {new}
  <2>1. epoch \in Nat /\ (action.frequency = "hourly") \in BOOLEAN
    BY DEF AlertsInv, AlertTypes
  <2>2. fired \in Fires
    BY <2>1, <1>1, <1>5 DEF Fires
  <2>3. QED
    BY <2>2
<1>8. new.name = action.name /\ (new.hourly <=> action.frequency = "hourly") /\ new.run = r /\ new.time = run[r].time /\ new.epoch = epoch
        /\ new.durable = FALSE
  BY <1>7
<1> HIDE DEF fired
<1>9. AlertTypes'
  BY <1>3, <1>4, <1>6, <1>7 DEF AlertsInv, AlertTypes, EvaluationRecords, Event, Fires
<1>10. EventInv'
  BY DEF AlertsInv, EventInv
<1>11. Event' = Event
  BY <1>4 DEF Event
<1>12. Hourly(action) =>
         /\ last_fired[action.name] # Null => last_fired[action.name] + Hour <= run[r].time
         /\ \A s \in Evaluations :
              ~ /\ run[s].pc \in {"execute", "record"} /\ actions[run[s].next].name = action.name
                /\ run[s].pc = "record" => run[s].event.fired
  BY SlotsAreFree
<1>13. RunInv'
  <2> SUFFICES ASSUME NEW s \in Evaluations
               PROVE  (SavedBy(run[s]) /\ Placed(run[s]) /\ Reserved(run[s]))'
    BY DEF RunInv
  <2>1. CASE s = r
    <3>1. SavedBy(run[s])' /\ Placed(run[s])'
      BY <2>1, <1>1, <1>2, <1>3, <1>11 DEF SavedBy, Placed, Evaluating
    <3>2. Reserved(run[s])'
      BY <2>1, <1>2, <1>3, <1>6 DEF Reserved
    <3>3. QED
      BY <3>1, <3>2
  <2>2. CASE s # r
    <3>1. run'[s] = run[s] /\ SavedBy(run[s]) /\ Placed(run[s]) /\ Reserved(run[s])
      BY <2>2, <1>3 DEF AlertsInv, RunInv
    <3>2. SavedBy(run[s])' /\ Placed(run[s])'
      BY <3>1, <1>11 DEF SavedBy, Placed
    <3>3. ASSUME run[s].pc \in {"execute", "record"}, Hourly(actions[run[s].next]), run[s].pc = "record" => run[s].event.fired
          PROVE  last_fired'[actions[run[s].next].name] = run[s].time
      <4>1. run[s].next <= Len(actions)
        BY <3>1, <3>3 DEF Placed
      <4>2. run[s].next \in DOMAIN actions /\ actions[run[s].next].name \in Alerts!Names
        BY <4>1, AtAnAction
      <4>3. last_fired[actions[run[s].next].name] = run[s].time
        BY <3>1, <3>3 DEF Reserved
      <4>4. CASE actions[run[s].next].name = action.name
        <5>1. Hourly(action)
          BY <1>5, <3>3, <4>2, <4>4, ActionsOfOneName DEF Hourly
        <5>2. QED
          BY <1>12, <5>1, <4>4, <3>3
      <4>5. CASE actions[run[s].next].name # action.name
        BY <1>6, <4>2, <4>3, <4>5
      <4>6. QED
        BY <4>4, <4>5
    <3>4. Reserved(run[s])'
      BY <3>1, <3>3 DEF Reserved
    <3>5. QED
      BY <3>2, <3>4
  <2>3. QED
    BY <2>1, <2>2
<1>14. ASSUME NEW f \in fires, f.name = action.name, f.hourly, f.epoch = epoch \/ f.durable
       PROVE  Hourly(action) /\ f.time + Hour <= run[r].time
  <2>1. Remembered(f) /\ f.time \in Nat
    BY DEF AlertsInv, FireInv, AlertTypes, Fires
  <2>2. Hourly(action)
    BY <1>5, <1>14, <2>1 DEF Remembered, Hourly
  <2>3. last_fired[action.name] \in Nat /\ f.time <= last_fired[action.name]
    BY <1>14, <2>1 DEF Remembered
  <2>4. QED
    BY <1>1, <1>5, <1>12, <2>1, <2>2, <2>3
<1>15. FireInv'
  <2>1. ASSUME NEW f \in fires PROVE Remembered(f)'
    <3>1. Remembered(f) /\ f.time \in Nat /\ f.name \in Alerts!Names /\ f.run \in Evaluations
      BY DEF AlertsInv, FireInv, AlertTypes, Fires
    <3>2. run'[f.run].pc \notin Before
      BY <3>1, <1>2, <1>3 DEF Remembered, Before
    <3>3. run'[f.run].pc \in Evaluating => f.epoch = epoch /\ f.time = run'[f.run].time
      BY <3>1, <1>2, <1>3 DEF Remembered, Evaluating
    <3>4. ASSUME f.hourly, f.epoch = epoch \/ f.durable
          PROVE  last_fired'[f.name] \in Nat /\ f.time <= last_fired'[f.name]
      <4>1. CASE f.name = action.name
        BY <4>1, <3>4, <1>14, <1>1, <1>5, <1>6, <3>1
      <4>2. CASE f.name # action.name
        BY <4>2, <3>1, <3>4, <1>6 DEF Remembered
      <4>3. QED
        BY <4>1, <4>2
    <3>5. QED
      BY <3>1, <3>2, <3>3, <3>4 DEF Remembered
  <2>2. Remembered(new)'
    <3>1. \A n \in DOMAIN actions : actions[n].name = new.name => actions[n].kind = "alert" /\ (new.hourly <=> actions[n].frequency = "hourly")
      BY <1>5, <1>8, ActionsOfOneName
    <3>2. run'[new.run].pc \notin Before /\ new.time = run'[new.run].time
      BY <1>2, <1>3, <1>8 DEF Before
    <3>3. last_fired'[new.name] \in Nat /\ new.time <= last_fired'[new.name]
      BY <1>1, <1>6, <1>8
    <3>4. new.epoch = epoch /\ epoch \in Nat
      BY <1>8 DEF AlertsInv, AlertTypes
    <3>5. QED
      BY <3>1, <3>2, <3>3, <3>4, <1>8 DEF Remembered
  <2>3. QED
    BY <2>1, <2>2, <1>7 DEF FireInv
<1>16. (\A f, g \in fires : Apart(f, g))'
  <2> SUFFICES ASSUME NEW f \in fires \cup {new}, NEW g \in fires \cup {new}
               PROVE  Apart(f, g)
    BY <1>7 DEF Apart
  <2>1. CASE f \in fires /\ g \in fires
    BY <2>1 DEF AlertsInv
  <2>2. CASE f \in fires /\ g = new
    <3>1. f.epoch <= epoch /\ f.epoch \in Nat /\ epoch \in Nat /\ f.time \in Nat
      BY <2>2 DEF AlertsInv, AlertTypes, FireInv, Remembered, Fires
    <3>2. QED
      BY <2>2, <3>1, <1>1, <1>5, <1>8, <1>14 DEF Apart
  <2>3. CASE f = new /\ g \in fires
    <3>1. Remembered(g) /\ g.epoch \in Nat /\ epoch \in Nat /\ g.time \in Nat
      BY <2>3 DEF AlertsInv, AlertTypes, FireInv, Fires
    <3>2. ASSUME f.name = g.name, f.hourly, f.epoch <= g.epoch
          PROVE  g.hourly /\ g.epoch = epoch
      BY <2>3, <3>1, <3>2, <1>5, <1>8 DEF Remembered
    <3>3. QED
      BY <2>3, <3>1, <3>2, <1>1, <1>5, <1>8, <1>14 DEF Apart
  <2>4. CASE f = new /\ g = new
    BY <2>4 DEF Apart
  <2>5. QED
    BY <2>1, <2>2, <2>3, <2>4
<1>17. QED
  BY <1>9, <1>10, <1>13, <1>15, <1>16 DEF AlertsInv

(* The next action is decided about. *)
LEMMA DecideKeeps ==
  ASSUME AlertsInv, ActionAssumption, NEW r \in Evaluations, Alerts!Decide(r)
  PROVE  AlertsInv'
PROOF
<1> DEFINE action == actions[run[r].next]
           outcome == Alerts!Evaluate(action.condition, run[r].metrics)
           fire == ~Alerts!IsError(outcome) /\ Alerts!Truthy(outcome) /\ Alerts!_should_fire_locked(action, run[r].time)
           status == CASE Alerts!IsError(outcome) -> "config_error"
                       [] Alerts!Truthy(outcome)  -> "unhealthy"
                       [] OTHER                   -> "healthy"
<1>1. /\ run[r].pc = "evaluate" /\ run[r].next <= Len(actions) /\ UNCHANGED <<ticks, epoch, actions, recorded>>
      /\ IF Alerts!IsError(outcome) /\ outcome.error # "InvalidConditionError" THEN Alerts!Fail(r)
         ELSE IF fire THEN Alerts!Goto(r, "execute")
         ELSE run' = [run EXCEPT ![r].pc = "record", ![r].event = Alerts!Event(action, r, FALSE, status)]
      /\ IF fire THEN Alerts!Reserve(action, run[r].time) ELSE UNCHANGED <<last_fired, last_status>>
      /\ fires' = IF fire /\ action.kind = "alert"
                  THEN fires \cup {[name |-> action.name, hourly |-> action.frequency = "hourly", run |-> r, time |-> run[r].time,
                                    epoch |-> epoch, durable |-> FALSE]}
                  ELSE fires
  BY DEF Alerts!Decide, Alerts!In
<1>2. status \in Alerts!ActionStatus
  BY DEF Alerts!ActionStatus
<1>3. fire => ~Alerts!IsError(outcome) /\ Alerts!_should_fire_locked(action, run[r].time)
  OBVIOUS
<1> HIDE DEF outcome, fire, status
<1>4. CASE ~fire
  <2>1. UNCHANGED <<last_fired, fires>>
    BY <1>1, <1>4
  <2>2. CASE Alerts!Fail(r)
    BY <2>1, <2>2, <1>1, FailLeaves
  <2>3. CASE run' = [run EXCEPT ![r].pc = "record", ![r].event = Alerts!Event(action, r, FALSE, status)]
    BY <2>1, <2>3, <1>1, <1>2, HeldBackKeeps
  <2>4. QED
    BY <1>1, <1>4, <2>2, <2>3
<1>5. CASE fire /\ action.kind = "alert"
  <2>1. /\ Alerts!_should_fire_locked(action, run[r].time) /\ Alerts!Goto(r, "execute")
        /\ last_fired' = [last_fired EXCEPT ![action.name] = run[r].time]
    BY <1>1, <1>3, <1>5 DEF Alerts!Reserve
  <2>2. fires' = fires \cup {[name |-> action.name, hourly |-> action.frequency = "hourly", run |-> r, time |-> run[r].time,
                              epoch |-> epoch, durable |-> FALSE]}
    BY <1>1, <1>5
  <2>3. QED
    BY <1>1, <1>5, <2>1, <2>2, FiringKeeps
<1>6. CASE fire /\ action.kind # "alert"
  <2> DEFINE x == [run[r] EXCEPT !.pc = "execute"]
  <2>1. Alerts!Goto(r, "execute") /\ UNCHANGED <<last_fired, fires>>
    BY <1>1, <1>3, <1>6 DEF Alerts!Reserve
  <2>2. run[r] \in EvaluationRecords /\ Placed(run[r]) /\ SavedBy(run[r])
    BY DEF AlertsInv, AlertTypes, RunInv
  <2>3. x \in EvaluationRecords /\ x.pc = "execute" /\ x.time = run[r].time /\ x.saved = run[r].saved /\ x.next = run[r].next
    BY <2>2 DEF EvaluationRecords, Labels, Evaluating
  <2>4. run' = [run EXCEPT ![r] = x]
    BY <2>1 DEF Alerts!Goto
  <2> HIDE DEF x
  <2>5. SavedBy(x) /\ Placed(x) /\ Reserved(x)
    BY <1>1, <1>6, <2>2, <2>3 DEF SavedBy, Placed, Reserved, Evaluating, Hourly
  <2>6. QED
    BY <1>1, <2>1, <2>3, <2>4, <2>5, OneRunMoves DEF Before, Evaluating
<1>7. QED
  BY <1>4, <1>5, <1>6

(* record, the part under the lock *)
LEMMA RecordKeeps ==
  ASSUME AlertsInv, ActionAssumption, NEW r \in Evaluations, Alerts!Record(r)
  PROVE  AlertsInv'
PROOF
<1> DEFINE x == [run[r] EXCEPT !.pc = "append"]
<1>1. run[r] \in EvaluationRecords /\ Placed(run[r]) /\ SavedBy(run[r]) /\ Reserved(run[r]) /\ run[r].pc = "record"
  BY DEF AlertsInv, AlertTypes, RunInv, Alerts!Record, Alerts!In
<1>2. PICK e \in Event : e = run[r].event /\ e.name = actions[run[r].next].name /\ e.time = run[r].time
  BY <1>1 DEF Placed
<1>3. x \in EvaluationRecords /\ x.pc = "append" /\ x.time = run[r].time /\ x.saved = run[r].saved /\ x.next = run[r].next /\ x.event = e
  BY <1>1, <1>2 DEF EvaluationRecords, Labels, Evaluating
<1>4. run' \in [Evaluations -> EvaluationRecords] /\ run'[r] = x /\ \A s \in Evaluations : s # r => run'[s] = run[s]
  BY <1>3 DEF Alerts!Record, Alerts!Goto, AlertsInv, AlertTypes
<1>5. UNCHANGED <<ticks, epoch, actions, recorded, fires>> /\ last_fired' = IF e.fired THEN [last_fired EXCEPT ![e.name] = e.time] ELSE last_fired
  BY <1>2 DEF Alerts!Record
<1> HIDE DEF x
<1>6. Alerts!Names' = Alerts!Names /\ Event' = Event
  BY <1>5, NamesStay DEF Event
<1>7. run[r].next \in DOMAIN actions /\ e.name \in Alerts!Names /\ e.time \in Nat /\ ticks \in Nat
  BY <1>1, <1>2, AtAnAction DEF Placed, Event, AlertsInv, AlertTypes
<1>8. /\ last_fired' \in [Alerts!Names -> Times]
      /\ \A n \in Alerts!Names : n # e.name => last_fired'[n] = last_fired[n]
      /\ Hourly(actions[run[r].next]) => last_fired'[e.name] = last_fired[e.name]
  BY <1>1, <1>2, <1>5, <1>7 DEF AlertsInv, AlertTypes, Times, Reserved
<1>9. AlertTypes'
  BY <1>4, <1>5, <1>6, <1>8 DEF AlertsInv, AlertTypes, EvaluationRecords, Fires
<1>10. EventInv'
  BY <1>5 DEF AlertsInv, EventInv
<1>11. RunInv'
  <2> SUFFICES ASSUME NEW s \in Evaluations
               PROVE  (SavedBy(run[s]) /\ Placed(run[s]) /\ Reserved(run[s]))'
    BY DEF RunInv
  <2>1. CASE s = r
    BY <2>1, <1>1, <1>2, <1>3, <1>4, <1>5, <1>6 DEF SavedBy, Placed, Reserved, Evaluating
  <2>2. CASE s # r
    <3>1. run'[s] = run[s] /\ SavedBy(run[s]) /\ Placed(run[s]) /\ Reserved(run[s])
      BY <2>2, <1>4 DEF AlertsInv, RunInv
    <3>2. SavedBy(run[s])' /\ Placed(run[s])'
      BY <3>1, <1>5, <1>6 DEF SavedBy, Placed
    <3>3. ASSUME run[s].pc \in {"execute", "record"}, Hourly(actions[run[s].next]), run[s].pc = "record" => run[s].event.fired
          PROVE  last_fired'[actions[run[s].next].name] = run[s].time
      <4>1. run[s].next <= Len(actions)
        BY <3>1, <3>3 DEF Placed
      <4>2. run[s].next \in DOMAIN actions /\ actions[run[s].next].name \in Alerts!Names
        BY <4>1, AtAnAction
      <4>3. last_fired[actions[run[s].next].name] = run[s].time
        BY <3>1, <3>3 DEF Reserved
      <4>4. CASE actions[run[s].next].name = e.name
        <5>1. Hourly(actions[run[r].next])
          BY <1>2, <1>7, <3>3, <4>2, <4>4, ActionsOfOneName DEF Hourly
        <5>2. QED
          BY <1>8, <5>1, <4>3, <4>4
      <4>5. CASE actions[run[s].next].name # e.name
        BY <1>8, <4>2, <4>3, <4>5
      <4>6. QED
        BY <4>4, <4>5
    <3>4. Reserved(run[s])'
      BY <3>1, <3>3, <1>5 DEF Reserved
    <3>5. QED
      BY <3>2, <3>4
  <2>3. QED
    BY <2>1, <2>2
<1>12. FireInv'
  <2> SUFFICES ASSUME NEW f \in fires
               PROVE  Remembered(f)'
    BY <1>5 DEF FireInv
  <2>1. Remembered(f) /\ f.name \in Alerts!Names /\ f.run \in Evaluations
    BY DEF AlertsInv, FireInv, AlertTypes, Fires
  <2>2. run'[f.run].pc \notin Before
    BY <2>1, <1>3, <1>4 DEF Remembered, Before
  <2>3. run'[f.run].pc \in Evaluating => f.epoch = epoch /\ f.time = run'[f.run].time
    BY <2>1, <1>1, <1>3, <1>4 DEF Remembered, Evaluating
  <2>4. f.hourly => last_fired'[f.name] = last_fired[f.name]
    <3>1. CASE f.name = e.name /\ f.hourly
      <4>1. Hourly(actions[run[r].next])
        BY <2>1, <3>1, <1>2, <1>7 DEF Remembered, Hourly
      <4>2. QED
        BY <3>1, <4>1, <1>8
    <3>2. CASE f.name # e.name
      BY <3>2, <2>1, <1>8
    <3>3. QED
      BY <3>1, <3>2
  <2>5. QED
    BY <1>5, <2>1, <2>2, <2>3, <2>4 DEF Remembered
<1>13. (\A f, g \in fires : Apart(f, g))'
  BY <1>5 DEF AlertsInv, Apart
<1>14. QED
  BY <1>9, <1>10, <1>11, <1>12, <1>13 DEF AlertsInv

(* record, the append after it: what went out is durable from then on. *)
LEMMA AlertAppendKeeps ==
  ASSUME AlertsInv, ActionAssumption, NEW r \in Evaluations, Alerts!AppendEvent(r)
  PROVE  AlertsInv'
PROOF
<1> DEFINE x == [run[r] EXCEPT !.pc = "evaluate", !.next = @ + 1, !.event = Null]
<1>1. run[r] \in EvaluationRecords /\ Placed(run[r]) /\ SavedBy(run[r]) /\ run[r].pc = "append"
  BY DEF AlertsInv, AlertTypes, RunInv, Alerts!AppendEvent, Alerts!In
<1>2. PICK e \in Event : e = run[r].event /\ e.name = actions[run[r].next].name /\ e.time = run[r].time
  BY <1>1 DEF Placed
<1>3. x \in EvaluationRecords /\ x.pc = "evaluate" /\ x.time = run[r].time /\ x.saved = run[r].saved
  <2>1. run[r].next + 1 \in Nat \ {0}
    BY <1>1 DEF EvaluationRecords
  <2>2. x = [run[r] EXCEPT !.pc = "evaluate", !.next = run[r].next + 1, !.event = Null]
    BY <1>1 DEF EvaluationRecords
  <2> HIDE DEF x
  <2>3. QED
    BY <2>1, <2>2, <1>1 DEF EvaluationRecords, Labels, Evaluating
<1>4. run' = [run EXCEPT ![r] = x] /\ UNCHANGED <<ticks, epoch, actions, last_fired>>
  BY DEF Alerts!AppendEvent
<1> HIDE DEF x
<1>5. SavedBy(x) /\ Placed(x) /\ Reserved(x)
  BY <1>1, <1>3 DEF SavedBy, Placed, Reserved, Evaluating
<1>6. CASE UNCHANGED <<recorded, fires>>
  BY <1>1, <1>3, <1>4, <1>5, <1>6, OneRunMoves DEF Before, Evaluating
<1> DEFINE Mine(f) == f.run = r /\ f.name = e.name /\ e.fired
           Lasting(f) == IF Mine(f) THEN [f EXCEPT !.durable = TRUE] ELSE f
<1>7. CASE recorded' = recorded \cup {e} /\ fires' = {Lasting(f) : f \in fires}
  <2>1. run' \in [Evaluations -> EvaluationRecords] /\ run'[r] = x /\ \A s \in Evaluations : s # r => run'[s] = run[s]
    BY <1>3, <1>4 DEF AlertsInv, AlertTypes
  <2>2. Alerts!Names' = Alerts!Names /\ Event' = Event
    BY <1>4, NamesStay DEF Event
  <2>3. ASSUME NEW f \in fires
        PROVE  /\ Lasting(f) \in Fires /\ Lasting(f).name = f.name /\ Lasting(f).hourly = f.hourly /\ Lasting(f).run = f.run
               /\ Lasting(f).time = f.time /\ Lasting(f).epoch = f.epoch
               /\ Lasting(f).durable => f.durable \/ Mine(f)
               /\ f \in Fires /\ Remembered(f)
               /\ Mine(f) => f.epoch = epoch /\ f.time = e.time
    <3>1. f \in Fires /\ Remembered(f)
      BY DEF AlertsInv, AlertTypes, FireInv
    <3>2. Mine(f) => f.epoch = epoch /\ f.time = e.time
      BY <3>1, <1>1, <1>2 DEF Remembered, Evaluating
    <3>3. QED
      BY <3>1, <3>2 DEF Fires
  <2> HIDE DEF Lasting, Mine
  <2>4. AlertTypes'
    <3>1. fires' \in SUBSET Fires /\ recorded' \in SUBSET Event
      BY <1>7, <2>3 DEF AlertsInv, AlertTypes
    <3>2. QED
      BY <3>1, <1>4, <2>1, <2>2 DEF AlertsInv, AlertTypes, EvaluationRecords, Fires
  <2>5. EventInv'
    BY <1>1, <1>2, <1>4, <1>7 DEF AlertsInv, EventInv, Placed
  <2>6. RunInv'
    <3> SUFFICES ASSUME NEW s \in Evaluations
                 PROVE  (SavedBy(run[s]) /\ Placed(run[s]) /\ Reserved(run[s]))'
      BY DEF RunInv
    <3>1. CASE s = r
      BY <3>1, <1>4, <1>5, <2>1, <2>2 DEF SavedBy, Placed, Reserved
    <3>2. CASE s # r
      BY <3>2, <1>4, <2>1, <2>2 DEF AlertsInv, RunInv, SavedBy, Placed, Reserved
    <3>3. QED
      BY <3>1, <3>2
  <2>7. FireInv'
    <3> SUFFICES ASSUME NEW f \in fires, NEW g, g = Lasting(f)
                 PROVE  Remembered(g)'
      BY <1>7 DEF FireInv
    <3>1. /\ f \in Fires /\ Remembered(f) /\ g.name = f.name /\ g.hourly = f.hourly /\ g.run = f.run /\ g.time = f.time /\ g.epoch = f.epoch
          /\ g.durable => f.durable \/ (Mine(f) /\ f.epoch = epoch /\ f.time = e.time)
      BY <2>3
    <3>2. run'[g.run].pc \notin Before
      BY <3>1, <2>1, <1>3 DEF Remembered, Before, Fires
    <3>3. run'[g.run].pc \in Evaluating => g.epoch = epoch /\ g.time = run'[g.run].time
      BY <3>1, <2>1, <1>1, <1>3 DEF Remembered, Evaluating, Fires
    <3>4. g.durable => \E o \in recorded' : o.name = g.name /\ o.fired /\ o.time = g.time
      <4>1. CASE f.durable
        BY <4>1, <3>1, <1>7 DEF Remembered
      <4>2. CASE Mine(f) /\ f.time = e.time
        BY <4>2, <3>1, <1>7 DEF Mine
      <4>3. QED
        BY <3>1, <4>1, <4>2
    <3>5. g.hourly /\ (g.epoch = epoch \/ g.durable) => last_fired[g.name] \in Nat /\ g.time <= last_fired[g.name]
      BY <3>1 DEF Remembered
    <3>6. g.epoch <= epoch /\ \A n \in DOMAIN actions : actions[n].name = g.name => actions[n].kind = "alert" /\ (g.hourly <=> actions[n].frequency = "hourly")
      BY <3>1 DEF Remembered
    <3>7. QED
      BY <3>2, <3>3, <3>4, <3>5, <3>6, <1>4 DEF Remembered
  <2>8. (\A f, g \in fires : Apart(f, g))'
    <3> SUFFICES ASSUME NEW f \in fires, NEW g \in fires, NEW p, NEW q, p = Lasting(f), q = Lasting(g)
                 PROVE  Apart(p, q)
      BY <1>7 DEF Apart
    <3>1. /\ p.name = f.name /\ p.hourly = f.hourly /\ p.time = f.time /\ p.epoch = f.epoch
          /\ p.durable => f.durable \/ f.epoch = epoch
          /\ q.name = g.name /\ q.time = g.time /\ q.epoch = g.epoch
      BY <2>3
    <3>2. g.epoch <= epoch /\ g.epoch \in Nat /\ f.epoch \in Nat /\ epoch \in Nat
      BY <2>3 DEF Remembered, Fires, AlertsInv, AlertTypes
    <3>3. p # q => f # g
      OBVIOUS
    <3>4. Apart(f, g)
      BY DEF AlertsInv
    <3>5. QED
      BY <3>1, <3>2, <3>3, <3>4 DEF Apart
  <2>9. QED
    BY <2>4, <2>5, <2>6, <2>7, <2>8 DEF AlertsInv
<1>8. QED
  <2>1. UNCHANGED <<recorded, fires>> \/ (recorded' = recorded \cup {e} /\ fires' = {Lasting(f) : f \in fires})
    BY <1>2 DEF Alerts!AppendEvent
  <2>2. QED
    BY <1>6, <1>7, <2>1

-----------------------------------------------------------------------------
(* The process and its ticks *)

(* Numbers below a bound have a greatest one. *)
LEMMA LatestTime ==
  ASSUME NEW S \in SUBSET Nat, S # {}, NEW b \in Nat, \A t \in S : t <= b
  PROVE  Alerts!MaxOf(S) \in S /\ \A t \in S : t <= Alerts!MaxOf(S)
PROOF
<1> DEFINE R == {ss \in Nat \X Nat : ss[1] < ss[2]}
           T == {m \in Nat : b - m \in S}
<1>1. IsWellFoundedOn(R, Nat)
  BY NatLessThanWellFounded DEF OpToRel
<1>2. \A x, y \in Nat : x < y => <<x, y>> \in R
  OBVIOUS
<1>3. T \in SUBSET Nat /\ T # {} /\ \A t \in S : b - t \in T
  <2>1. \A t \in S : b - t \in Nat /\ b - (b - t) = t
    OBVIOUS
  <2>2. QED
    BY <2>1
<1> HIDE DEF R
<1>4. PICK m \in T : \A y \in T : ~(<<y, m>> \in R)
  <2> HIDE DEF T
  <2>1. QED
    BY <1>1, <1>3, WFMin, Zenon
<1>5. m \in Nat /\ b - m \in S /\ \A y \in T : ~(y < m)
  BY <1>2, <1>3, <1>4
<1>6. \A t \in S : t <= b - m
  BY <1>3, <1>5
<1>7. QED
  BY <1>5, <1>6 DEF Alerts!MaxOf

(* A new process is seeded from the recorded. *)
LEMMA CrashKeeps ==
  ASSUME AlertsInv, ActionAssumption, Alerts!Crash
  PROVE  AlertsInv'
PROOF
<1>1. /\ epoch' = epoch + 1 /\ epoch \in Nat /\ UNCHANGED <<ticks, actions, recorded, fires>> /\ ticks \in Nat
      /\ last_fired' = [n \in Alerts!Names |-> IF Alerts!LastFired(n) = {} THEN Null ELSE Alerts!MaxOf(Alerts!LastFired(n))]
      /\ run' = [r \in Evaluations |-> IF run[r].pc \in {"idle", "done", "failed", "terminated"} THEN run[r]
                                      ELSE [run[r] EXCEPT !.pc = "lost"]]
  BY DEF Alerts!Crash, AlertsInv, AlertTypes
<1>2. Alerts!Names' = Alerts!Names /\ Event' = Event
  BY <1>1, NamesStay DEF Event
<1>3. ASSUME NEW n \in Alerts!Names
      PROVE  /\ last_fired'[n] \in Times
             /\ \A t \in Alerts!LastFired(n) : last_fired'[n] \in Nat /\ t <= last_fired'[n]
  <2> DEFINE S == Alerts!LastFired(n)
  <2>1. S \in SUBSET Nat /\ \A t \in S : t <= ticks
    BY DEF Alerts!LastFired, AlertsInv, AlertTypes, EventInv, Event
  <2>2. last_fired'[n] = IF S = {} THEN Null ELSE Alerts!MaxOf(S)
    BY <1>1
  <2> HIDE DEF S
  <2>3. CASE S = {}
    BY <2>2, <2>3 DEF Times, S
  <2>4. CASE S # {}
    <3>1. Alerts!MaxOf(S) \in S /\ \A t \in S : t <= Alerts!MaxOf(S)
      BY <1>1, <2>1, <2>4, LatestTime
    <3>2. QED
      BY <2>1, <2>2, <2>4, <3>1 DEF Times, S
  <2>5. QED
    BY <2>3, <2>4
<1>4. ASSUME NEW r \in Evaluations
      PROVE  /\ run'[r] \in EvaluationRecords /\ run'[r].pc \in {"idle", "done", "failed", "terminated", "lost"}
             /\ run'[r].pc # "lost" => run'[r] = run[r]
             /\ run'[r].time = run[r].time /\ run'[r].next = run[r].next
             /\ run[r].pc # "idle" => run'[r].pc # "idle"
  BY <1>1 DEF AlertsInv, AlertTypes, EvaluationRecords, Labels
<1>5. AlertTypes'
  <2>1. run' \in [Evaluations -> EvaluationRecords]
    BY <1>1, <1>4
  <2>2. last_fired' \in [Alerts!Names -> Times]
    BY <1>1, <1>3
  <2>3. QED
    BY <1>1, <1>2, <2>1, <2>2 DEF AlertsInv, AlertTypes, EvaluationRecords, Fires
<1>6. EventInv'
  BY <1>1 DEF AlertsInv, EventInv
<1>7. RunInv'
  <2> SUFFICES ASSUME NEW r \in Evaluations
               PROVE  (SavedBy(run[r]) /\ Placed(run[r]) /\ Reserved(run[r]))'
    BY DEF RunInv
  <2>1. SavedBy(run[r]) /\ Placed(run[r])
    BY DEF AlertsInv, RunInv
  <2>2. QED
    BY <2>1, <1>1, <1>4 DEF SavedBy, Placed, Reserved, Evaluating
<1>8. FireInv'
  <2> SUFFICES ASSUME NEW f \in fires
               PROVE  Remembered(f)'
    BY <1>1 DEF FireInv
  <2>1. Remembered(f) /\ f.name \in Alerts!Names /\ f.run \in Evaluations /\ f.epoch \in Nat
    BY DEF AlertsInv, FireInv, AlertTypes, Fires
  <2>2. run'[f.run].pc \notin Before /\ run'[f.run].pc \notin Evaluating
    BY <2>1, <1>4 DEF Remembered, Before, Evaluating
  <2>3. f.durable => last_fired'[f.name] \in Nat /\ f.time <= last_fired'[f.name]
    BY <2>1, <1>3 DEF Remembered, Alerts!LastFired
  <2>4. f.epoch <= epoch' /\ f.epoch # epoch'
    BY <2>1, <1>1 DEF Remembered
  <2>5. QED
    BY <1>1, <2>1, <2>2, <2>3, <2>4 DEF Remembered
<1>9. (\A f, g \in fires : Apart(f, g))'
  BY <1>1 DEF AlertsInv, Apart
<1>10. QED
  BY <1>5, <1>6, <1>7, <1>8, <1>9 DEF AlertsInv

(* Time passes, but not past the window of an evaluation. *)
LEMMA TickKeeps ==
  ASSUME AlertsInv, ActionAssumption, Alerts!Tick
  PROVE  AlertsInv'
PROOF
<1>1. /\ ticks' = ticks + 1 /\ ticks \in Nat /\ UNCHANGED <<epoch, actions, last_fired, recorded, run, fires>>
      /\ \A r \in Evaluations : run[r].pc \in Evaluating => ticks + 1 < run[r].time + Hour
  BY DEF Alerts!Tick, Evaluating, AlertsInv, AlertTypes
<1>2. Alerts!Names' = Alerts!Names /\ Event' = Event
  BY <1>1, NamesStay DEF Event
<1>3. AlertTypes'
  BY <1>1, <1>2 DEF AlertsInv, AlertTypes, EvaluationRecords, Fires
<1>4. EventInv'
  BY <1>1 DEF AlertsInv, AlertTypes, EventInv, Event
<1>5. RunInv'
  <2> SUFFICES ASSUME NEW r \in Evaluations
               PROVE  (SavedBy(run[r]) /\ Placed(run[r]) /\ Reserved(run[r]))'
    BY DEF RunInv
  <2>1. SavedBy(run[r]) /\ Placed(run[r]) /\ Reserved(run[r]) /\ run[r].time \in Nat
    BY DEF AlertsInv, AlertTypes, RunInv, EvaluationRecords
  <2>2. QED
    BY <2>1, <1>1, <1>2 DEF SavedBy, Placed, Reserved
<1>6. FireInv'
  BY <1>1 DEF AlertsInv, FireInv, Remembered
<1>7. (\A f, g \in fires : Apart(f, g))'
  BY <1>1 DEF AlertsInv, Apart
<1>8. QED
  BY <1>3, <1>4, <1>5, <1>6, <1>7 DEF AlertsInv

-----------------------------------------------------------------------------

(* OncePerWindow, StoppedRunsLeaveEvidence: an hourly alert goes out once an
   hour, whichever runs share the engine and whenever the process restarts,
   unless the process ended before its event was appended; and a run that
   fail_pipeline stops has saved everything and considered every action. *)
THEOREM AlertsGoOutOncePerWindow ==
  ASSUME ActionAssumption
  PROVE  Alerts!Spec => [](Alerts!OncePerWindow /\ Alerts!StoppedRunsLeaveEvidence)
PROOF
<1>1. Alerts!Init => AlertsInv
  <2> SUFFICES ASSUME Alerts!Init
               PROVE  AlertsInv
    OBVIOUS
  <2>1. ticks = 0 /\ epoch = 0 /\ recorded = {} /\ fires = {} /\ actions \in ActionLists
          /\ last_fired = [n \in Alerts!Names |-> Null] /\ run = [r \in Evaluations |-> Alerts!Idle]
    BY DEF Alerts!Init
  <2>2. Alerts!Idle \in EvaluationRecords /\ SavedBy(Alerts!Idle) /\ Placed(Alerts!Idle) /\ Reserved(Alerts!Idle)
    BY <2>1 DEF Alerts!Idle, EvaluationRecords, Labels, Before, Evaluating, SavedBy, Placed, Reserved
  <2>3. AlertTypes
    BY <2>1, <2>2 DEF AlertTypes, Times
  <2>4. RunInv
    BY <2>1, <2>2 DEF RunInv
  <2>5. QED
    BY <2>1, <2>3, <2>4 DEF AlertsInv, EventInv, FireInv
<1>2. AlertsInv /\ [Alerts!Next]_(Alerts!vars) => AlertsInv'
  <2> SUFFICES ASSUME AlertsInv, [Alerts!Next]_(Alerts!vars)
               PROVE  AlertsInv'
    OBVIOUS
  <2>1. CASE UNCHANGED Alerts!vars
    <3>1. UNCHANGED <<ticks, epoch, actions, last_fired, recorded, run, fires>>
      BY <2>1 DEF Alerts!vars
    <3>2. Alerts!Names' = Alerts!Names /\ Event' = Event
      BY <3>1, NamesStay DEF Event
    <3>3. AlertTypes'
      BY <3>1, <3>2 DEF AlertsInv, AlertTypes, EvaluationRecords, Fires
    <3>4. EventInv' /\ FireInv' /\ (\A f, g \in fires : Apart(f, g))'
      BY <3>1 DEF AlertsInv, EventInv, FireInv, Remembered, Apart
    <3>5. RunInv'
      BY <3>1, <3>2 DEF AlertsInv, RunInv, SavedBy, Placed, Reserved
    <3>6. QED
      BY <3>3, <3>4, <3>5 DEF AlertsInv
  <2>2. QED
    BY <2>1, AlertStartKeeps, AlertSaveKeeps, ListenKeeps, DecideKeeps, ExecuteKeeps, RecordKeeps, AlertAppendKeeps, FinishKeeps,
       CrashKeeps, TickKeeps DEF Alerts!Next
<1>3. AlertsInv => Alerts!OncePerWindow /\ Alerts!StoppedRunsLeaveEvidence
  <2> SUFFICES ASSUME AlertsInv
               PROVE  Alerts!OncePerWindow /\ Alerts!StoppedRunsLeaveEvidence
    OBVIOUS
  <2>1. Alerts!OncePerWindow
    BY DEF AlertsInv, Apart, Alerts!OncePerWindow
  <2>2. AllTables = DOMAIN Alerts!Following
    BY DEF Alerts!Following, AllTables
  <2>3. Alerts!StoppedRunsLeaveEvidence
    BY <2>2 DEF AlertsInv, RunInv, SavedBy, Placed, Alerts!StoppedRunsLeaveEvidence
  <2>4. QED
    BY <2>1, <2>3
<1>4. QED
  BY <1>1, <1>2, <1>3, PTL DEF Alerts!Spec
=============================================================================
