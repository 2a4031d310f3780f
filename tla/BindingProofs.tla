--------------------------- MODULE BindingProofs ---------------------------
(***************************************************************************)
(* What a monitored table guarantees for every set of rules, applications, *)
(* mappings and requests.                                                  *)
(***************************************************************************)
EXTENDS Binding, SequenceTheorems, TLAPS

-----------------------------------------------------------------------------
(* The inductive invariant: requests *)

Kinds == DOMAIN Plans

Phases ==
  {"mat", "thaw", "raise", "roll", "accept", "freeze", "gate", "deny", "withdraw", "mark", "publish", "snapshot",
   "activate", "settle", "refreeze", "apply", "unapply", "attach", "drop", "forget"}

Steps ==
  {"list", "check", "lookup", "update", "insert", "delete", "suppress", "render", "read", "write", "set", "compute", "bump"}

Registered == [approved : BOOLEAN, version : 0..MaxVersion]

Contained == [version : Versions, content : Contents, edit : Edits]

RefSets == [Apps -> Refs \cup {None}]

Busy ==
  [kind : Kinds, plan : Seq(Phases) \ {<<>>}, step : Steps, app : Apps, key : Keys,
   body : Applications, content : Contents, todo : SUBSET (Apps \cup Keys),
   copy : [Apps -> Applications \cup {None}], check : Contained \cup {None},
   seen : [Groups -> Checks \cup {None}], number : 0..MaxVersion, refs : RefSets \cup {None}]

\* What is ahead of a request: an activation is of a publication, forgets what
\* it applied only after it applied it, and a publication has a snapshot to store.
Shaped(kind, plan) ==
  \A i \in 1..Len(plan) :
    /\ plan[i] = "forget" => i = 1 \/ (i = 2 /\ plan[1] = "apply")
    /\ plan[i] \in {"forget", "activate"} => kind = "publish"
    /\ kind = "publish" /\ plan[i] \in {"apply", "attach"} => i = 1 /\ Len(plan) >= 2 /\ plan[2] = "forget"
    /\ plan[i] = "publish" => i = 1 /\ Len(plan) >= 2

Writing(b) == Head(b.plan) = "mat" /\ b.step \in {"read", "write"}
Saving(b) == Head(b.plan) \in {"freeze", "refreeze"} /\ b.step \in {"bump", "insert", "update"}
Numbered(b) == Saving(b) \/ (Head(b.plan) = "refreeze" /\ b.step = "compute")

\* What a phase has read by the step it is at.
HasRead(b) ==
  /\ Head(b.plan) = "unapply" /\ b.step \in {"delete", "suppress"} => b.copy[b.app] # None
  /\ Head(b.plan) = "mat" /\ b.step \in {"render", "read", "write"} => \A a \in Apps \cap b.todo : b.copy[a] # None
  /\ Writing(b) => b.copy[b.app] # None /\ b.check \in Contained /\ Fits[b.check.content][b.copy[b.app].mapping] # {}
  /\ Saving(b) => b.refs # None
  /\ Numbered(b) => b.number # 0

Fresh(b) ==
  b.step \in {"list", "check"} /\ b.copy = NoCopy /\ b.check = None /\ b.seen = NoneSeen /\ b.number = 0 /\ b.refs = None

Sound(b) == b \in Busy /\ Shaped(b.kind, b.plan) /\ HasRead(b)

RequestsOK == req \in [Requests -> Busy \cup {Idle}] /\ \A q \in Requests : req[q] = Idle \/ Sound(req[q])

StoreOK ==
  /\ saved \in [Rules -> SUBSET Contents]
  /\ snap \in [Rules -> [Versions -> SUBSET Contents]]

TypeInv == TypeOK /\ StoreOK /\ RequestsOK /\ minted \subseteq Apps

\* What of it is not about requests.
TablesOK ==
  /\ table \in [status : RowStatuses, version : 0..MaxVersion] \cup {None}
  /\ apps \in [Apps -> Applications \cup {None}]
  /\ rows \in [Keys -> Checks \cup {None}]
  /\ frozen \in [Versions -> RefSets \cup {None}]
  /\ staged \in [Rules -> Mappings \cup {None}]
  /\ suppressed \subseteq Rules \X Mappings
  /\ reg \in [Rules -> Registered \cup {None}]
DataOK == TablesOK /\ StoreOK /\ autoUpgrade \in BOOLEAN /\ ops \in 0..MaxOps /\ minted \subseteq Apps

\* A request that is in an activation.
Forgets(b) == \E i \in 1..Len(b.plan) : b.plan[i] = "forget"

-----------------------------------------------------------------------------
(* The inductive invariant: reviews, versions, staged applications, contents *)

\* Whatever is or will be approved or frozen was decided for that version.
Decided(a, version) == <<a, version>> \in decided
RowsAreReviewed == \A k \in Keys : rows[k] # None /\ rows[k].status = "approved" => Decided(k[1], rows[k].version)
VersionsAreReviewed ==
  \A v \in Versions, a \in Apps : frozen[v] # None /\ frozen[v][a] # None => Decided(a, frozen[v][a].version)
SeenIsReviewed(b) ==
  Head(b.plan) = "mat" /\ b.step = "write" =>
    \A g \in Groups : b.seen[g] # None /\ b.seen[g].status = "approved" => Decided(b.app, b.seen[g].version)
RefsAreReviewed(b) == Saving(b) => \A a \in Apps : b.refs[a] # None => Decided(a, b.refs[a].version)
ReviewInv ==
  ~autoUpgrade =>
    /\ RowsAreReviewed /\ VersionsAreReviewed
    /\ \A q \in Requests : req[q] # Idle => SeenIsReviewed(req[q]) /\ RefsAreReviewed(req[q])

\* The versions below the one that is about to be shown can be run.
Covered(v) == frozen[v] # None \/ Freezing(v) \/ v \in cut
VersionInv ==
  /\ VersionHasSnapshot
  /\ \A q \in Requests : Phase(q, "freeze", "bump") => \A v \in 1..(req[q].number - 1) : Covered(v)

\* An activation forgets what is staged for a rule only after it was applied.
Keeps(b) ==
  Forgets(b) =>
    \A k \in asked : k[1] = b.body.rule => k \in honoured \/ (Head(b.plan) = "apply" /\ k[2] = b.body.mapping)
StagingInv ==
  /\ asked \subseteq Rules \X Mappings
  /\ StagedIsNotLost
  /\ \A q \in Requests : req[q] # Idle => Keeps(req[q])

\* An application never changes its rule, not even in the copies of requests,
\* and a check has the content its rule has stored for the version it names.
Named(a, r) ==
  \/ apps[a] # None /\ apps[a].rule = r
  \/ \E q \in Requests : req[q] # Idle /\ req[q].copy[a] # None /\ req[q].copy[a].rule = r
RulesAreFixed == \A a \in Apps, r, s \in Rules : Named(a, r) /\ Named(a, s) => r = s
NamedAreMinted == \A a \in Apps, r \in Rules : Named(a, r) => a \in minted
RowsAreMinted == \A k \in Keys : rows[k] # None => k[1] \in minted
RowsAreStored ==
  \A k \in Keys, r \in Rules : Named(k[1], r) /\ rows[k] # None => snap[r][rows[k].version] = {rows[k].content}
VersionsAreStored ==
  \A v \in Versions, a \in Apps :
    frozen[v] # None /\ frozen[v][a] # None => snap[frozen[v][a].rule][frozen[v][a].version] # {}
CheckIsStored(b) == Writing(b) => snap[b.copy[b.app].rule][b.check.version] = {b.check.content}
RefsAreStored(b) == Saving(b) => \A a \in Apps : b.refs[a] # None => snap[b.refs[a].rule][b.refs[a].version] # {}
StoredOnce == \A r \in Rules, v \in Versions, x, y \in Contents : x \in snap[r][v] /\ y \in snap[r][v] => x = y
ContentInv ==
  /\ StoredOnce /\ RulesAreFixed /\ NamedAreMinted /\ RowsAreMinted /\ RowsAreStored /\ VersionsAreStored
  /\ \A q \in Requests : req[q] # Idle => CheckIsStored(req[q]) /\ RefsAreStored(req[q])

-----------------------------------------------------------------------------
(* Steps *)

\* What becomes of the entry b of a request in most steps.
CopiesOf(b) == {NoCopy, apps} \cup (IF b = Idle THEN {} ELSE {b.copy})
Quiet(b, c) ==
  c = Idle \/ /\ Sound(c) /\ ~Writing(c) /\ ~Saving(c)
              /\ c.copy \in CopiesOf(b)
              /\ ~Forgets(c) \/ (b # Idle /\ c.plan = b.plan /\ c.body = b.body)

MovesTo(q, c) == req' = [req EXCEPT ![q] = c]
QuietStep(q) == \E c : MovesTo(q, c) /\ Quiet(req[q], c)

-----------------------------------------------------------------------------
(* Plans and requests *)

(* A plan of one phase is a nonempty sequence. *)
LEMMA Tuple1 ==
  ASSUME NEW S, NEW a \in S
  PROVE  <<a>> \in Seq(S) \ {<<>>}
PROOF
  OBVIOUS

(* The same for two phases. *)
LEMMA Tuple2 ==
  ASSUME NEW S, NEW a \in S, NEW b \in S
  PROVE  <<a, b>> \in Seq(S) \ {<<>>}
PROOF
  OBVIOUS

(* The same for three phases. *)
LEMMA Tuple3 ==
  ASSUME NEW S, NEW a \in S, NEW b \in S, NEW c \in S
  PROVE  <<a, b, c>> \in Seq(S) \ {<<>>}
PROOF
  OBVIOUS

(* The same for four phases. *)
LEMMA Tuple4 ==
  ASSUME NEW S, NEW a \in S, NEW b \in S, NEW c \in S, NEW d \in S
  PROVE  <<a, b, c, d>> \in Seq(S) \ {<<>>}
PROOF
  OBVIOUS

(* The same for five phases. *)
LEMMA Tuple5 ==
  ASSUME NEW S, NEW a \in S, NEW b \in S, NEW c \in S, NEW d \in S, NEW e \in S
  PROVE  <<a, b, c, d, e>> \in Seq(S) \ {<<>>}
PROOF
  OBVIOUS

(* The same for seven phases. *)
LEMMA Tuple7 ==
  ASSUME NEW S, NEW a \in S, NEW b \in S, NEW c \in S, NEW d \in S, NEW e \in S, NEW f \in S, NEW g \in S
  PROVE  <<a, b, c, d, e, f, g>> \in Seq(S) \ {<<>>}
PROOF
  OBVIOUS

(* The plans the routes arrive with. *)
LEMMA PlansAreListed ==
  \A kind \in Kinds : \A plan \in Plans[kind] :
    \/ kind = "submit" /\ plan = <<"mat", "thaw", "raise", "roll">>
    \/ kind = "submit" /\ plan = <<"mat", "thaw", "raise", "roll", "accept", "roll", "freeze">>
    \/ kind = "publish" /\ plan = <<"publish", "snapshot", "activate", "mat", "settle">>
    \/ kind = "approve" /\ plan = <<"gate", "accept", "roll", "freeze">>
    \/ kind = "save" /\ plan = <<"unapply", "apply">>
    \/ kind # "publish" /\ plan = <<"gate", "deny", "mark">>
    \/ kind # "publish" /\ plan = <<"gate", "withdraw", "mark">>
    \/ kind # "publish" /\ plan = <<"raise", "accept", "refreeze">>
    \/ kind # "publish" /\ \E p \in {"accept", "deny"} : plan = <<p, "refreeze">>
    \/ kind # "publish" /\ \E p \in {"raise", "withdraw", "apply", "unapply", "attach", "drop"} : plan = <<p>>
PROOF
  BY DEF Kinds, Plans

Arriving(kind, plan) ==
  plan \in Seq(Phases) \ {<<>>} /\ Shaped(kind, plan) /\ \A i \in 1..Len(plan) : plan[i] # "forget"

(* A request arrives in good shape, whatever its kind and plan. *)
LEMMA PlansAreShaped ==
  ASSUME NEW kind \in Kinds, NEW plan \in Plans[kind]
  PROVE  Arriving(kind, plan)
PROOF
<1>1. CASE kind = "submit" /\ plan = <<"mat", "thaw", "raise", "roll">>
  <2>1. plan \in Seq(Phases) \ {<<>>}
    BY <1>1, Tuple4 DEF Phases
  <2>2. Len(plan) = 4 /\ plan[1] = "mat" /\ plan[2] = "thaw" /\ plan[3] = "raise" /\ plan[4] = "roll"
    BY <1>1
  <2>3. QED
    BY <1>1, <2>1, <2>2 DEF Arriving, Shaped
<1>2. CASE kind = "submit" /\ plan = <<"mat", "thaw", "raise", "roll", "accept", "roll", "freeze">>
  <2>1. plan \in Seq(Phases) \ {<<>>}
    BY <1>2, Tuple7 DEF Phases
  <2>2. Len(plan) = 7
    BY <1>2
  <2>3. plan[1] = "mat" /\ plan[2] = "thaw" /\ plan[3] = "raise" /\ plan[4] = "roll" /\ plan[5] = "accept" /\ plan[6] = "roll" /\ plan[7] = "freeze"
    BY <1>2
  <2>4. ASSUME NEW i \in 1..7
        PROVE  plan[i] \in {"mat", "thaw", "raise", "roll", "accept", "freeze"}
    BY ONLY <2>3, i \in 1..7
  <2>5. QED
    BY <1>2, <2>1, <2>2, <2>4 DEF Arriving, Shaped
<1>3. CASE kind = "publish" /\ plan = <<"publish", "snapshot", "activate", "mat", "settle">>
  <2>1. plan \in Seq(Phases) \ {<<>>}
    BY <1>3, Tuple5 DEF Phases
  <2>2. Len(plan) = 5 /\ plan[1] = "publish" /\ plan[2] = "snapshot" /\ plan[3] = "activate" /\ plan[4] = "mat" /\ plan[5] = "settle"
    BY <1>3
  <2>3. kind = "publish"
    BY <1>3
  <2>4. \A i \in 2..5 : plan[i] \notin {"forget", "apply", "attach", "publish"}
    BY <2>2
  <2>5. QED
    BY <2>1, <2>2, <2>3, <2>4 DEF Arriving, Shaped
<1>4. CASE kind = "approve" /\ plan = <<"gate", "accept", "roll", "freeze">>
  <2>1. plan \in Seq(Phases) \ {<<>>}
    BY <1>4, Tuple4 DEF Phases
  <2>2. Len(plan) = 4 /\ plan[1] = "gate" /\ plan[2] = "accept" /\ plan[3] = "roll" /\ plan[4] = "freeze"
    BY <1>4
  <2>3. QED
    BY <1>4, <2>1, <2>2 DEF Arriving, Shaped
<1>5. CASE kind = "save" /\ plan = <<"unapply", "apply">>
  <2>1. plan \in Seq(Phases) \ {<<>>}
    BY <1>5, Tuple2 DEF Phases
  <2>2. Len(plan) = 2 /\ plan[1] = "unapply" /\ plan[2] = "apply"
    BY <1>5
  <2>3. QED
    BY <1>5, <2>1, <2>2 DEF Arriving, Shaped
<1>6. CASE kind # "publish" /\ plan = <<"gate", "deny", "mark">>
  <2>1. plan \in Seq(Phases) \ {<<>>}
    BY <1>6, Tuple3 DEF Phases
  <2>2. Len(plan) = 3 /\ plan[1] = "gate" /\ plan[2] = "deny" /\ plan[3] = "mark"
    BY <1>6
  <2>3. QED
    BY <1>6, <2>1, <2>2 DEF Arriving, Shaped
<1>7. CASE kind # "publish" /\ plan = <<"gate", "withdraw", "mark">>
  <2>1. plan \in Seq(Phases) \ {<<>>}
    BY <1>7, Tuple3 DEF Phases
  <2>2. Len(plan) = 3 /\ plan[1] = "gate" /\ plan[2] = "withdraw" /\ plan[3] = "mark"
    BY <1>7
  <2>3. QED
    BY <1>7, <2>1, <2>2 DEF Arriving, Shaped
<1>8. CASE kind # "publish" /\ plan = <<"raise", "accept", "refreeze">>
  <2>1. plan \in Seq(Phases) \ {<<>>}
    BY <1>8, Tuple3 DEF Phases
  <2>2. Len(plan) = 3 /\ plan[1] = "raise" /\ plan[2] = "accept" /\ plan[3] = "refreeze"
    BY <1>8
  <2>3. QED
    BY <1>8, <2>1, <2>2 DEF Arriving, Shaped
<1>9. ASSUME NEW p \in {"accept", "deny"}, kind # "publish", plan = <<p, "refreeze">>
      PROVE  Arriving(kind, plan)
  <2>1. plan \in Seq(Phases) \ {<<>>}
    BY <1>9, Tuple2 DEF Phases
  <2>2. Len(plan) = 2 /\ plan[1] = p /\ plan[2] = "refreeze"
    BY <1>9
  <2>3. QED
    BY <1>9, <2>1, <2>2 DEF Arriving, Shaped
<1>10. ASSUME NEW p \in {"raise", "withdraw", "apply", "unapply", "attach", "drop"}, kind # "publish", plan = <<p>>
      PROVE  Arriving(kind, plan)
  <2>1. plan \in Seq(Phases) \ {<<>>}
    BY <1>10, Tuple1 DEF Phases
  <2>2. Len(plan) = 1 /\ plan[1] = p
    BY <1>10
  <2>3. QED
    BY <1>10, <2>1, <2>2 DEF Arriving, Shaped
<1>11. QED
  BY <1>1, <1>2, <1>3, <1>4, <1>5, <1>6, <1>7, <1>8, <1>9, <1>10, PlansAreListed

(* What is left of a plan after its first phase. *)
LEMMA RestIsShaped ==
  ASSUME NEW kind, NEW plan \in Seq(Phases), Len(plan) >= 2, Shaped(kind, plan)
  PROVE  /\ Tail(plan) \in Seq(Phases) \ {<<>>} /\ Len(Tail(plan)) = Len(plan) - 1
         /\ \A i \in 1..Len(Tail(plan)) : Tail(plan)[i] = plan[i + 1]
         /\ Head(Tail(plan)) = plan[2]
         /\ Shaped(kind, Tail(plan))
PROOF
<1>1. plan # <<>>
  OBVIOUS
<1>2. /\ Tail(plan) \in Seq(Phases) /\ Len(Tail(plan)) = Len(plan) - 1
      /\ \A i \in 1..Len(Tail(plan)) : Tail(plan)[i] = plan[i + 1]
  BY <1>1, HeadTailProperties
<1>3. Tail(plan) # <<>> /\ Len(plan) \in Nat
  <2>1. Len(plan) \in Nat
    OBVIOUS
  <2>2. Len(Tail(plan)) # 0
    BY <1>2, <2>1
  <2>3. QED
    BY <2>1, <2>2
<1>4. Head(Tail(plan)) = plan[2]
  BY <1>2, <1>3
<1>5. ASSUME NEW i \in 1..Len(Tail(plan))
      PROVE  i + 1 \in 1..Len(plan) /\ i + 1 # 1 /\ Tail(plan)[i] = plan[i + 1]
  BY <1>2, <1>3
<1>6. Shaped(kind, Tail(plan))
  BY <1>3, <1>5 DEF Shaped
<1>7. QED
  BY <1>2, <1>3, <1>4, <1>6

(* A request goes on with its next phase as if it had read nothing. *)
LEMMA AdvanceIsFresh ==
  ASSUME NEW b \in Busy, Shaped(b.kind, b.plan), Len(b.plan) # 1
  PROVE  /\ Sound(Advance(b)) /\ Fresh(Advance(b))
         /\ Advance(b).plan = Tail(b.plan) /\ Advance(b).body = b.body /\ Advance(b).kind = b.kind
         /\ Advance(b).content = b.content
PROOF
<1>1. b.plan \in Seq(Phases) /\ b.plan # <<>> /\ Len(b.plan) >= 2
  <2>1. b.plan \in Seq(Phases) /\ b.plan # <<>>
    BY DEF Busy
  <2>2. Len(b.plan) \in Nat \ {0}
    BY <2>1
  <2>3. \A n \in Nat \ {0} : n # 1 => n >= 2
    OBVIOUS
  <2>4. QED
    BY <2>1, <2>2, <2>3
<1>2. Tail(b.plan) \in Seq(Phases) \ {<<>>} /\ Shaped(b.kind, Tail(b.plan))
  BY <1>1, RestIsShaped
<1>3. FirstStep(b.kind, Tail(b.plan)) \in {"list", "check"}
  BY DEF FirstStep
<1>4. (IF b.kind \in OnRow THEN {b.key} ELSE {}) \in SUBSET (Apps \cup Keys)
  BY DEF Busy
<1>5. NoCopy \in [Apps -> Applications \cup {None}] /\ NoneSeen \in [Groups -> Checks \cup {None}]
  BY DEF NoCopy, NoneSeen
<1>6. 0 \in 0..MaxVersion
  BY BindingAssumption
<1> DEFINE step == FirstStep(b.kind, Tail(b.plan))
           todo == IF b.kind \in OnRow THEN {b.key} ELSE {}
<1>7. Advance(b) = [b EXCEPT !.plan = Tail(b.plan), !.step = step, !.todo = todo,
                             !.copy = NoCopy, !.check = None, !.seen = NoneSeen, !.number = 0, !.refs = None]
  BY DEF Advance
<1> HIDE DEF step, todo
<1>8. step \in {"list", "check"} /\ todo \in SUBSET (Apps \cup Keys)
  BY <1>3, <1>4 DEF step, todo
<1>9. Advance(b) \in Busy
  <2>1. b = [kind |-> b.kind, plan |-> b.plan, step |-> b.step, app |-> b.app, key |-> b.key, body |-> b.body,
             content |-> b.content, todo |-> b.todo, copy |-> b.copy, check |-> b.check, seen |-> b.seen,
             number |-> b.number, refs |-> b.refs]
    BY DEF Busy
  <2>2. Advance(b) = [kind |-> b.kind, plan |-> Tail(b.plan), step |-> step, app |-> b.app, key |-> b.key, body |-> b.body,
             content |-> b.content, todo |-> todo, copy |-> NoCopy, check |-> None, seen |-> NoneSeen,
             number |-> 0, refs |-> None]
    BY <1>7, <2>1
  <2>3. QED
    BY <1>2, <1>5, <1>6, <1>8, <2>2 DEF Busy, Steps
<1>10. /\ Fresh(Advance(b)) /\ Advance(b).plan = Tail(b.plan) /\ Advance(b).body = b.body
       /\ Advance(b).kind = b.kind /\ Advance(b).content = b.content
  BY <1>7, <1>8 DEF Fresh, Busy
<1>11. HasRead(Advance(b))
  BY <1>10 DEF HasRead, Fresh, Writing, Saving, Numbered
<1>12. QED
  BY <1>2, <1>9, <1>10, <1>11 DEF Sound

(* A request that goes on with its next phase carries nothing it has read. *)
LEMMA FreshIsQuiet ==
  ASSUME NEW b \in Busy, Shaped(b.kind, b.plan), Len(b.plan) # 1, Head(b.plan) # "apply"
  PROVE  \A a : Quiet(a, Advance(b))
PROOF
<1> DEFINE c == Advance(b)
<1>1. Sound(c) /\ Fresh(c) /\ c.plan = Tail(b.plan)
  BY AdvanceIsFresh
<1>2. b.plan \in Seq(Phases) /\ b.plan # <<>> /\ Head(b.plan) = b.plan[1]
  BY DEF Busy
<1>3. Len(c.plan) = Len(b.plan) - 1 /\ Len(b.plan) \in Nat /\ \A i \in 1..Len(c.plan) : c.plan[i] = b.plan[i + 1]
  BY <1>1, <1>2, HeadTailProperties
<1>4. ASSUME NEW i \in 1..Len(c.plan)
      PROVE  c.plan[i] # "forget"
  <2>1. i + 1 \in 1..Len(b.plan) /\ i + 1 # 1 /\ c.plan[i] = b.plan[i + 1]
    BY <1>3
  <2>2. QED
    BY <2>1, <1>2 DEF Shaped
<1>5. ~Writing(c) /\ ~Saving(c) /\ \A a : c.copy \in CopiesOf(a)
  BY <1>1 DEF Fresh, Writing, Saving, CopiesOf
<1>6. QED
  BY <1>1, <1>4, <1>5 DEF Quiet, Forgets

(* A request of a reachable state that is not idle is sound. *)
LEMMA SoundRequest ==
  ASSUME TypeInv, NEW q \in Requests, req[q] # Idle
  PROVE  /\ Sound(req[q]) /\ req[q] \in Busy /\ Shaped(req[q].kind, req[q].plan) /\ HasRead(req[q])
         /\ req[q].plan \in Seq(Phases) /\ req[q].plan # <<>> /\ Head(req[q].plan) = req[q].plan[1]
         /\ Len(req[q].plan) \in Nat \ {0}
PROOF
<1>1. Sound(req[q]) /\ req[q] \in Busy /\ Shaped(req[q].kind, req[q].plan) /\ HasRead(req[q])
  BY DEF TypeInv, RequestsOK, Sound
<1>2. req[q].plan \in Seq(Phases) /\ req[q].plan # <<>>
  BY <1>1 DEF Busy
<1>3. QED
  BY <1>1, <1>2

(* A request that fails is idle again. *)
LEMMA FailIsQuiet ==
  ASSUME NEW q \in Requests, Fail(q)
  PROVE  QuietStep(q)
PROOF
  BY DEF Fail, QuietStep, MovesTo, Quiet

(* A request that returns from a phase is idle again or goes on with its next one. *)
LEMMA ReturnIsQuiet ==
  ASSUME TypeInv, NEW q \in Requests, req[q] # Idle, Head(req[q].plan) # "apply", Return(q)
  PROVE  QuietStep(q)
PROOF
<1>1. MovesTo(q, Advance(req[q]))
  BY DEF Return, MovesTo
<1>2. Quiet(req[q], Advance(req[q]))
  <2>1. CASE Len(req[q].plan) = 1
    BY <2>1 DEF Advance, Quiet
  <2>2. CASE Len(req[q].plan) # 1
    BY <2>2, SoundRequest, FreshIsQuiet
  <2>3. QED
    BY <2>1, <2>2
<1>3. QED
  BY <1>1, <1>2 DEF QuietStep

(* A request that is refused ends; a publication goes on without the application. *)
LEMMA RefuseIsQuiet ==
  ASSUME TypeInv, NEW q \in Requests, req[q] # Idle, Head(req[q].plan) \in {"apply", "attach"}, Refuse(q)
  PROVE  QuietStep(q)
PROOF
<1>1. CASE req[q].kind # "publish"
  BY <1>1, SoundRequest DEF Refuse, QuietStep, MovesTo, Quiet
<1>2. CASE req[q].kind = "publish"
  <2> DEFINE b == req[q]
             d == [b EXCEPT !.plan = Tail(@)]
  <2>1. Len(b.plan) >= 2 /\ b.plan[2] = "forget"
    BY <1>2, SoundRequest DEF Shaped
  <2>2. Tail(b.plan) \in Seq(Phases) \ {<<>>} /\ Shaped(b.kind, Tail(b.plan)) /\ Head(Tail(b.plan)) = "forget"
    BY <2>1, SoundRequest, RestIsShaped
  <2>3. d \in Busy /\ d.plan = Tail(b.plan) /\ d.kind = b.kind
    BY <2>2, SoundRequest DEF Busy
  <2>4. MovesTo(q, Advance(d))
    <3> DEFINE e == IF b.kind = "publish" THEN Advance([b EXCEPT !.plan = Tail(b.plan)]) ELSE Idle
    <3>1. req' = [req EXCEPT ![q] = e]
      BY DEF Refuse
    <3>2. e = Advance(d)
      BY <1>2
    <3> HIDE DEF e
    <3>3. QED
      BY <3>1, <3>2 DEF MovesTo
  <2> HIDE DEF d
  <2>5. Quiet(b, Advance(d))
    <3>1. CASE Len(d.plan) = 1
      BY <3>1 DEF Advance, Quiet
    <3>2. CASE Len(d.plan) # 1
      BY <2>2, <2>3, <3>2, FreshIsQuiet
    <3>3. QED
      BY <3>1, <3>2
  <2>6. QED
    BY <2>4, <2>5 DEF QuietStep
<1>3. QED
  BY <1>1, <1>2

(* A request that moves within its phase. *)
LEMMA MoveIsQuiet ==
  ASSUME TypeInv, NEW q \in Requests, req[q] # Idle, NEW c \in Busy,
         c.plan = req[q].plan, c.kind = req[q].kind, c.body = req[q].body, c.copy \in {req[q].copy, apps},
         HasRead(c), ~Writing(c), ~Saving(c), MovesTo(q, c)
  PROVE  QuietStep(q)
PROOF
  BY SoundRequest DEF QuietStep, Quiet, Sound, CopiesOf

(* The phases that go on with what they have read. *)
Reading(phase) == phase \in {"unapply", "mat", "freeze", "refreeze"}

(* A step within a phase that carries nothing on. *)
LEMMA GotoIsQuiet ==
  ASSUME TypeInv, NEW q \in Requests, req[q] # Idle, NEW step \in Steps, ~Reading(Head(req[q].plan)),
         MovesTo(q, [req[q] EXCEPT !.step = step])
  PROVE  QuietStep(q)
PROOF
<1> DEFINE c == [req[q] EXCEPT !.step = step]
<1>1. c \in Busy /\ c.plan = req[q].plan /\ c.kind = req[q].kind /\ c.body = req[q].body /\ c.copy = req[q].copy
  BY SoundRequest DEF Busy
<1>2. HasRead(c) /\ ~Writing(c) /\ ~Saving(c)
  BY <1>1 DEF HasRead, Writing, Saving, Numbered, Reading
<1> HIDE DEF c
<1>3. MovesTo(q, c)
  BY DEF c
<1>4. QED
  BY <1>1, <1>2, <1>3, MoveIsQuiet

(* A request that has done one of its keys goes on with the others or returns. *)
LEMMA LeftIsQuiet ==
  ASSUME TypeInv, NEW q \in Requests, req[q] # Idle, Head(req[q].plan) \in DOMAIN Moves,
         NEW keys \in SUBSET (Apps \cup Keys),
         MovesTo(q, Left(req[q], keys))
  PROVE  QuietStep(q)
PROOF
<1>1. ~Reading(Head(req[q].plan)) /\ Head(req[q].plan) # "apply"
  BY DEF Moves, Reading
<1>2. CASE keys = {}
  BY <1>1, <1>2, ReturnIsQuiet DEF Left, MovesTo, Return
<1>3. CASE keys # {}
  <2> DEFINE c == [req[q] EXCEPT !.step = "check", !.todo = keys, !.number = 0]
  <2>1. 0 \in 0..MaxVersion
    BY BindingAssumption
  <2> DEFINE b == req[q]
  <2>9. b \in Busy
    BY SoundRequest
  <2>11. "check" \in Steps
    BY DEF Steps
  <2>10. c \in Busy
    BY <2>1, <2>9, <2>11 DEF Busy
  <2>2. c \in Busy /\ c.plan = req[q].plan /\ c.kind = req[q].kind /\ c.body = req[q].body /\ c.copy = req[q].copy
    BY <2>9, <2>10 DEF Busy
  <2>3. HasRead(c) /\ ~Writing(c) /\ ~Saving(c)
    BY <1>1, <2>2 DEF HasRead, Writing, Saving, Numbered, Reading
  <2>4. MovesTo(q, c)
    BY <1>3 DEF Left
  <2> HIDE DEF c
  <2>5. QED
    BY <2>2, <2>3, <2>4, MoveIsQuiet
<1>4. QED
  BY <1>2, <1>3

-----------------------------------------------------------------------------
(* What each step does to its request *)

(* Some picks a member of the set it is given. *)
LEMMA SomeIsMember ==
  ASSUME NEW S, S # {}
  PROVE  Some(S) \in S
PROOF
  BY DEF Some

(* The inputs a request arrives with are of their types. *)
LEMMA InputsAreTyped ==
  ASSUME TypeInv, NEW kind \in Kinds
  PROVE  /\ Targets(kind) \subseteq Apps /\ Indices(kind) \subseteq Groups
         /\ Bodies(kind) \subseteq Applications /\ NewContents(kind) \subseteq Contents
PROOF
<1>1. Some(Apps) \in Apps /\ Some(Groups) \in Groups /\ Some(Contents) \in Contents
  BY SomeIsMember, BindingAssumption
<1>2. minted \subseteq Apps
  BY DEF TypeInv
<1>3. QED
  BY <1>1, <1>2 DEF Targets, Indices, Bodies, NewContents

(* A request that arrives leaves the store alone and is itself quiet. *)
LEMMA ReceiveIsQuiet ==
  ASSUME TypeInv, NEW q \in Requests, Receive(q)
  PROVE  QuietStep(q) /\ ops' \in 0..MaxOps /\ UNCHANGED <<tables, store, autoUpgrade, history>>
PROOF
<1>1. PICK kind \in Kinds :
        \E plan \in Plans[kind], a \in Targets(kind), g \in Indices(kind), app \in Bodies(kind), c \in NewContents(kind) :
          Arrive(q, kind, plan, a, g, app, c)
  BY DEF Receive, Kinds
<1>2. PICK plan \in Plans[kind], a \in Targets(kind), g \in Indices(kind), app \in Bodies(kind), content \in NewContents(kind) :
        Arrive(q, kind, plan, a, g, app, content)
  BY <1>1
<1>3. a \in Apps /\ g \in Groups /\ app \in Applications /\ content \in Contents
  BY InputsAreTyped
<1>4. Arriving(kind, plan)
  BY PlansAreShaped
<1> DEFINE c ==
       [kind |-> kind, plan |-> plan, step |-> FirstStep(kind, plan),
        app |-> a, key |-> <<a, g>>, body |-> app, content |-> content,
        todo |-> IF kind \in OnRow THEN {<<a, g>>} ELSE {},
        copy |-> NoCopy, check |-> None, seen |-> NoneSeen,
        number |-> 0, refs |-> None]
<1>5. <<a, g>> \in Keys
  BY <1>3 DEF Keys
<1>6. FirstStep(kind, plan) \in Steps /\ FirstStep(kind, plan) \in {"list", "check"}
  BY DEF FirstStep, Steps
<1>7. 0 \in 0..MaxVersion /\ ops + 1 \in 0..MaxOps
  BY BindingAssumption DEF TypeInv, TypeOK, Receive
<1>8. NoCopy \in [Apps -> Applications \cup {None}] /\ NoneSeen \in [Groups -> Checks \cup {None}]
  BY DEF NoCopy, NoneSeen
<1>9. c \in Busy
  BY <1>3, <1>4, <1>5, <1>6, <1>7, <1>8 DEF Busy, Arriving
<1>10. c.plan = plan /\ c.kind = kind /\ c.step \in {"list", "check"} /\ c.copy = NoCopy
  BY <1>6
<1>11. MovesTo(q, c) /\ ops' = ops + 1 /\ UNCHANGED <<tables, store, autoUpgrade, history>>
  BY <1>2 DEF Arrive, MovesTo
<1> HIDE DEF c
<1>12. Sound(c) /\ ~Writing(c) /\ ~Saving(c)
  BY <1>4, <1>9, <1>10 DEF Sound, HasRead, Writing, Saving, Numbered, Arriving
<1>13. ~Forgets(c) /\ \A b : c.copy \in CopiesOf(b)
  BY <1>4, <1>10 DEF Forgets, Arriving, CopiesOf
<1>14. QED
  BY <1>7, <1>11, <1>12, <1>13 DEF QuietStep, Quiet

(* Publishing a rule: the request's own claims (PublishRule). *)
LEMMA PublishRuleIsQuiet ==
  ASSUME TypeInv, NEW q \in Requests, PublishRule(q)
  PROVE  QuietStep(q)
PROOF
<1> DEFINE b == req[q]
           r == b.body.rule
           c == [Advance(b) EXCEPT !.number = reg[r].version + 1]
<1>1. b # Idle /\ Head(b.plan) = "publish"
  BY DEF PublishRule, Phase
<1>2. Len(b.plan) # 1
  BY <1>1, SoundRequest DEF Shaped
<1>3. Sound(Advance(b)) /\ \A a : Quiet(a, Advance(b))
  BY <1>1, <1>2, SoundRequest, AdvanceIsFresh, FreshIsQuiet
<1>4. reg[r].version + 1 \in 0..MaxVersion
  <2>1. r \in Rules /\ reg[r] # None /\ reg[r].version < MaxVersion
    BY <1>1, SoundRequest DEF PublishRule, Busy, Applications
  <2>2. reg[r].version \in 0..MaxVersion
    BY <2>1 DEF TypeInv, TypeOK
  <2>3. QED
    BY <2>1, <2>2, BindingAssumption
<1>5. MovesTo(q, c)
  BY DEF PublishRule, MovesTo
<1> DEFINE d == Advance(b)
<1>6. d \in Busy /\ Fresh(d)
  BY <1>1, <1>2, SoundRequest, AdvanceIsFresh DEF Sound
<1> HIDE DEF d
<1>7. c \in Busy /\ c.plan = d.plan /\ c.kind = d.kind /\ c.body = d.body /\ c.copy = d.copy /\ c.step = d.step
  BY <1>4, <1>6 DEF Busy, d
<1>8. HasRead(c) /\ ~Writing(c) /\ ~Saving(c)
  BY <1>6, <1>7 DEF HasRead, Writing, Saving, Numbered, Fresh
<1>9. Shaped(c.kind, c.plan) /\ ~Forgets(c) /\ c.copy \in CopiesOf(b)
  <2>1. Shaped(d.kind, d.plan)
    BY <1>3 DEF Sound, d
  <2>2. d # Idle
    BY <1>6 DEF Busy, Idle
  <2>3. Quiet(Idle, d)
    BY <1>3 DEF d
  <2>4. ~Forgets(d) /\ d.copy = NoCopy
    BY <1>6, <2>2, <2>3 DEF Quiet, Fresh
  <2>5. QED
    BY <1>7, <2>1, <2>4 DEF Forgets, CopiesOf
<1>10. QED
  BY <1>5, <1>7, <1>8, <1>9 DEF QuietStep, Quiet, Sound

(* The check for an existing application: the request's own claims (ApplyCheck). *)
LEMMA ApplyCheckIsQuiet ==
  ASSUME TypeInv, NEW q \in Requests, ApplyCheck(q)
  PROVE  QuietStep(q)
PROOF
<1>1. req[q] # Idle /\ Head(req[q].plan) \in {"apply", "attach"}
  BY DEF ApplyCheck, Phase
<1>2. CASE Refuse(q)
  BY <1>1, <1>2, RefuseIsQuiet
<1>3. CASE Goto(q, "lookup")
  BY <1>1, <1>3, GotoIsQuiet DEF Goto, MovesTo, Reading, Steps
<1>4. QED
  BY <1>2, <1>3 DEF ApplyCheck

(* The lookup before an insert: the request's own claims (ApplyLookup). *)
LEMMA ApplyLookupIsQuiet ==
  ASSUME TypeInv, NEW q \in Requests, ApplyLookup(q)
  PROVE  QuietStep(q)
PROOF
<1> DEFINE same == SameKey(req[q].body)
           step == IF same # {} THEN "update" ELSE "insert"
           c == [req[q] EXCEPT !.step = step, !.todo = same]
<1>1. req[q] # Idle /\ Head(req[q].plan) \in {"apply", "attach"}
  BY DEF ApplyLookup, Phase
<1>2. CASE Fail(q)
  BY <1>2, FailIsQuiet
<1>3. CASE ~Fail(q)
  <2>1. MovesTo(q, c)
    BY <1>3, SoundRequest, <1>1 DEF ApplyLookup, MovesTo, TypeInv, RequestsOK
  <2>2. step \in Steps /\ same \in SUBSET (Apps \cup Keys)
    BY DEF Steps, SameKey, Live
  <2> HIDE DEF step, same
  <2> DEFINE b == req[q]
  <2>5. b \in Busy
    BY <1>1, SoundRequest
  <2>6. c \in Busy
    BY <2>2, <2>5 DEF Busy
  <2>3. c \in Busy /\ c.plan = req[q].plan /\ c.kind = req[q].kind /\ c.body = req[q].body /\ c.copy = req[q].copy
    BY <2>5, <2>6 DEF Busy
  <2>4. HasRead(c) /\ ~Writing(c) /\ ~Saving(c)
    BY <1>1, <2>3 DEF HasRead, Writing, Saving, Numbered
  <2> HIDE DEF c
  <2>7. QED
    BY <1>1, <2>1, <2>3, <2>4, MoveIsQuiet
<1>4. QED
  BY <1>2, <1>3

(* The steps that end their phase or their request. *)
LEMMA EndsAreQuiet ==
  ASSUME TypeInv, NEW q \in Requests,
         \/ PublishSnapshot(q) \/ PublishLost(q) \/ Forget(q) \/ Suppress(q) \/ DropTable(q) \/ CleanupOrphans(q)
         \/ Gate(q) \/ SetTableStatus(q) \/ FreezeInsert(q) \/ RefreezeUpdate(q) \/ Crash(q)
  PROVE  QuietStep(q)
PROOF
<1>1. req[q] # Idle /\ (Fail(q) \/ (Return(q) /\ Head(req[q].plan) # "apply"))
  BY DEF PublishSnapshot, PublishLost, Forget, Suppress, DropTable, CleanupOrphans, Gate, SetTableStatus, SetStatus,
         FreezeInsert, RefreezeUpdate, Crash, Phase
<1>2. QED
  BY <1>1, FailIsQuiet, ReturnIsQuiet

(* Dropping the applications: the request's own claims (DropApplications). *)
LEMMA DropApplicationsIsQuiet ==
  ASSUME TypeInv, NEW q \in Requests, DropApplications(q)
  PROVE  QuietStep(q)
PROOF
<1>1. req[q] # Idle /\ Head(req[q].plan) = "drop"
  BY DEF DropApplications, Phase
<1>2. CASE Fail(q)
  BY <1>2, FailIsQuiet
<1>3. CASE Goto(q, "delete")
  BY <1>1, <1>3, GotoIsQuiet DEF Goto, MovesTo, Reading, Steps
<1>4. QED
  BY <1>2, <1>3 DEF DropApplications

(* Removing the checks of an application: the request's own claims (RemoveChecks). *)
LEMMA RemoveChecksIsQuiet ==
  ASSUME TypeInv, NEW q \in Requests, RemoveChecks(q)
  PROVE  QuietStep(q)
PROOF
<1> DEFINE b == req[q]
           c == [b EXCEPT !.step = "delete", !.copy = apps]
<1>1. b # Idle /\ Head(b.plan) = "unapply"
  BY DEF RemoveChecks, Phase
<1>2. CASE Fail(q)
  BY <1>2, FailIsQuiet
<1>3. CASE ~Fail(q)
  <2>1. MovesTo(q, c) /\ apps[b.app] # None
    BY <1>3, <1>1 DEF RemoveChecks, MovesTo, TypeInv, RequestsOK
  <2>2. b \in Busy /\ apps \in [Apps -> Applications \cup {None}] /\ "delete" \in Steps
    BY <1>1, SoundRequest DEF TypeInv, TypeOK, Steps
  <2>3. c \in Busy
    BY <2>2 DEF Busy
  <2>4. c.plan = b.plan /\ c.kind = b.kind /\ c.body = b.body /\ c.copy = apps /\ c.app = b.app /\ c.step = "delete"
    BY <2>2, <2>3 DEF Busy
  <2>5. HasRead(c) /\ ~Writing(c) /\ ~Saving(c)
    BY <1>1, <2>1, <2>4 DEF HasRead, Writing, Saving, Numbered
  <2> HIDE DEF c
  <2>6. QED
    BY <1>1, <2>1, <2>3, <2>4, <2>5, MoveIsQuiet
<1>4. QED
  BY <1>2, <1>3

(* Removing an application: the request's own claims (RemoveApplication). *)
LEMMA RemoveApplicationIsQuiet ==
  ASSUME TypeInv, NEW q \in Requests, RemoveApplication(q)
  PROVE  QuietStep(q) /\ req[q].copy[req[q].app] # None
PROOF
<1> DEFINE b == req[q]
           c == [b EXCEPT !.step = "suppress"]
<1>1. b # Idle /\ Head(b.plan) = "unapply" /\ b.copy[b.app] # None
  BY SoundRequest DEF RemoveApplication, Phase, HasRead
<1>2. CASE Return(q)
  BY <1>1, <1>2, ReturnIsQuiet
<1>3. CASE Goto(q, "suppress")
  <2>1. MovesTo(q, c)
    BY <1>3, <1>1 DEF Goto, MovesTo, TypeInv, RequestsOK
  <2>2. b \in Busy /\ "suppress" \in Steps
    BY <1>1, SoundRequest DEF Steps
  <2>3. c \in Busy
    BY <2>2 DEF Busy
  <2>4. c.plan = b.plan /\ c.kind = b.kind /\ c.body = b.body /\ c.copy = b.copy /\ c.app = b.app /\ c.step = "suppress"
    BY <2>2, <2>3 DEF Busy
  <2>5. HasRead(c) /\ ~Writing(c) /\ ~Saving(c)
    BY <1>1, <2>4 DEF HasRead, Writing, Saving, Numbered
  <2> HIDE DEF c
  <2>6. QED
    BY <1>1, <2>1, <2>3, <2>4, <2>5, MoveIsQuiet
<1>4. QED
  BY <1>1, <1>2, <1>3 DEF RemoveApplication

(* Listing what is to be rendered: the request's own claims (MaterializeList). *)
LEMMA MaterializeListIsQuiet ==
  ASSUME TypeInv, NEW q \in Requests, MaterializeList(q)
  PROVE  QuietStep(q)
PROOF
<1> DEFINE b == req[q]
           c == [b EXCEPT !.step = "render", !.todo = Live, !.copy = apps]
<1>1. b # Idle /\ Head(b.plan) = "mat"
  BY DEF MaterializeList, Phase
<1>2. CASE Fail(q)
  BY <1>2, FailIsQuiet
<1>3. CASE ~Fail(q)
  <2>1. MovesTo(q, c)
    BY <1>3, <1>1 DEF MaterializeList, MovesTo, TypeInv, RequestsOK
  <2>2. b \in Busy /\ apps \in [Apps -> Applications \cup {None}] /\ "render" \in Steps /\ Live \in SUBSET (Apps \cup Keys)
    BY <1>1, SoundRequest DEF TypeInv, TypeOK, Steps, Live
  <2>3. c \in Busy
    BY <2>2 DEF Busy
  <2>4. c.plan = b.plan /\ c.kind = b.kind /\ c.body = b.body /\ c.copy = apps /\ c.todo = Live /\ c.step = "render"
    BY <2>2, <2>3 DEF Busy
  <2>5. HasRead(c) /\ ~Writing(c) /\ ~Saving(c)
    BY <1>1, <2>1, <2>4 DEF HasRead, Writing, Saving, Numbered, Live
  <2> HIDE DEF c
  <2>6. QED
    BY <1>1, <2>1, <2>3, <2>4, <2>5, MoveIsQuiet
<1>4. QED
  BY <1>2, <1>3

(* Writing a rendered check: the request's own claims (MaterializeWrite). *)
LEMMA MaterializeWriteIsQuiet ==
  ASSUME TypeInv, NEW q \in Requests, MaterializeWrite(q)
  PROVE  QuietStep(q)
PROOF
<1> DEFINE b == req[q]
           c == [b EXCEPT !.step = "render", !.todo = @ \ {b.app}, !.check = None, !.seen = NoneSeen]
<1>1. b # Idle /\ Head(b.plan) = "mat" /\ b.step = "write"
  BY DEF MaterializeWrite, Phase
<1>2. CASE Fail(q)
  BY <1>2, FailIsQuiet
<1>3. CASE ~Fail(q)
  <2>1. MovesTo(q, c)
    BY <1>3, <1>1 DEF MaterializeWrite, MovesTo, TypeInv, RequestsOK
  <2>2. b \in Busy /\ "render" \in Steps /\ NoneSeen \in [Groups -> Checks \cup {None}]
    BY <1>1, SoundRequest DEF Steps, NoneSeen
  <2>3. c \in Busy
    BY <2>2 DEF Busy
  <2>4. c.plan = b.plan /\ c.kind = b.kind /\ c.body = b.body /\ c.copy = b.copy /\ c.todo = b.todo \ {b.app} /\ c.step = "render"
    BY <2>2, <2>3 DEF Busy
  <2>5. \A a \in Apps \cap b.todo : b.copy[a] # None
    BY <1>1, SoundRequest DEF HasRead
  <2>6. HasRead(c) /\ ~Writing(c) /\ ~Saving(c)
    BY <1>1, <2>4, <2>5 DEF HasRead, Writing, Saving, Numbered
  <2> HIDE DEF c
  <2>7. QED
    BY <1>1, <2>1, <2>3, <2>4, <2>6, MoveIsQuiet
<1>4. QED
  BY <1>2, <1>3

(* The transitions of the rows: the request's own claims (ListRows, SetRow). *)
LEMMA TransitionsAreQuiet ==
  ASSUME TypeInv, NEW q \in Requests, ListRows(q) \/ SetRow(q)
  PROVE  QuietStep(q)
PROOF
<1>1. req[q] # Idle /\ Head(req[q].plan) \in DOMAIN Moves
  BY DEF ListRows, SetRow, InTransition
<1>2. req[q].todo \in SUBSET (Apps \cup Keys)
  BY <1>1, SoundRequest DEF Busy
<1>3. CASE ListRows(q)
  <2> DEFINE keys == {k \in Keys : k[1] \in Live /\ rows[k] # None /\ rows[k].status = Transition(q).from}
  <2>1. keys \in SUBSET (Apps \cup Keys) /\ MovesTo(q, Left(req[q], keys))
    BY <1>3 DEF ListRows, MovesTo
  <2> HIDE DEF keys
  <2>2. QED
    BY <1>1, <2>1, LeftIsQuiet
<1>4. CASE SetRow(q)
  <2>1. CASE Fail(q)
    BY <2>1, FailIsQuiet
  <2>2. CASE ~Fail(q)
    <3> DEFINE keys == req[q].todo \ {req[q].key}
    <3>1. keys \in SUBSET (Apps \cup Keys) /\ MovesTo(q, Left(req[q], keys))
      BY <1>2, <1>4, <2>2 DEF SetRow, MovesTo
    <3> HIDE DEF keys
    <3>2. QED
      BY <1>1, <3>1, LeftIsQuiet
  <2>3. QED
    BY <2>1, <2>2
<1>5. QED
  BY <1>3, <1>4

(* Checking a row before its transition: the request's own claims (CheckRow). *)
LEMMA CheckRowIsQuiet ==
  ASSUME TypeInv, NEW q \in Requests, NEW k \in Keys, CheckRow(q, k)
  PROVE  QuietStep(q)
PROOF
<1> DEFINE b == req[q]
           keys == b.todo \ {k}
           c == [b EXCEPT !.step = "set", !.key = k, !.number = rows[k].version]
<1>1. b # Idle /\ Head(b.plan) \in DOMAIN Moves /\ ~Reading(Head(b.plan))
  BY DEF CheckRow, InTransition, Moves, Reading
<1>2. b \in Busy /\ keys \in SUBSET (Apps \cup Keys)
  BY <1>1, SoundRequest DEF Busy
<1>3. CASE Fail(q)
  BY <1>3, FailIsQuiet
<1>4. CASE MovesTo(q, Left(b, keys))
  BY <1>1, <1>2, <1>4, LeftIsQuiet
<1>5. CASE rows[k] # None /\ MovesTo(q, c)
  <2>1. rows[k].version \in 0..MaxVersion /\ "set" \in Steps
    BY <1>5, BindingAssumption DEF TypeInv, TypeOK, Checks, Versions, Steps
  <2>2. c \in Busy
    BY <1>2, <2>1 DEF Busy
  <2>3. c.plan = b.plan /\ c.kind = b.kind /\ c.body = b.body /\ c.copy = b.copy
    BY <1>2, <2>2 DEF Busy
  <2>4. HasRead(c) /\ ~Writing(c) /\ ~Saving(c)
    BY <1>1, <2>3 DEF HasRead, Writing, Saving, Numbered, Reading
  <2>5. MovesTo(q, c)
    BY <1>5
  <2> HIDE DEF c
  <2>6. QED
    BY <1>1, <2>2, <2>3, <2>4, <2>5, MoveIsQuiet
<1>6. Fail(q) \/ MovesTo(q, Left(b, keys)) \/ (rows[k] # None /\ MovesTo(q, c))
  BY <1>1 DEF CheckRow, MovesTo, TypeInv, RequestsOK
<1>7. QED
  BY <1>3, <1>4, <1>5, <1>6

(* Rolling the status of the table up: the request's own claims (Settle). *)
LEMMA SettleIsQuiet ==
  ASSUME TypeInv, NEW q \in Requests, Settle(q)
  PROVE  QuietStep(q)
PROOF
<1> DEFINE b == req[q]
           plan == <<"refreeze">>
           c == [b EXCEPT !.plan = plan]
<1>1. b # Idle /\ Head(b.plan) = "settle" /\ b.step = "list"
  BY DEF Settle, Phase
<1>2. CASE Fail(q)
  BY <1>2, FailIsQuiet
<1>3. CASE Return(q)
  BY <1>1, <1>3, ReturnIsQuiet
<1>4. CASE MovesTo(q, c)
  <2>1. plan \in Seq(Phases) \ {<<>>} /\ Len(plan) = 1 /\ plan[1] = "refreeze" /\ Head(plan) = "refreeze"
    BY Tuple1 DEF Phases
  <2>2. b \in Busy
    BY <1>1, SoundRequest
  <2> HIDE DEF plan
  <2>3. c \in Busy
    BY <2>1, <2>2 DEF Busy
  <2>4. c.plan = plan /\ c.step = "list" /\ c.copy = b.copy
    BY <1>1, <2>2, <2>3 DEF Busy
  <2> HIDE DEF c
  <2>5. HasRead(c) /\ ~Writing(c) /\ ~Saving(c)
    BY <2>1, <2>4 DEF HasRead, Writing, Saving, Numbered
  <2>6. \A i \in 1..Len(c.plan) : c.plan[i] = "refreeze"
    <3>1. Len(c.plan) = 1 /\ c.plan[1] = "refreeze"
      BY <2>1, <2>4
    <3>2. \A i \in 1..1 : i = 1
      OBVIOUS
    <3>3. QED
      BY <3>1, <3>2
  <2>7. Shaped(c.kind, c.plan) /\ ~Forgets(c)
    BY <2>6 DEF Shaped, Forgets
  <2>8. QED
    BY <1>1, <1>4, <2>3, <2>4, <2>5, <2>7 DEF QuietStep, Quiet, Sound, CopiesOf
<1>5. QED
  BY <1>1, <1>2, <1>3, <1>4 DEF Settle, SetStatus, MovesTo, TypeInv, RequestsOK

(* Reading the table before it is frozen: the request's own claims (FreezeDetail). *)
LEMMA FreezeDetailIsQuiet ==
  ASSUME TypeInv, NEW q \in Requests, FreezeDetail(q)
  PROVE  QuietStep(q)
PROOF
<1> DEFINE b == req[q]
           c == [b EXCEPT !.step = "compute", !.copy = apps, !.number = table.version]
<1>1. b # Idle /\ Head(b.plan) \in {"freeze", "refreeze"}
  BY DEF FreezeDetail, Phase
<1>2. CASE Fail(q)
  BY <1>2, FailIsQuiet
<1>3. CASE ~Fail(q)
  <2>1. MovesTo(q, c) /\ table # None /\ (Head(b.plan) = "refreeze" => table.version # 0)
    BY <1>3, <1>1 DEF FreezeDetail, MovesTo, TypeInv, RequestsOK
  <2>2. b \in Busy /\ apps \in [Apps -> Applications \cup {None}] /\ "compute" \in Steps /\ table.version \in 0..MaxVersion
    BY <1>1, <2>1, SoundRequest DEF TypeInv, TypeOK, Steps
  <2>3. c \in Busy
    BY <2>2 DEF Busy
  <2>4. c.plan = b.plan /\ c.kind = b.kind /\ c.body = b.body /\ c.copy = apps /\ c.number = table.version /\ c.step = "compute"
    BY <2>2, <2>3 DEF Busy
  <2>5. HasRead(c) /\ ~Writing(c) /\ ~Saving(c)
    BY <1>1, <2>1, <2>4 DEF HasRead, Writing, Saving, Numbered
  <2> HIDE DEF c
  <2>6. QED
    BY <1>1, <2>1, <2>3, <2>4, <2>5, MoveIsQuiet
<1>4. QED
  BY <1>2, <1>3

-----------------------------------------------------------------------------
(* The other steps: what they apply, activate, render or save *)

(* An application that was made is remembered and its request goes on. *)
Applies(q) ==
  /\ req[q] # Idle /\ Head(req[q].plan) \in {"apply", "attach"}
  /\ honoured' = honoured \cup {<<req[q].body.rule, req[q].body.mapping>>}
  /\ Return(q)

(* The step that applies a rule ends the request or goes on with what is left of its plan. *)
LEMMA AppliedIsSound ==
  ASSUME TypeInv, NEW q \in Requests, Applies(q)
  PROVE  \/ MovesTo(q, Idle)
         \/ /\ MovesTo(q, Advance(req[q])) /\ Sound(Advance(req[q])) /\ Fresh(Advance(req[q]))
            /\ Advance(req[q]).body = req[q].body
            /\ Forgets(Advance(req[q])) => Forgets(req[q])
PROOF
<1> DEFINE b == req[q]
           c == Advance(b)
<1>1. MovesTo(q, c)
  BY DEF Applies, Return, MovesTo
<1>2. CASE Len(b.plan) = 1
  BY <1>1, <1>2 DEF Advance
<1>3. CASE Len(b.plan) # 1
  <2>1. Sound(c) /\ Fresh(c) /\ c.plan = Tail(b.plan) /\ c.body = b.body
    BY <1>3, SoundRequest, AdvanceIsFresh DEF Applies
  <2>2. Len(c.plan) = Len(b.plan) - 1 /\ \A i \in 1..Len(c.plan) : c.plan[i] = b.plan[i + 1]
    BY <2>1, SoundRequest, HeadTailProperties DEF Applies
  <2>3. Len(b.plan) \in Nat
    BY SoundRequest DEF Applies
  <2>4. ASSUME NEW i \in 1..Len(c.plan), c.plan[i] = "forget"
        PROVE  i + 1 \in 1..Len(b.plan) /\ b.plan[i + 1] = "forget"
    BY <2>2, <2>3, <2>4
  <2>5. Forgets(c) => Forgets(b)
    BY <2>4 DEF Forgets
  <2>6. QED
    BY <1>1, <2>1, <2>5
<1>4. QED
  BY <1>2, <1>3

(* An activation of what is staged for the rule that was published. *)
Activates(q) ==
  /\ req[q] # Idle /\ Head(req[q].plan) = "activate" /\ req[q].step = "list"
  /\ staged[req[q].body.rule] # None
  /\ \E c \in Busy :
       /\ MovesTo(q, c) /\ Sound(c)
       /\ c.step = "list" /\ c.copy = req[q].copy /\ Head(c.plan) = "apply"
       /\ c.body.rule = req[q].body.rule /\ c.body.mapping = staged[req[q].body.rule]

(* An activation is refused or sets out to apply what is staged, and to forget it then. *)
LEMMA ActivateIsSound ==
  ASSUME TypeInv, NEW q \in Requests, Activate(q)
  PROVE  QuietStep(q) \/ Activates(q)
PROOF
<1> DEFINE b == req[q]
           r == b.body.rule
           plan == <<"apply", "forget">> \o Tail(b.plan)
           c == [b EXCEPT !.plan = plan, !.body.mapping = staged[r], !.body.pin = 0]
<1>1. b # Idle /\ Head(b.plan) = "activate" /\ b.step = "list"
  BY DEF Activate, Phase
<1>2. b \in Busy /\ b.plan \in Seq(Phases) /\ b.plan # <<>> /\ Shaped(b.kind, b.plan) /\ b.plan[1] = "activate"
  BY <1>1, SoundRequest
<1>3. CASE staged[r] = None
  BY <1>1, <1>3, ReturnIsQuiet DEF Activate
<1>4. CASE staged[r] # None
  <2>12. MovesTo(q, c)
    <3>1. req' = [req EXCEPT ![q].plan = plan, ![q].body.mapping = staged[r], ![q].body.pin = 0]
      BY <1>4 DEF Activate
    <3>2. q \in DOMAIN req
      BY DEF TypeInv, RequestsOK
    <3> HIDE DEF plan
    <3>3. QED
      BY <3>1, <3>2 DEF MovesTo
  <2>1. r \in Rules /\ staged[r] \in Mappings /\ 0 \in 0..MaxVersion
    BY <1>2, <1>4, BindingAssumption DEF TypeInv, TypeOK, Busy, Applications
  <2>2. b.kind = "publish" /\ 1 \in 1..Len(b.plan)
    <3>1. 1 \in 1..Len(b.plan)
      BY <1>2
    <3>2. QED
      BY <1>2, <3>1 DEF Shaped
  <2> DEFINE t == Tail(b.plan)
             u == <<"apply", "forget">>
  <2>3. /\ t \in Seq(Phases) /\ Len(t) = Len(b.plan) - 1 /\ Len(b.plan) \in Nat
        /\ \A i \in 1..Len(t) : t[i] = b.plan[i + 1]
    BY <1>2, HeadTailProperties
  <2>4. u \in Seq(Phases) /\ Len(u) = 2 /\ u[1] = "apply" /\ u[2] = "forget"
    BY Tuple2 DEF Phases
  <2> HIDE DEF t, u
  <2>5. plan = u \o t
    BY DEF t, u
  <2> HIDE DEF plan
  <2>6. /\ plan \in Seq(Phases) /\ Len(plan) = Len(t) + 2
        /\ plan[1] = "apply" /\ plan[2] = "forget"
        /\ \A i \in 3..Len(plan) : plan[i] = t[i - 2]
    <3>1. /\ plan \in Seq(Phases) /\ Len(plan) = Len(u) + Len(t)
          /\ \A i \in 1..Len(u) + Len(t) : plan[i] = IF i <= Len(u) THEN u[i] ELSE t[i - Len(u)]
      BY <2>3, <2>4, <2>5, ConcatProperties
    <3>2. Len(t) \in Nat /\ Len(plan) = Len(t) + 2
      BY <2>3, <2>4, <3>1
    <3>3. \A i \in 1..Len(t) + 2 : plan[i] = IF i <= 2 THEN u[i] ELSE t[i - 2]
      BY <2>4, <3>1, <3>2
    <3>4. 1 \in 1..Len(t) + 2 /\ 2 \in 1..Len(t) + 2
      BY <3>2
    <3>5. plan[1] = "apply" /\ plan[2] = "forget"
      BY <2>4, <3>3, <3>4
    <3>6. ASSUME NEW i \in 3..Len(plan)
          PROVE  plan[i] = t[i - 2]
      BY <3>2, <3>3
    <3>7. QED
      BY <3>1, <3>2, <3>5, <3>6
  <2>7. ASSUME NEW i \in 3..Len(plan)
        PROVE  plan[i] \notin {"forget", "apply", "attach", "publish"}
    <3>1. i - 1 \in 1..Len(b.plan) /\ i - 1 # 1 /\ plan[i] = b.plan[i - 1]
      BY <2>3, <2>6
    <3>2. QED
      BY <2>2, <3>1, <1>2 DEF Shaped
  <2>8. Shaped("publish", plan)
    <3>1. Len(plan) \in Nat /\ Len(plan) >= 2
      BY <2>3, <2>6
    <3>2. ASSUME NEW i \in 1..Len(plan)
          PROVE  i = 1 \/ i = 2 \/ i \in 3..Len(plan)
      BY <3>1
    <3>3. QED
      BY <2>6, <2>7, <3>1, <3>2 DEF Shaped
  <2>9. plan # <<>> /\ Head(plan) = "apply"
    BY <2>3, <2>6
  <2>10. c \in Busy
    <3> DEFINE body == [b.body EXCEPT !.mapping = staged[r], !.pin = 0]
    <3>1. c = [b EXCEPT !.plan = plan, !.body = body]
      BY <1>2 DEF Busy
    <3>2. body \in Applications
      BY <1>2, <2>1 DEF Busy, Applications
    <3> HIDE DEF body
    <3>3. QED
      BY <1>2, <2>6, <2>9, <3>1, <3>2 DEF Busy
  <2>11. /\ c.plan = plan /\ c.kind = b.kind /\ c.step = "list" /\ c.copy = b.copy
         /\ c.body.rule = r /\ c.body.mapping = staged[r]
    BY <1>1, <1>2 DEF Busy, Applications
  <2> HIDE DEF c
  <2>13. HasRead(c)
    BY <2>9, <2>11 DEF HasRead, Writing, Saving, Numbered
  <2>14. QED
    BY <1>1, <1>4, <2>2, <2>8, <2>9, <2>10, <2>11, <2>12, <2>13 DEF Activates, Sound
<1>5. QED
  BY <1>3, <1>4

(* A materialization renders the version that the application chose. *)
LEMMA RenderIsContained ==
  ASSUME TypeInv, NEW app \in Applications, Resolvable(app)
  PROVE  /\ Render(app) \in Contained
         /\ Render(app).version = Chosen(app) /\ Render(app).content \in snap[app.rule][Chosen(app)]
PROOF
<1> DEFINE v == Chosen(app)
           S == snap[app.rule][v]
<1>1. app.rule \in Rules /\ app.pin \in 0..MaxVersion /\ app.edit \in Edits
  BY DEF Applications
<1>2. reg[app.rule] # None
  BY DEF Resolvable, Chosen
<1>3. reg[app.rule].version \in 0..MaxVersion
  BY <1>1, <1>2 DEF TypeInv, TypeOK
<1>4. v \in 0..MaxVersion /\ v # 0 /\ S # {}
  BY <1>1, <1>2, <1>3 DEF Resolvable, Chosen
<1>5. v \in Versions
  BY <1>4, BindingAssumption DEF Versions
<1>6. S \subseteq Contents
  BY <1>1, <1>5 DEF TypeInv, StoreOK
<1> DEFINE x == CHOOSE c \in S : TRUE
<1>7. x \in S
  BY <1>4
<1>8. Render(app) = [version |-> v, content |-> x, edit |-> app.edit]
  BY DEF Render
<1> HIDE DEF x, v, S
<1>9. x \in Contents
  BY <1>6, <1>7
<1>10. Render(app) \in Contained /\ Render(app).version = v /\ Render(app).content = x
  BY <1>1, <1>5, <1>8, <1>9 DEF Contained
<1>11. QED
  BY <1>7, <1>10 DEF v, S

(* The request starts to write the checks of application a. *)
Rendering(q, a) ==
  /\ req[q] # Idle /\ Head(req[q].plan) = "mat" /\ req[q].step = "render"
  /\ a \in Apps /\ req[q].copy[a] \in Applications /\ Renders(req[q].copy[a])
  /\ \E c \in Busy :
       /\ MovesTo(q, c) /\ Sound(c) /\ c.step = "read" /\ c.app = a
       /\ c.plan = req[q].plan /\ c.body = req[q].body /\ c.copy = req[q].copy
       /\ c.check = Render(req[q].copy[a])

(* An application that renders something goes on with its check, another one is left. *)
LEMMA MaterializeRenderIsSound ==
  ASSUME TypeInv, NEW q \in Requests, NEW a \in Apps, MaterializeRender(q, a)
  PROVE  QuietStep(q) \/ Rendering(q, a)
PROOF
<1> DEFINE b == req[q]
           app == b.copy[a]
           check == Render(app)
           left == b.todo \ {a}
<1>1. b # Idle /\ Head(b.plan) = "mat" /\ b.step = "render" /\ a \in b.todo
  BY DEF MaterializeRender, Phase
<1>2. b \in Busy /\ HasRead(b) /\ Shaped(b.kind, b.plan)
  BY <1>1, SoundRequest
<1>3. app \in Applications /\ \A x \in Apps \cap b.todo : b.copy[x] # None
  BY <1>1, <1>2 DEF HasRead, Busy
<1>4. q \in DOMAIN req
  BY DEF TypeInv, RequestsOK
<1>5. CASE Renders(app)
  <2> DEFINE c == [b EXCEPT !.step = "read", !.app = a, !.check = check]
  <2>1. check \in Contained /\ "read" \in Steps /\ Fits[check.content][app.mapping] # {}
    BY <1>3, <1>5, RenderIsContained DEF Renders, Steps
  <2>2. MovesTo(q, c)
    BY <1>4, <1>5 DEF MaterializeRender, MovesTo
  <2> HIDE DEF check
  <2>4. c \in Busy
    BY <1>2, <2>1 DEF Busy
  <2>5. /\ c.plan = b.plan /\ c.kind = b.kind /\ c.body = b.body /\ c.copy = b.copy /\ c.todo = b.todo
        /\ c.step = "read" /\ c.app = a /\ c.check = check
    BY <1>2, <2>4 DEF Busy
  <2> HIDE DEF c
  <2>6. HasRead(c)
    BY <1>1, <1>3, <2>1, <2>5 DEF HasRead, Writing, Saving, Numbered
  <2>7. QED
    BY <1>1, <1>2, <1>3, <1>5, <2>2, <2>4, <2>5, <2>6 DEF Rendering, Sound, check
<1>6. CASE ~Renders(app)
  <2> DEFINE c == [b EXCEPT !.todo = left]
  <2>1. MovesTo(q, c)
    BY <1>4, <1>6 DEF MaterializeRender, MovesTo
  <2>2. c \in Busy
    BY <1>2 DEF Busy
  <2>3. c.plan = b.plan /\ c.kind = b.kind /\ c.body = b.body /\ c.copy = b.copy /\ c.todo = left /\ c.step = "render"
    BY <1>1, <1>2, <2>2 DEF Busy
  <2> HIDE DEF c
  <2>4. HasRead(c) /\ ~Writing(c) /\ ~Saving(c)
    BY <1>1, <1>3, <2>3 DEF HasRead, Writing, Saving, Numbered
  <2>5. QED
    BY <1>1, <2>1, <2>2, <2>3, <2>4, MoveIsQuiet
<1>7. QED
  BY <1>5, <1>6

(* The request has read the rows it is about to write. *)
ReadsRows(q) ==
  /\ req[q] # Idle /\ Head(req[q].plan) = "mat" /\ req[q].step = "read"
  /\ \E c \in Busy :
       /\ MovesTo(q, c) /\ Sound(c) /\ c.step = "write" /\ c.app = req[q].app
       /\ c.plan = req[q].plan /\ c.body = req[q].body /\ c.copy = req[q].copy /\ c.check = req[q].check
       /\ c.seen = [g \in Groups |-> rows[<<req[q].app, g>>]]

(* What a request has seen of the rows it will write is what they hold. *)
LEMMA MaterializeReadIsSound ==
  ASSUME TypeInv, NEW q \in Requests, MaterializeRead(q)
  PROVE  ReadsRows(q)
PROOF
<1> DEFINE b == req[q]
           seen == [g \in Groups |-> rows[<<b.app, g>>]]
           c == [b EXCEPT !.step = "write", !.seen = seen]
<1>1. b # Idle /\ Head(b.plan) = "mat" /\ b.step = "read"
  BY DEF MaterializeRead, Phase
<1>2. b \in Busy /\ HasRead(b) /\ Shaped(b.kind, b.plan) /\ b.app \in Apps /\ "write" \in Steps
  BY <1>1, SoundRequest DEF Busy, Steps
<1>3. seen \in [Groups -> Checks \cup {None}]
  <2>1. \A g \in Groups : <<b.app, g>> \in Keys
    BY <1>2 DEF Keys
  <2>2. rows \in [Keys -> Checks \cup {None}]
    BY DEF TypeInv, TypeOK
  <2>3. QED
    BY <2>1, <2>2
<1>4. MovesTo(q, c)
  <2>1. q \in DOMAIN req
    BY DEF TypeInv, RequestsOK
  <2>2. QED
    BY <2>1 DEF MaterializeRead, MovesTo
<1>5. seen = [g \in Groups |-> rows[<<req[q].app, g>>]]
  OBVIOUS
<1> HIDE DEF seen
<1>6. c \in Busy
  BY <1>2, <1>3 DEF Busy
<1>7. /\ c.plan = b.plan /\ c.kind = b.kind /\ c.body = b.body /\ c.copy = b.copy
      /\ c.step = "write" /\ c.app = b.app /\ c.todo = b.todo /\ c.check = b.check /\ c.seen = seen
  BY <1>2, <1>6 DEF Busy
<1> HIDE DEF c
<1>8. HasRead(c)
  BY <1>1, <1>2, <1>7 DEF HasRead, Writing, Saving, Numbered
<1>9. QED
  BY <1>1, <1>2, <1>4, <1>5, <1>6, <1>7, <1>8 DEF ReadsRows, Sound

(* What the approved checks say of an application. *)
ApprovedRow(a, version) ==
  \E k \in Keys : k[1] = a /\ rows[k] # None /\ rows[k].status = "approved" /\ rows[k].version = version

(* The references of a frozen version are to approved rows. *)
LEMMA ApprovedRefsAreApproved ==
  ASSUME TypeInv, NEW copy \in [Apps -> Applications \cup {None}]
  PROVE  /\ ApprovedRefs(copy) \in RefSets
         /\ \A a \in Apps : ApprovedRefs(copy)[a] # None =>
              /\ copy[a] # None /\ ApprovedRefs(copy)[a].rule = copy[a].rule
              /\ ApprovedRow(a, ApprovedRefs(copy)[a].version)
PROOF
<1> DEFINE ks(a) == {k \in {a} \X Groups : rows[k] # None /\ rows[k].status = "approved"}
           ref(a) == [rule |-> copy[a].rule, mapping |-> copy[a].mapping, edit |-> copy[a].edit,
                      version |-> rows[CHOOSE k \in ks(a) : TRUE].version]
<1>1. ApprovedRefs(copy) = [a \in Apps |-> IF copy[a] = None \/ ks(a) = {} THEN None ELSE ref(a)]
  BY DEF ApprovedRefs
<1>2. ASSUME NEW a \in Apps, copy[a] # None, ks(a) # {}
      PROVE  /\ ref(a) \in Refs /\ ref(a).rule = copy[a].rule
             /\ ApprovedRow(a, ref(a).version)
  <2>1. PICK k : k = CHOOSE x \in ks(a) : TRUE
    OBVIOUS
  <2>2. k \in ks(a)
    BY <1>2, <2>1
  <2>3. k \in Keys /\ k[1] = a /\ rows[k] # None /\ rows[k].status = "approved"
    BY <2>2 DEF Keys
  <2>4. rows[k].version \in Versions
    BY <2>3 DEF TypeInv, TypeOK, Checks
  <2>5. ref(a) = [rule |-> copy[a].rule, mapping |-> copy[a].mapping, edit |-> copy[a].edit, version |-> rows[k].version]
    BY <2>1
  <2>6. copy[a].rule \in Rules /\ copy[a].mapping \in Mappings /\ copy[a].edit \in Edits
    BY <1>2 DEF Applications
  <2> HIDE DEF ref, ks
  <2>7. ref(a) \in Refs /\ ref(a).rule = copy[a].rule /\ ref(a).version = rows[k].version
    BY <2>4, <2>5, <2>6 DEF Refs
  <2>8. QED
    BY <2>3, <2>7 DEF ApprovedRow
<1> HIDE DEF ks, ref
<1>3. ApprovedRefs(copy) \in RefSets
  BY <1>1, <1>2 DEF RefSets
<1>4. QED
  BY <1>1, <1>2, <1>3

(* The request saves what the approved checks say of the applications. *)
Computes(q) ==
  /\ req[q] # Idle /\ Head(req[q].plan) \in {"freeze", "refreeze"} /\ req[q].step = "compute"
  /\ \E c \in Busy :
       /\ MovesTo(q, c) /\ Sound(c) /\ c.step \in {"bump", "update"}
       /\ c.plan = req[q].plan /\ c.body = req[q].body /\ c.copy = req[q].copy
       /\ c.refs = ApprovedRefs(req[q].copy)
       /\ Head(c.plan) = "freeze" => table # None /\ c.number = table.version + 1

(* The references of a version are computed from the rows that are approved. *)
LEMMA FreezeComputeIsSound ==
  ASSUME TypeInv, NEW q \in Requests, FreezeCompute(q)
  PROVE  QuietStep(q) \/ Computes(q)
PROOF
<1> DEFINE b == req[q]
           refs == ApprovedRefs(b.copy)
           next == table.version + 1
<1>1. b # Idle /\ Head(b.plan) \in {"freeze", "refreeze"} /\ b.step = "compute"
  BY DEF FreezeCompute, Phase
<1>2. b \in Busy /\ HasRead(b) /\ Shaped(b.kind, b.plan) /\ {"bump", "update"} \subseteq Steps
  BY <1>1, SoundRequest DEF Steps
<1>3. refs \in RefSets
  BY <1>2, ApprovedRefsAreApproved DEF Busy
<1>4. refs # None
  BY <1>3, NoneAssumption DEF RefSets
<1>5. q \in DOMAIN req
  BY DEF TypeInv, RequestsOK
<1>6. CASE Head(b.plan) = "freeze"
  <2> DEFINE c == [b EXCEPT !.step = "bump", !.refs = refs, !.number = next]
  <2>1. MovesTo(q, c) /\ table # None /\ table.version < MaxVersion
    BY <1>5, <1>6 DEF FreezeCompute, MovesTo
  <2>2. next \in 0..MaxVersion /\ next # 0
    <3>1. table.version \in 0..MaxVersion
      BY <2>1 DEF TypeInv, TypeOK
    <3>2. QED
      BY <2>1, <3>1, BindingAssumption
  <2> HIDE DEF refs, next
  <2>3. c \in Busy
    BY <1>2, <1>3, <2>2 DEF Busy
  <2>4. /\ c.plan = b.plan /\ c.kind = b.kind /\ c.body = b.body /\ c.copy = b.copy
        /\ c.step = "bump" /\ c.refs = refs /\ c.number = next
    BY <1>2, <2>3 DEF Busy
  <2> HIDE DEF c
  <2>5. HasRead(c)
    BY <1>4, <1>6, <2>2, <2>4 DEF HasRead, Writing, Saving, Numbered
  <2>6. QED
    BY <1>1, <1>2, <2>1, <2>3, <2>4, <2>5 DEF Computes, Sound, refs, next
<1>7. CASE Head(b.plan) = "refreeze" /\ ~Fail(q)
  <2> DEFINE c == [b EXCEPT !.step = "update", !.refs = refs]
  <2>1. MovesTo(q, c)
    BY <1>5, <1>7 DEF FreezeCompute, MovesTo
  <2> HIDE DEF refs
  <2>2. c \in Busy
    BY <1>2, <1>3 DEF Busy
  <2>3. /\ c.plan = b.plan /\ c.kind = b.kind /\ c.body = b.body /\ c.copy = b.copy
        /\ c.step = "update" /\ c.refs = refs /\ c.number = b.number
    BY <1>2, <2>2 DEF Busy
  <2>4. b.number # 0
    BY <1>1, <1>2, <1>7 DEF HasRead, Numbered
  <2> HIDE DEF c
  <2>5. HasRead(c)
    BY <1>4, <1>7, <2>3, <2>4 DEF HasRead, Writing, Saving, Numbered
  <2>6. QED
    BY <1>1, <1>2, <1>7, <2>1, <2>2, <2>3, <2>5 DEF Computes, Sound, refs
<1>8. CASE Fail(q)
  BY <1>8, FailIsQuiet
<1>9. QED
  BY <1>1, <1>6, <1>7, <1>8

(* The table shows the version that the request is about to insert. *)
Bumps(q) ==
  /\ req[q] # Idle /\ Head(req[q].plan) = "freeze" /\ req[q].step = "bump"
  /\ table' = IF table = None THEN None ELSE [table EXCEPT !.version = req[q].number]
  /\ \E c \in Busy :
       /\ MovesTo(q, c) /\ Sound(c) /\ c.step = "insert" /\ c.plan = req[q].plan /\ c.body = req[q].body
       /\ c.copy = req[q].copy /\ c.refs = req[q].refs /\ c.number = req[q].number

(* The table shows the number its request is about to freeze. *)
LEMMA FreezeBumpIsSound ==
  ASSUME TypeInv, NEW q \in Requests, FreezeBump(q)
  PROVE  Bumps(q)
PROOF
<1> DEFINE b == req[q]
           c == [b EXCEPT !.step = "insert"]
<1>1. b # Idle /\ Head(b.plan) = "freeze" /\ b.step = "bump"
  BY DEF FreezeBump, Phase
<1>2. b \in Busy /\ HasRead(b) /\ Shaped(b.kind, b.plan) /\ "insert" \in Steps
  BY <1>1, SoundRequest DEF Steps
<1>3. MovesTo(q, c)
  <2>1. q \in DOMAIN req
    BY DEF TypeInv, RequestsOK
  <2>2. QED
    BY <2>1 DEF FreezeBump, Goto, MovesTo
<1>4. c \in Busy
  BY <1>2 DEF Busy
<1>5. /\ c.plan = b.plan /\ c.kind = b.kind /\ c.body = b.body /\ c.copy = b.copy
      /\ c.step = "insert" /\ c.refs = b.refs /\ c.number = b.number
  BY <1>2, <1>4 DEF Busy
<1> HIDE DEF c
<1>6. HasRead(c)
  BY <1>1, <1>2, <1>5 DEF HasRead, Writing, Saving, Numbered
<1>7. QED
  BY <1>1, <1>2, <1>3, <1>4, <1>5, <1>6 DEF Bumps, Sound, FreezeBump

(* The steps of applying a rule, together. *)
LEMMA ApplyIsSound ==
  ASSUME TypeInv, NEW q \in Requests, ApplyUpdate(q) \/ \E a \in Apps, pin \in 0..MaxVersion : ApplyInsert(q, a, pin)
  PROVE  QuietStep(q) \/ Applies(q)
PROOF
<1>1. CASE ApplyUpdate(q)
  BY <1>1 DEF ApplyUpdate, Applies, Phase
<1>2. ASSUME NEW a \in Apps, NEW pin \in 0..MaxVersion, ApplyInsert(q, a, pin)
      PROVE  QuietStep(q) \/ Applies(q)
  <2>1. req[q] # Idle /\ Head(req[q].plan) \in {"apply", "attach"}
    BY <1>2 DEF ApplyInsert, Phase
  <2>2. CASE Refuse(q)
    BY <2>1, <2>2, RefuseIsQuiet
  <2>3. CASE ~Refuse(q)
    BY <1>2, <2>1, <2>3 DEF ApplyInsert, Applies
  <2>4. QED
    BY <2>2, <2>3
<1>3. QED
  BY <1>1, <1>2

-----------------------------------------------------------------------------
(* Type correctness *)

(* What a step does to the entry of its request. *)
LEMMA StepOfRequest ==
  ASSUME TypeInv, NEW q \in Requests, Receive(q) \/ Serve(q) \/ Crash(q)
  PROVE  \/ QuietStep(q) \/ Applies(q) \/ Activates(q) \/ \E a \in Apps : Rendering(q, a)
         \/ ReadsRows(q) \/ Computes(q) \/ Bumps(q)
PROOF
<1>1. CASE \/ Receive(q) \/ PublishRule(q) \/ ApplyCheck(q) \/ ApplyLookup(q) \/ RemoveChecks(q) \/ RemoveApplication(q)
           \/ DropApplications(q)
  BY <1>1, ReceiveIsQuiet, PublishRuleIsQuiet, ApplyCheckIsQuiet, ApplyLookupIsQuiet, RemoveChecksIsQuiet,
     RemoveApplicationIsQuiet, DropApplicationsIsQuiet
<1>2. CASE MaterializeList(q) \/ MaterializeWrite(q) \/ ListRows(q) \/ SetRow(q) \/ Settle(q) \/ FreezeDetail(q)
  BY <1>2, MaterializeListIsQuiet, MaterializeWriteIsQuiet, TransitionsAreQuiet, SettleIsQuiet, FreezeDetailIsQuiet
<1>3. CASE \/ PublishSnapshot(q) \/ PublishLost(q) \/ Forget(q) \/ Suppress(q) \/ DropTable(q) \/ CleanupOrphans(q)
           \/ Gate(q) \/ SetTableStatus(q) \/ FreezeInsert(q) \/ RefreezeUpdate(q) \/ Crash(q)
  BY <1>3, EndsAreQuiet
<1>4. CASE \E k \in Keys : CheckRow(q, k)
  BY <1>4, CheckRowIsQuiet
<1>5. CASE ApplyUpdate(q) \/ \E a \in Apps, pin \in 0..MaxVersion : ApplyInsert(q, a, pin)
  BY <1>5, ApplyIsSound
<1>6. CASE Activate(q) \/ MaterializeRead(q) \/ FreezeCompute(q) \/ FreezeBump(q)
  BY <1>6, ActivateIsSound, MaterializeReadIsSound, FreezeComputeIsSound, FreezeBumpIsSound
<1>7. CASE \E a \in Apps : MaterializeRender(q, a)
  BY <1>7, MaterializeRenderIsSound
<1>8. QED
  BY <1>1, <1>2, <1>3, <1>4, <1>5, <1>6, <1>7 DEF Serve

(* Every step of a request leaves its own record sound. *)
LEMMA RequestsStaySound ==
  ASSUME TypeInv, NEW q \in Requests, Receive(q) \/ Serve(q) \/ Crash(q)
  PROVE  RequestsOK' /\ \E c : MovesTo(q, c)
PROOF
<1>1. PICK c : MovesTo(q, c) /\ (c = Idle \/ Sound(c))
  <2>1. CASE QuietStep(q)
    BY <2>1 DEF QuietStep, Quiet
  <2>2. CASE Applies(q)
    BY <2>2, AppliedIsSound
  <2>3. CASE Activates(q)
    BY <2>3 DEF Activates
  <2>4. CASE \E a \in Apps : Rendering(q, a)
    BY <2>4 DEF Rendering
  <2>5. CASE ReadsRows(q)
    BY <2>5 DEF ReadsRows
  <2>6. CASE Computes(q)
    BY <2>6 DEF Computes
  <2>7. CASE Bumps(q)
    BY <2>7 DEF Bumps
  <2>8. QED
    BY <2>1, <2>2, <2>3, <2>4, <2>5, <2>6, <2>7, StepOfRequest
<1>2. c \in Busy \cup {Idle}
  BY <1>1 DEF Sound
<1>3. req' \in [Requests -> Busy \cup {Idle}]
  BY <1>1, <1>2 DEF MovesTo, TypeInv, RequestsOK
<1>4. ASSUME NEW x \in Requests
      PROVE  req'[x] = Idle \/ Sound(req'[x])
  BY <1>1 DEF MovesTo, TypeInv, RequestsOK
<1>5. QED
  BY <1>1, <1>3, <1>4 DEF RequestsOK

(* TypeInv is the type of the data and the soundness of the requests. *)
LEMMA TypeInvParts == TypeInv <=> DataOK /\ RequestsOK
PROOF
<1>1. ASSUME RequestsOK, NEW q \in Requests, req[q] # Idle
      PROVE  req[q].plan # <<>> /\ req[q].todo \subseteq Apps \cup Keys
  BY <1>1 DEF RequestsOK, Sound, Busy
<1>2. QED
  BY <1>1 DEF TypeInv, TypeOK, DataOK, TablesOK, RefSets, Registered

(* Steps that leave the tables alone. *)
LEMMA QuietTables ==
  ASSUME DataOK, ops' \in 0..MaxOps, minted' \subseteq Apps, UNCHANGED <<tables, store, autoUpgrade>>
  PROVE  DataOK'
PROOF
  BY DEF DataOK, TablesOK, StoreOK, tables, store

(* The applications. *)
LEMMA ApplicationsStayTyped ==
  ASSUME TypeInv, NEW q \in Requests,
         ApplyUpdate(q) \/ RemoveApplication(q) \/ DropApplications(q) \/ \E a \in Apps, pin \in 0..MaxVersion : ApplyInsert(q, a, pin)
  PROVE  DataOK'
PROOF
<1>1. DataOK
  BY TypeInvParts
<1>2. req[q] # Idle
  BY DEF ApplyUpdate, RemoveApplication, DropApplications, ApplyInsert, Phase
<1>3. req[q].body \in Applications /\ req[q].app \in Apps
  BY <1>2, SoundRequest DEF Busy
<1>4. apps \in [Apps -> Applications \cup {None}]
  BY <1>1 DEF DataOK, TablesOK
<1>5. CASE ApplyUpdate(q)
  <2>1. ASSUME NEW a \in Apps \cap Live
        PROVE  [apps[a] EXCEPT !.pin = req[q].body.pin, !.edit = req[q].body.edit] \in Applications
    <3>1. apps[a] \in Applications /\ req[q].body.pin \in 0..MaxVersion /\ req[q].body.edit \in Edits
      BY <1>3, <1>4 DEF Live, Applications
    <3>2. QED
      BY <3>1 DEF Applications
  <2>2. apps' = [a \in Apps |-> IF a \in req[q].todo \cap Live
                             THEN [apps[a] EXCEPT !.pin = req[q].body.pin, !.edit = req[q].body.edit]
                             ELSE apps[a]]
    BY <1>5 DEF ApplyUpdate
  <2>3. apps' \in [Apps -> Applications \cup {None}]
    BY <1>4, <2>1, <2>2
  <2>4. QED
    BY <1>1, <1>5, <2>3 DEF ApplyUpdate, DataOK, TablesOK, StoreOK, store
<1>10. ASSUME apps' \in [Apps -> Applications \cup {None}],
              UNCHANGED <<table, rows, frozen, staged, suppressed, reg, store, autoUpgrade, ops, minted>>
       PROVE  DataOK'
  BY <1>1, <1>10 DEF DataOK, TablesOK, StoreOK, store
<1>6. CASE RemoveApplication(q)
  BY <1>3, <1>4, <1>6, <1>10 DEF RemoveApplication, history
<1>7. CASE DropApplications(q)
  BY <1>4, <1>7, <1>10 DEF DropApplications, history
<1>8. ASSUME NEW a \in Apps, NEW pin \in 0..MaxVersion, ApplyInsert(q, a, pin)
      PROVE  DataOK'
  <2> DEFINE app == [req[q].body EXCEPT !.pin = pin, !.auto = req[q].kind = "attach"]
  <2>1. app \in Applications
    BY <1>3 DEF Applications
  <2>2. \/ UNCHANGED <<apps, minted>>
        \/ apps' = [apps EXCEPT ![a] = app] /\ minted' = minted \cup {a}
    BY <1>8 DEF ApplyInsert
  <2> HIDE DEF app
  <2>3. apps' \in [Apps -> Applications \cup {None}] /\ minted' \subseteq Apps
    BY <1>1, <1>4, <2>1, <2>2 DEF DataOK
  <2>4. UNCHANGED <<table, rows, frozen, staged, suppressed, reg, store, autoUpgrade, ops>>
    BY <1>8 DEF ApplyInsert
  <2>5. QED
    BY <1>1, <2>3, <2>4 DEF DataOK, TablesOK, StoreOK, store
<1>9. QED
  BY <1>5, <1>6, <1>7, <1>8

(* An edited application is of its type. *)
LEMMA EditsStayTyped ==
  ASSUME TypeInv, NEW a \in Apps, NEW pin \in 0..MaxVersion, NEW edit \in Edits, EditApplication(a, pin, edit)
  PROVE  DataOK'
PROOF
<1>1. DataOK
  BY TypeInvParts
<1>2. apps[a] \in Applications /\ apps' = [apps EXCEPT ![a] = [apps[a] EXCEPT !.pin = pin, !.edit = edit]]
  BY <1>1 DEF EditApplication, DataOK, TablesOK
<1>3. [apps[a] EXCEPT !.pin = pin, !.edit = edit] \in Applications
  BY <1>2 DEF Applications
<1>4. apps' \in [Apps -> Applications \cup {None}] /\ ops' \in 0..MaxOps
  BY <1>1, <1>2, <1>3, BindingAssumption DEF EditApplication, DataOK, TablesOK
<1>5. UNCHANGED <<table, rows, frozen, staged, suppressed, reg, store, autoUpgrade, minted>>
  BY DEF EditApplication, history
<1>6. QED
  BY <1>1, <1>4, <1>5 DEF DataOK, TablesOK, StoreOK, store

(* The check that a materialization writes for a group. *)
NewRow(q, g) ==
  LET check == req[q].check IN
  IF g \notin Rendered(q) THEN None
  ELSE IF req[q].seen[g] = None THEN Stamp(check, "draft")
  ELSE IF rows[<<req[q].app, g>>] = None THEN None
  ELSE Stamp(check, DecideStatus(req[q].seen[g], check, req[q].copy[req[q].app].pin # 0))

Written(q) == rows' = [k \in Keys |-> IF k[1] = req[q].app THEN NewRow(q, k[2]) ELSE rows[k]]

(* Writing the checks of an application sets each of its rows to its new row. *)
LEMMA WriteIsWritten ==
  ASSUME NEW q \in Requests, MaterializeWrite(q)
  PROVE  UNCHANGED rows \/ Written(q)
PROOF
  BY DEF MaterializeWrite, Written, NewRow, Rendered

(* A row that is inserted is of its type. *)
LEMMA NewRowIsTyped ==
  ASSUME NEW q \in Requests, NEW g \in Groups, req[q].check \in Contained, req[q].seen \in [Groups -> Checks \cup {None}]
  PROVE  NewRow(q, g) \in Checks \cup {None}
PROOF
<1> DEFINE check == req[q].check
           seen == req[q].seen[g]
           pinned == req[q].copy[req[q].app].pin # 0
<1>1. ASSUME NEW status \in RowStatuses
      PROVE  Stamp(check, status) \in Checks
  BY DEF Stamp, Contained, Checks
<1>2. "draft" \in RowStatuses
  BY DEF RowStatuses
<1>3. seen # None => DecideStatus(seen, check, pinned) \in RowStatuses
  <2>1. seen # None => seen.status \in RowStatuses
    BY DEF Checks
  <2>2. QED
    BY <2>1 DEF DecideStatus, RowStatuses
<1>4. NewRow(q, g) \in {None, Stamp(check, "draft")} \/ (seen # None /\ NewRow(q, g) = Stamp(check, DecideStatus(seen, check, pinned)))
  BY DEF NewRow
<1> HIDE DEF check, seen, pinned
<1>5. QED
  BY <1>1, <1>2, <1>3, <1>4

(* The checks. *)
LEMMA ChecksStayTyped ==
  ASSUME TypeInv, NEW q \in Requests, RemoveChecks(q) \/ MaterializeWrite(q) \/ CleanupOrphans(q) \/ SetRow(q)
  PROVE  DataOK'
PROOF
<1>1. DataOK
  BY TypeInvParts
<1>2. req[q] # Idle
  BY DEF RemoveChecks, MaterializeWrite, CleanupOrphans, SetRow, Phase, InTransition
<1>3. rows \in [Keys -> Checks \cup {None}] /\ \A k \in Keys : k[1] \in Apps /\ k[2] \in Groups /\ k = <<k[1], k[2]>>
  BY <1>1 DEF DataOK, TablesOK, Keys
<1>4. ASSUME rows' \in [Keys -> Checks \cup {None}],
             UNCHANGED <<table, apps, frozen, staged, suppressed, reg, store, autoUpgrade, ops, minted>>
      PROVE  DataOK'
  BY <1>1, <1>4 DEF DataOK, TablesOK, StoreOK, store
<1>5. CASE RemoveChecks(q)
  BY <1>3, <1>4, <1>5 DEF RemoveChecks, history
<1>6. CASE CleanupOrphans(q)
  BY <1>3, <1>4, <1>6 DEF CleanupOrphans, history
<1>7. CASE SetRow(q)
  <2> DEFINE to == Transition(q).to
             k == req[q].key
  <2>1. to \in RowStatuses
    BY <1>7 DEF SetRow, InTransition, Transition, Moves, RowStatuses
  <2>2. rows' = IF Unmoved(k, req[q].number) THEN [rows EXCEPT ![k].status = to] ELSE rows
    BY <1>7 DEF SetRow
  <2> HIDE DEF to, k
  <2>3. ASSUME NEW row \in Checks
        PROVE  [row EXCEPT !.status = to] \in Checks
    BY <2>1 DEF Checks
  <2>4. rows' \in [Keys -> Checks \cup {None}]
    BY <1>3, <2>2, <2>3 DEF Unmoved
  <2>5. QED
    BY <1>4, <1>7, <2>4 DEF SetRow
<1>8. CASE MaterializeWrite(q)
  <2>1. CASE UNCHANGED rows
    BY <1>3, <1>4, <1>8, <2>1 DEF MaterializeWrite, history
  <2>2. CASE Written(q)
    <3>1. req[q].check \in Contained /\ req[q].seen \in [Groups -> Checks \cup {None}] /\ req[q].app \in Apps
      BY <1>2, <1>8, SoundRequest DEF MaterializeWrite, Phase, HasRead, Writing, Busy
    <3>2. ASSUME NEW g \in Groups
          PROVE  NewRow(q, g) \in Checks \cup {None}
      BY <3>1, NewRowIsTyped
    <3>3. rows' = [k \in Keys |-> IF k[1] = req[q].app THEN NewRow(q, k[2]) ELSE rows[k]]
      BY <2>2 DEF Written
    <3>4. rows' \in [Keys -> Checks \cup {None}]
      BY <1>3, <3>2, <3>3
    <3>5. QED
      BY <1>4, <1>8, <3>4 DEF MaterializeWrite, history
  <2>3. QED
    BY <1>8, <2>1, <2>2, WriteIsWritten
<1>9. QED
  BY <1>5, <1>6, <1>7, <1>8

(* The table and its versions. *)
LEMMA VersionsStayTyped ==
  ASSUME TypeInv, NEW q \in Requests,
         DropTable(q) \/ SetTableStatus(q) \/ Settle(q) \/ FreezeBump(q) \/ FreezeInsert(q) \/ RefreezeUpdate(q)
  PROVE  DataOK'
PROOF
<1>1. DataOK
  BY TypeInvParts
<1>2. req[q] # Idle
  BY DEF DropTable, SetTableStatus, Settle, FreezeBump, FreezeInsert, RefreezeUpdate, Phase
<1>3. req[q] \in Busy /\ HasRead(req[q])
  BY <1>2, SoundRequest
<1>4. table \in [status : RowStatuses, version : 0..MaxVersion] \cup {None} /\ frozen \in [Versions -> RefSets \cup {None}]
  BY <1>1 DEF DataOK, TablesOK
<1>5. ASSUME table' \in [status : RowStatuses, version : 0..MaxVersion] \cup {None}, frozen' \in [Versions -> RefSets \cup {None}],
             UNCHANGED <<apps, rows, staged, suppressed, reg, store, autoUpgrade, ops, minted>>
      PROVE  DataOK'
  BY <1>1, <1>5 DEF DataOK, TablesOK, StoreOK, store
<1>6. ASSUME NEW status \in RowStatuses, SetStatus(q, status)
      PROVE  table' \in [status : RowStatuses, version : 0..MaxVersion] \cup {None}
  BY <1>4, <1>6 DEF SetStatus
<1>7. RollUp \in RowStatuses /\ "rejected" \in RowStatuses /\ "draft" \in RowStatuses
  BY DEF RollUp, RowStatuses
<1>8. CASE DropTable(q)
  BY <1>4, <1>5, <1>8 DEF DropTable, history
<1>9. CASE SetTableStatus(q)
  <2>1. table' \in [status : RowStatuses, version : 0..MaxVersion] \cup {None}
    BY <1>6, <1>7, <1>9 DEF SetTableStatus
  <2>2. QED
    BY <1>4, <1>5, <1>9, <2>1 DEF SetTableStatus, history
<1>10. CASE Settle(q)
  <2>1. table' \in [status : RowStatuses, version : 0..MaxVersion] \cup {None}
    BY <1>4, <1>6, <1>7, <1>10 DEF Settle
  <2>2. QED
    BY <1>4, <1>5, <1>10, <2>1 DEF Settle, history
<1>11. CASE FreezeBump(q)
  <2>1. req[q].number \in 0..MaxVersion
    BY <1>3 DEF Busy
  <2>2. table' \in [status : RowStatuses, version : 0..MaxVersion] \cup {None}
    BY <1>4, <1>11, <2>1 DEF FreezeBump
  <2>3. QED
    BY <1>4, <1>5, <1>11, <2>2 DEF FreezeBump, history
<1>12. CASE FreezeInsert(q) \/ RefreezeUpdate(q)
  <2>1. req[q].refs \in RefSets
    BY <1>3, <1>12 DEF FreezeInsert, RefreezeUpdate, Phase, HasRead, Saving, Busy
  <2>2. frozen' \in [Versions -> RefSets \cup {None}]
    BY <1>4, <1>12, <2>1 DEF FreezeInsert, InsertFrozen, RefreezeUpdate
  <2>3. UNCHANGED <<table, apps, rows, staged, suppressed, reg, store, autoUpgrade, ops, minted>>
    BY <1>12 DEF FreezeInsert, RefreezeUpdate, history
  <2>4. QED
    BY <1>4, <1>5, <2>2, <2>3
<1>13. QED
  BY <1>8, <1>9, <1>10, <1>11, <1>12

(* The registry, and what is staged or suppressed for the table. *)
LEMMA RulesStayTyped ==
  ASSUME TypeInv, NEW q \in Requests, PublishRule(q) \/ PublishSnapshot(q) \/ Forget(q) \/ Suppress(q)
  PROVE  DataOK'
PROOF
<1>1. DataOK
  BY TypeInvParts
<1>2. req[q] # Idle
  BY DEF PublishRule, PublishSnapshot, Forget, Suppress, Phase
<1>3. req[q] \in Busy /\ HasRead(req[q]) /\ req[q].body.rule \in Rules
  BY <1>2, SoundRequest DEF Busy, Applications
<1>4. CASE PublishRule(q)
  <2>1. reg' \in [Rules -> Registered \cup {None}]
    BY <1>1, <1>3, <1>4, BindingAssumption DEF PublishRule, DataOK, TablesOK, Registered
  <2>2. QED
    BY <1>1, <1>4, <2>1 DEF PublishRule, DataOK, TablesOK, StoreOK, store, history
<1>5. CASE PublishSnapshot(q)
  <2>1. req[q].content \in Contents
    BY <1>3 DEF Busy
  <2>2. snap' \in [Rules -> [Versions -> SUBSET Contents]] /\ saved' = saved
    BY <1>1, <1>3, <1>5, <2>1 DEF PublishSnapshot, Store!Publish, DataOK, StoreOK
  <2>3. QED
    BY <1>1, <1>5, <2>2 DEF PublishSnapshot, DataOK, TablesOK, StoreOK, tables, history
<1>6. CASE Forget(q)
  <2>1. staged' \in [Rules -> Mappings \cup {None}]
    BY <1>1, <1>3, <1>6 DEF Forget, DataOK, TablesOK
  <2>2. QED
    BY <1>1, <1>6, <2>1 DEF Forget, DataOK, TablesOK, StoreOK, store, history
<1>7. CASE Suppress(q)
  <2>1. req[q].copy[req[q].app] \in Applications
    BY <1>3, <1>7 DEF Suppress, Phase, HasRead, Busy
  <2>2. suppressed' \subseteq Rules \X Mappings
    BY <1>1, <1>7, <2>1 DEF Suppress, DataOK, TablesOK, Applications
  <2>3. QED
    BY <1>1, <1>7, <2>2 DEF Suppress, DataOK, TablesOK, StoreOK, store, history
<1>8. QED
  BY <1>4, <1>5, <1>6, <1>7

(* The steps of nobody's request. *)
LEMMA OthersStayTyped ==
  ASSUME TypeInv, NEW r \in Rules, Retire(r) \/ DeleteRule(r) \/ \E m \in Mappings : Stage(r, m)
  PROVE  DataOK' /\ UNCHANGED req
PROOF
<1>1. DataOK /\ ops' \in 0..MaxOps
  BY TypeInvParts, BindingAssumption DEF DataOK, Retire, DeleteRule, Stage
<1>2. CASE Retire(r) \/ DeleteRule(r)
  <2>1. reg' \in [Rules -> Registered \cup {None}]
    BY <1>1, <1>2 DEF Retire, DeleteRule, DataOK, TablesOK, Registered
  <2>2. UNCHANGED <<table, apps, rows, frozen, staged, suppressed, store, autoUpgrade, req, minted>>
    BY <1>2 DEF Retire, DeleteRule, history
  <2>3. QED
    BY <1>1, <2>1, <2>2 DEF DataOK, TablesOK, StoreOK, store
<1>3. CASE \E m \in Mappings : Stage(r, m)
  <2>1. staged' \in [Rules -> Mappings \cup {None}]
    BY <1>1, <1>3 DEF Stage, DataOK, TablesOK
  <2>2. UNCHANGED <<table, apps, rows, frozen, reg, suppressed, store, autoUpgrade, req, minted>>
    BY <1>3 DEF Stage
  <2>3. QED
    BY <1>1, <2>1, <2>2 DEF DataOK, TablesOK, StoreOK, store
<1>4. QED
  BY <1>2, <1>3

(* TypeInv is inductive. *)
LEMMA TypeStep ==
  ASSUME TypeInv, [Next]_vars
  PROVE  TypeInv'
PROOF
<1>1. DataOK /\ RequestsOK
  BY TypeInvParts
<1>2. (TypeInv <=> DataOK /\ RequestsOK)'
  BY TypeInvParts, PTL
<1>3. ASSUME NEW q \in Requests, Receive(q) \/ Serve(q) \/ Crash(q)
      PROVE  TypeInv'
  <2>1. RequestsOK'
    BY <1>3, RequestsStaySound
  <2>2. DataOK'
    <3>1. CASE \/ ApplyUpdate(q) \/ RemoveApplication(q) \/ DropApplications(q)
               \/ \E a \in Apps, pin \in 0..MaxVersion : ApplyInsert(q, a, pin)
      BY <3>1, ApplicationsStayTyped
    <3>2. CASE RemoveChecks(q) \/ MaterializeWrite(q) \/ CleanupOrphans(q) \/ SetRow(q)
      BY <3>2, ChecksStayTyped
    <3>3. CASE DropTable(q) \/ SetTableStatus(q) \/ Settle(q) \/ FreezeBump(q) \/ FreezeInsert(q) \/ RefreezeUpdate(q)
      BY <3>3, VersionsStayTyped
    <3>4. CASE PublishRule(q) \/ PublishSnapshot(q) \/ Forget(q) \/ Suppress(q)
      BY <3>4, RulesStayTyped
    <3>5. ops \in 0..MaxOps /\ minted \subseteq Apps
      BY <1>1 DEF DataOK
    <3>6. CASE Receive(q)
      BY <1>1, <3>5, <3>6, ReceiveIsQuiet, QuietTables DEF history
    <3>7. CASE \/ PublishLost(q) \/ ApplyCheck(q) \/ ApplyLookup(q) \/ Activate(q) \/ MaterializeList(q) \/ MaterializeRead(q)
               \/ Gate(q) \/ ListRows(q) \/ FreezeDetail(q) \/ FreezeCompute(q)
      <4>1. UNCHANGED <<tables, store, autoUpgrade, ops, history>>
        BY <3>7 DEF PublishLost, ApplyCheck, ApplyLookup, Activate, MaterializeList, MaterializeRead, Gate, ListRows, FreezeDetail,
                    FreezeCompute
      <4>2. QED
        BY <1>1, <3>5, <4>1, QuietTables DEF history
    <3>8. CASE Crash(q)
      BY <1>1, <3>5, <3>8, QuietTables DEF Crash
    <3>9. CASE \E a \in Apps : MaterializeRender(q, a)
      BY <1>1, <3>5, <3>9, QuietTables DEF MaterializeRender, history
    <3>10. CASE \E k \in Keys : CheckRow(q, k)
      BY <1>1, <3>5, <3>10, QuietTables DEF CheckRow, history
    <3>11. QED
      BY <1>3, <3>1, <3>2, <3>3, <3>4, <3>6, <3>7, <3>8, <3>9, <3>10 DEF Serve
  <2>3. QED
    BY <1>2, <2>1, <2>2
<1>4. ASSUME DataOK', UNCHANGED req
      PROVE  TypeInv'
  BY <1>1, <1>2, <1>4 DEF RequestsOK
<1>5. ASSUME NEW r \in Rules, Retire(r) \/ DeleteRule(r) \/ \E m \in Mappings : Stage(r, m)
      PROVE  TypeInv'
  BY <1>4, <1>5, OthersStayTyped
<1>6. ASSUME NEW a \in Apps, NEW pin \in 0..MaxVersion, NEW edit \in Edits, EditApplication(a, pin, edit)
      PROVE  TypeInv'
  BY <1>4, <1>6, EditsStayTyped DEF EditApplication
<1>7. CASE UNCHANGED vars
  BY <1>1, <1>4, <1>7, QuietTables DEF vars, history, DataOK
<1>8. QED
  BY <1>3, <1>5, <1>6, <1>7 DEF Next

(* TypeInv holds initially. *)
LEMMA TypeInit == Init => TypeInv
PROOF
<1> SUFFICES ASSUME Init
             PROVE  TypeInv
  OBVIOUS
<1>1. /\ table = [status |-> "draft", version |-> 0]
      /\ rows = [k \in Keys |-> None] /\ frozen = [v \in Versions |-> None] /\ staged = [r \in Rules |-> None] /\ suppressed = {}
      /\ saved = [r \in Rules |-> Contents] /\ autoUpgrade \in BOOLEAN /\ req = [q \in Requests |-> Idle] /\ ops = 0
  BY DEF Init
<1>2. PICK known \in SUBSET Rules, a \in Apps :
        /\ minted \in {{}} \cup (IF known # {} THEN {{a}} ELSE {})
        /\ apps = [x \in Apps |-> IF x \notin minted THEN None
                                 ELSE [rule |-> Some(known), mapping |-> Some(Mappings), pin |-> 0, edit |-> Some(Edits), auto |-> TRUE]]
        /\ reg = [r \in Rules |-> [approved |-> r \in known, version |-> IF r \in known THEN 1 ELSE 0]]
        /\ snap = [r \in Rules |-> [v \in Versions |-> IF r \in known /\ v = 1 THEN {Some(Contents)} ELSE {}]]
  BY DEF Init
<1>3. 0 \in 0..MaxVersion /\ 1 \in 0..MaxVersion /\ 0 \in 0..MaxOps
  BY BindingAssumption
<1>4. minted \subseteq Apps /\ (minted # {} => known # {})
  BY <1>2
<1>5. apps \in [Apps -> Applications \cup {None}]
  <2>1. known # {} => Some(known) \in Rules
    BY SomeIsMember
  <2>2. Some(Mappings) \in Mappings /\ Some(Edits) \in Edits
    BY SomeIsMember, BindingAssumption
  <2>3. QED
    BY <1>2, <1>3, <1>4, <2>1, <2>2 DEF Applications
<1>6. reg \in [Rules -> Registered \cup {None}]
  BY <1>2, <1>3 DEF Registered
<1>7. snap \in [Rules -> [Versions -> SUBSET Contents]]
  <2>1. {Some(Contents)} \in SUBSET Contents
    BY SomeIsMember, BindingAssumption
  <2>2. QED
    BY <1>2, <2>1
<1>8. DataOK
  BY <1>1, <1>3, <1>4, <1>5, <1>6, <1>7 DEF DataOK, TablesOK, StoreOK, RowStatuses
<1>9. RequestsOK
  BY <1>1 DEF RequestsOK
<1>10. QED
  BY <1>8, <1>9, TypeInvParts

(* The variables of a monitored table have the values the model gives them,  *)
(* whatever requests interleave and wherever they are cut off.               *)
THEOREM BindingTypeCorrect == Spec => []TypeOK
PROOF
<1>1. Spec => []TypeInv
  BY TypeInit, TypeStep, PTL DEF Spec
<1>2. TypeInv => TypeOK
  BY DEF TypeInv
<1>3. QED
  BY <1>1, <1>2, PTL

-----------------------------------------------------------------------------
(* What changes in a step *)

(* The steps that only change the entry of their request. *)
Thinks(q) ==
  \/ Receive(q) \/ PublishLost(q) \/ ApplyCheck(q) \/ ApplyLookup(q) \/ Activate(q) \/ MaterializeList(q) \/ MaterializeRead(q)
  \/ Gate(q) \/ ListRows(q) \/ FreezeDetail(q) \/ FreezeCompute(q)
  \/ \E a \in Apps : MaterializeRender(q, a)
  \/ \E k \in Keys : CheckRow(q, k)

SetsTable(q) == DropTable(q) \/ SetTableStatus(q) \/ Settle(q) \/ FreezeBump(q)
MakesApplication(q) == ApplyUpdate(q) \/ \E a \in Apps, pin \in 0..MaxVersion : ApplyInsert(q, a, pin)
SetsApps(q) == MakesApplication(q) \/ RemoveApplication(q) \/ DropApplications(q)
SetsRows(q) == RemoveChecks(q) \/ MaterializeWrite(q) \/ CleanupOrphans(q) \/ SetRow(q)
SetsFrozen(q) == FreezeInsert(q) \/ RefreezeUpdate(q)

(* Steps of requests that only think leave the shared data alone. *)
LEMMA ThinkingFrame ==
  ASSUME NEW q \in Requests, Thinks(q)
  PROVE  UNCHANGED <<tables, store, autoUpgrade, history>>
PROOF
<1>1. CASE Receive(q)
  BY <1>1 DEF Receive, Arrive
<1>2. CASE ~Receive(q)
  BY <1>2 DEF Thinks, PublishLost, ApplyCheck, ApplyLookup, Activate, MaterializeList, MaterializeRead, Gate, ListRows,
              FreezeDetail, FreezeCompute, MaterializeRender, CheckRow
<1>3. QED
  BY <1>1, <1>2

(* Steps that set the status of the table leave the rest of the tables alone. *)
LEMMA TableFrame ==
  ASSUME NEW q \in Requests, SetsTable(q)
  PROVE  UNCHANGED <<apps, rows, frozen, staged, suppressed, reg, store, autoUpgrade, history>>
PROOF
  BY DEF SetsTable, DropTable, SetTableStatus, Settle, FreezeBump

(* Steps that set applications leave the rest of the tables alone. *)
LEMMA AppsFrame ==
  ASSUME NEW q \in Requests, SetsApps(q)
  PROVE  /\ UNCHANGED <<table, rows, frozen, staged, suppressed, reg, store, autoUpgrade, decided, asked, cut>>
         /\ honoured \subseteq honoured'
PROOF
  BY DEF SetsApps, MakesApplication, ApplyUpdate, ApplyInsert, RemoveApplication, DropApplications, history

(* Steps that set rows of checks leave the rest of the tables alone. *)
LEMMA RowsFrame ==
  ASSUME NEW q \in Requests, SetsRows(q)
  PROVE  /\ UNCHANGED <<table, apps, frozen, staged, suppressed, reg, store, autoUpgrade, honoured, asked, cut, minted>>
         /\ decided \subseteq decided'
PROOF
  BY DEF SetsRows, RemoveChecks, MaterializeWrite, CleanupOrphans, SetRow, history

(* Steps that set frozen versions leave the rest of the tables alone. *)
LEMMA FrozenFrame ==
  ASSUME NEW q \in Requests, SetsFrozen(q)
  PROVE  UNCHANGED <<table, apps, rows, staged, suppressed, reg, store, autoUpgrade, history>>
PROOF
  BY DEF SetsFrozen, FreezeInsert, RefreezeUpdate

(* The remaining steps of a request set neither the table nor its applications, rows or versions. *)
LEMMA RulesFrame ==
  ASSUME NEW q \in Requests, PublishRule(q) \/ PublishSnapshot(q) \/ Forget(q) \/ Suppress(q) \/ Crash(q)
  PROVE  /\ UNCHANGED <<table, apps, rows, frozen, autoUpgrade, decided, honoured, asked, minted>>
         /\ cut \subseteq cut'
         /\ PublishSnapshot(q) \/ UNCHANGED store
         /\ Forget(q) \/ UNCHANGED staged
PROOF
  BY DEF PublishRule, PublishSnapshot, Forget, Suppress, Crash, tables, history

(* A step of a request is one of the groups above. *)
LEMMA ServeSplits ==
  ASSUME NEW q \in Requests, Receive(q) \/ Serve(q) \/ Crash(q)
  PROVE  \/ Thinks(q) \/ SetsTable(q) \/ SetsApps(q) \/ SetsRows(q) \/ SetsFrozen(q)
         \/ PublishRule(q) \/ PublishSnapshot(q) \/ Forget(q) \/ Suppress(q) \/ Crash(q)
PROOF
  BY DEF Serve, Thinks, SetsTable, SetsApps, MakesApplication, SetsRows, SetsFrozen

(* The steps of nobody's request. *)
Outside ==
  \/ \E r \in Rules : Retire(r) \/ DeleteRule(r) \/ \E m \in Mappings : Stage(r, m)
  \/ \E a \in Apps, pin \in 0..MaxVersion, edit \in Edits : EditApplication(a, pin, edit)

(* What users do to rules and applications meanwhile leaves tables and requests alone. *)
LEMMA OutsideFrame ==
  ASSUME Outside
  PROVE  UNCHANGED <<table, rows, frozen, suppressed, store, autoUpgrade, req, decided, honoured, cut, minted>>
PROOF
  BY DEF Outside, Retire, DeleteRule, Stage, EditApplication, history

(* Every step of the specification is in one of the groups above. *)
LEMMA NextSplits ==
  [Next]_vars <=> (\E q \in Requests : Receive(q) \/ Serve(q) \/ Crash(q)) \/ Outside \/ UNCHANGED vars
PROOF
  BY DEF Next, Outside

(* One entry at a time. *)
LEMMA OneMoves ==
  ASSUME TypeInv, NEW q \in Requests, NEW c, MovesTo(q, c)
  PROVE  \A p \in Requests : req'[p] = IF p = q THEN c ELSE req[p]
PROOF
  BY DEF MovesTo, TypeInv, RequestsOK

-----------------------------------------------------------------------------
(* Only reviewed versions are approved or frozen *)

(* What a request is about to freeze stays reviewed whatever the other requests do. *)
LEMMA ReviewedRequest ==
  ASSUME TypeInv, ReviewInv, ~autoUpgrade, NEW q \in Requests, Receive(q) \/ Serve(q) \/ Crash(q), decided \subseteq decided'
  PROVE  \A p \in Requests : req'[p] # Idle => SeenIsReviewed(req[p])' /\ RefsAreReviewed(req[p])'
PROOF
<1>1. /\ RowsAreReviewed
      /\ \A p \in Requests : req[p] # Idle => SeenIsReviewed(req[p]) /\ RefsAreReviewed(req[p])
  BY DEF ReviewInv
<1>2. ASSUME NEW c, MovesTo(q, c), c # Idle => SeenIsReviewed(c)' /\ RefsAreReviewed(c)'
      PROVE  \A p \in Requests : req'[p] # Idle => SeenIsReviewed(req[p])' /\ RefsAreReviewed(req[p])'
  <2>1. ASSUME NEW p \in Requests, p # q, req'[p] # Idle
        PROVE  SeenIsReviewed(req[p])' /\ RefsAreReviewed(req[p])'
    <3>1. req'[p] = req[p]
      BY <1>2, <2>1, OneMoves
    <3>2. SeenIsReviewed(req[p]) /\ RefsAreReviewed(req[p])
      BY <1>1, <2>1, <3>1
    <3>3. QED
      BY <3>1, <3>2 DEF SeenIsReviewed, RefsAreReviewed, Decided
  <2>2. req'[q] = c
    BY <1>2, OneMoves
  <2>3. QED
    BY <1>2, <2>1, <2>2
<1>3. ASSUME NEW c, ~Writing(c), ~Saving(c)
      PROVE  SeenIsReviewed(c)' /\ RefsAreReviewed(c)'
  BY <1>3 DEF SeenIsReviewed, RefsAreReviewed, Writing
<1>4. CASE QuietStep(q)
  BY <1>2, <1>3, <1>4 DEF QuietStep, Quiet
<1>5. CASE Applies(q)
  <2>1. ASSUME NEW c, Fresh(c)
        PROVE  ~Writing(c) /\ ~Saving(c)
    BY <2>1 DEF Fresh, Writing, Saving
  <2>2. QED
    BY <1>2, <1>3, <1>5, <2>1, AppliedIsSound
<1>6. CASE Activates(q) \/ \E a \in Apps : Rendering(q, a)
  <2>1. PICK c : MovesTo(q, c) /\ c.step \in {"list", "read"}
    BY <1>6 DEF Activates, Rendering
  <2>2. SeenIsReviewed(c)' /\ RefsAreReviewed(c)'
    BY <2>1 DEF SeenIsReviewed, RefsAreReviewed, Saving
  <2>3. QED
    BY <1>2, <2>1, <2>2
<1>7. CASE ReadsRows(q)
  <2>1. PICK c \in Busy : MovesTo(q, c) /\ c.step = "write" /\ c.app = req[q].app /\ c.seen = [g \in Groups |-> rows[<<req[q].app, g>>]]
    BY <1>7 DEF ReadsRows
  <2>2. c.app \in Apps
    BY DEF Busy
  <2>3. ASSUME NEW g \in Groups, c.seen[g] # None, c.seen[g].status = "approved"
        PROVE  <<c.app, c.seen[g].version>> \in decided
    <3>1. <<c.app, g>> \in Keys /\ c.seen[g] = rows[<<c.app, g>>] /\ <<c.app, g>>[1] = c.app
      BY <2>1, <2>2 DEF Keys
    <3>2. QED
      BY <1>1, <2>3, <3>1 DEF RowsAreReviewed, Decided
  <2>4. SeenIsReviewed(c)' /\ RefsAreReviewed(c)'
    BY <2>1, <2>3 DEF SeenIsReviewed, RefsAreReviewed, Saving, Decided
  <2>5. QED
    BY <1>2, <2>1, <2>4
<1>8. CASE Computes(q)
  <2>1. PICK c \in Busy : /\ MovesTo(q, c) /\ c.step \in {"bump", "update"} /\ c.plan = req[q].plan
                          /\ c.refs = ApprovedRefs(req[q].copy)
    BY <1>8 DEF Computes
  <2>2. req[q].copy \in [Apps -> Applications \cup {None}]
    BY <1>8, SoundRequest DEF Computes, Busy
  <2>3. ASSUME NEW a \in Apps, c.refs[a] # None
        PROVE  <<a, c.refs[a].version>> \in decided
    BY <1>1, <2>1, <2>2, <2>3, ApprovedRefsAreApproved DEF ApprovedRow, RowsAreReviewed, Decided
  <2>4. SeenIsReviewed(c)' /\ RefsAreReviewed(c)'
    BY <2>1, <2>3 DEF SeenIsReviewed, RefsAreReviewed, Decided
  <2>5. QED
    BY <1>2, <2>1, <2>4
<1>9. CASE Bumps(q)
  <2>1. PICK c \in Busy : MovesTo(q, c) /\ c.step = "insert" /\ c.plan = req[q].plan /\ c.refs = req[q].refs
    BY <1>9 DEF Bumps
  <2>2. Saving(req[q]) /\ RefsAreReviewed(req[q])
    BY <1>1, <1>9 DEF Bumps, Saving
  <2>3. SeenIsReviewed(c)' /\ RefsAreReviewed(c)'
    BY <2>1, <2>2 DEF SeenIsReviewed, RefsAreReviewed, Decided
  <2>4. QED
    BY <1>2, <2>1, <2>3
<1>10. QED
  BY <1>4, <1>5, <1>6, <1>7, <1>8, <1>9, StepOfRequest

(* Only a decision approves a check; a materialization keeps an approval it *)
(* has seen only for the version that was approved.                         *)
LEMMA ReviewedRows ==
  ASSUME TypeInv, ReviewInv, ~autoUpgrade, NEW q \in Requests, SetsRows(q)
  PROVE  RowsAreReviewed'
PROOF
<1>1. RowsAreReviewed /\ decided \subseteq decided'
  BY RowsFrame DEF ReviewInv
<1>2. CASE RemoveChecks(q) \/ CleanupOrphans(q)
  <2>1. \A k \in Keys : rows'[k] \in {None, rows[k]}
    BY <1>2 DEF RemoveChecks, CleanupOrphans, TypeInv, TypeOK
  <2>2. QED
    BY <1>1, <2>1 DEF RowsAreReviewed, Decided
<1>3. CASE SetRow(q)
  <2> DEFINE k == req[q].key
             to == Transition(q).to
             n == req[q].number
  <2>1. /\ rows' = IF Unmoved(k, n) THEN [rows EXCEPT ![k].status = to] ELSE rows
        /\ to = "approved" => decided' = decided \cup {<<k[1], n>>}
    BY <1>3 DEF SetRow
  <2> HIDE DEF to, n, k
  <2>2. ASSUME NEW j \in Keys, rows'[j] # None, rows'[j].status = "approved"
        PROVE  <<j[1], rows'[j].version>> \in decided'
    <3>1. CASE rows'[j] = rows[j]
      BY <1>1, <2>2, <3>1 DEF RowsAreReviewed, Decided
    <3>2. CASE rows'[j] # rows[j]
      <4>1. j = k /\ rows[j] # None /\ rows[j].version = n /\ rows'[j] = [rows[j] EXCEPT !.status = to]
        BY <2>1, <3>2 DEF Unmoved, TypeInv, TypeOK
      <4>2. rows[j] \in Checks
        BY <4>1 DEF TypeInv, TypeOK
      <4>3. rows'[j].version = n /\ rows'[j].status = to
        BY <4>1, <4>2 DEF Checks
      <4>4. QED
        BY <2>1, <2>2, <4>1, <4>3
    <3>3. QED
      BY <3>1, <3>2
  <2>3. QED
    BY <2>2 DEF RowsAreReviewed, Decided
<1>4. CASE MaterializeWrite(q)
  <2>1. req[q] # Idle /\ Head(req[q].plan) = "mat" /\ req[q].step = "write"
    BY <1>4 DEF MaterializeWrite, Phase
  <2>2. req[q].check \in Contained /\ req[q].seen \in [Groups -> Checks \cup {None}] /\ SeenIsReviewed(req[q])
    BY <2>1, SoundRequest DEF HasRead, Writing, Busy, ReviewInv
  <2>3. CASE UNCHANGED rows
    BY <1>1, <2>3 DEF RowsAreReviewed, Decided
  <2>4. CASE Written(q)
    <3>1. ASSUME NEW k \in Keys, k[1] # req[q].app
          PROVE  rows'[k] = rows[k]
      BY <2>4, <3>1 DEF Written
    <3>2. ASSUME NEW k \in Keys, k[1] = req[q].app, rows'[k] # None, rows'[k].status = "approved"
          PROVE  <<k[1], rows'[k].version>> \in decided'
      <4> DEFINE g == k[2]
                 check == req[q].check
                 seen == req[q].seen[g]
                 pinned == req[q].copy[req[q].app].pin # 0
      <4>1. g \in Groups /\ rows'[k] = NewRow(q, g)
        BY <2>4, <3>2 DEF Written, Keys
      <4>2. /\ rows'[k] = Stamp(check, "draft") \/ rows'[k] = Stamp(check, DecideStatus(seen, check, pinned))
            /\ seen = None => rows'[k] = Stamp(check, "draft")
        BY <3>2, <4>1 DEF NewRow
      <4>3. rows'[k].version = check.version
        BY <4>2 DEF Stamp
      <4>4. seen # None /\ DecideStatus(seen, check, pinned) = "approved"
        BY <3>2, <4>2 DEF Stamp
      <4>5. seen.status = "approved" /\ seen.version = check.version
        BY <2>2, <4>1, <4>4 DEF DecideStatus, SameCheck, Checks, RowStatuses
      <4>6. <<k[1], check.version>> \in decided
        BY <2>1, <2>2, <3>2, <4>1, <4>4, <4>5 DEF SeenIsReviewed, Decided
      <4>7. QED
        BY <1>1, <4>3, <4>6
    <3>3. QED
      BY <1>1, <3>1, <3>2 DEF RowsAreReviewed, Decided
  <2>5. QED
    BY <1>4, <2>3, <2>4, WriteIsWritten
<1>5. QED
  BY <1>2, <1>3, <1>4 DEF SetsRows

(* Stored versions stay reviewed. *)
LEMMA ReviewedVersions ==
  ASSUME TypeInv, ReviewInv, ~autoUpgrade, NEW q \in Requests, SetsFrozen(q)
  PROVE  VersionsAreReviewed'
PROOF
<1>1. VersionsAreReviewed /\ decided' = decided
  BY FrozenFrame DEF ReviewInv, history
<1>2. req[q] # Idle /\ Saving(req[q])
  BY DEF SetsFrozen, FreezeInsert, RefreezeUpdate, Phase, Saving
<1>3. \A a \in Apps : req[q].refs[a] # None => <<a, req[q].refs[a].version>> \in decided
  BY <1>2 DEF ReviewInv, RefsAreReviewed, Decided
<1>4. \A v \in Versions : frozen'[v] \in {None, frozen[v], req[q].refs}
  BY DEF SetsFrozen, FreezeInsert, InsertFrozen, RefreezeUpdate, TypeInv, TypeOK
<1>5. QED
  BY <1>1, <1>3, <1>4 DEF VersionsAreReviewed, Decided

(* ReviewInv is inductive. *)
LEMMA ReviewStep ==
  ASSUME TypeInv, ReviewInv, [Next]_vars
  PROVE  ReviewInv'
PROOF
<1> SUFFICES ASSUME ~autoUpgrade'
             PROVE  /\ RowsAreReviewed' /\ VersionsAreReviewed'
                    /\ \A p \in Requests : req'[p] # Idle => SeenIsReviewed(req[p])' /\ RefsAreReviewed(req[p])'
  BY DEF ReviewInv
<1>1. ASSUME UNCHANGED <<rows, frozen, autoUpgrade>>, decided \subseteq decided'
      PROVE  RowsAreReviewed' /\ VersionsAreReviewed'
  BY <1>1 DEF ReviewInv, RowsAreReviewed, VersionsAreReviewed, Decided
<1>2. ASSUME NEW q \in Requests, Receive(q) \/ Serve(q) \/ Crash(q)
      PROVE  /\ RowsAreReviewed' /\ VersionsAreReviewed' /\ autoUpgrade' = autoUpgrade /\ decided \subseteq decided'
  <2>1. CASE Thinks(q)
    BY <1>1, <2>1, ThinkingFrame DEF tables, history
  <2>2. CASE SetsTable(q)
    BY <1>1, <2>2, TableFrame DEF history
  <2>3. CASE SetsApps(q)
    BY <1>1, <2>3, AppsFrame
  <2>4. CASE SetsRows(q)
    <3>1. ~autoUpgrade /\ decided \subseteq decided' /\ frozen' = frozen /\ autoUpgrade' = autoUpgrade
      BY <2>4, RowsFrame
    <3>2. VersionsAreReviewed'
      BY <3>1 DEF ReviewInv, VersionsAreReviewed, Decided
    <3>3. QED
      BY <2>4, <3>1, <3>2, ReviewedRows
  <2>5. CASE SetsFrozen(q)
    <3>1. ~autoUpgrade /\ decided' = decided /\ rows' = rows /\ autoUpgrade' = autoUpgrade
      BY <2>5, FrozenFrame DEF history
    <3>2. RowsAreReviewed'
      BY <3>1 DEF ReviewInv, RowsAreReviewed, Decided
    <3>3. QED
      BY <2>5, <3>1, <3>2, ReviewedVersions
  <2>6. CASE PublishRule(q) \/ PublishSnapshot(q) \/ Forget(q) \/ Suppress(q) \/ Crash(q)
    BY <1>1, <2>6, RulesFrame
  <2>7. QED
    BY <1>2, <2>1, <2>2, <2>3, <2>4, <2>5, <2>6, ServeSplits
<1>3. ASSUME UNCHANGED <<rows, frozen, autoUpgrade, decided, req>>
      PROVE  /\ RowsAreReviewed' /\ VersionsAreReviewed'
             /\ \A p \in Requests : req'[p] # Idle => SeenIsReviewed(req[p])' /\ RefsAreReviewed(req[p])'
  <2>1. \A p \in Requests : req[p] # Idle => SeenIsReviewed(req[p]) /\ RefsAreReviewed(req[p])
    BY <1>3 DEF ReviewInv
  <2>2. QED
    BY <1>1, <1>3, <2>1 DEF SeenIsReviewed, RefsAreReviewed, Decided
<1>4. CASE Outside
  BY <1>3, <1>4, OutsideFrame
<1>5. CASE UNCHANGED vars
  BY <1>3, <1>5 DEF vars, tables, history
<1>6. ASSUME NEW q \in Requests, Receive(q) \/ Serve(q) \/ Crash(q)
      PROVE  \A p \in Requests : req'[p] # Idle => SeenIsReviewed(req[p])' /\ RefsAreReviewed(req[p])'
  BY <1>2, <1>6, ReviewedRequest
<1>7. QED
  BY <1>2, <1>4, <1>5, <1>6, NextSplits

(* ReviewInv holds initially. *)
LEMMA ReviewInit == Init => ReviewInv
PROOF
  BY DEF Init, ReviewInv, RowsAreReviewed, VersionsAreReviewed

(* Without automatic upgrades, every version of a rule that is approved for  *)
(* a table or kept by one of its frozen versions was accepted by a reviewer, *)
(* although materializations write status and version of a check from an     *)
(* earlier read while reviews run.                                           *)
THEOREM OnlyReviewedVersionsRun == Spec => []ReviewedVersionsOnly
PROOF
<1>1. Init => TypeInv /\ ReviewInv
  BY TypeInit, ReviewInit
<1>2. TypeInv /\ ReviewInv /\ [Next]_vars => (TypeInv /\ ReviewInv)'
  BY TypeStep, ReviewStep
<1>3. ReviewInv => ReviewedVersionsOnly
  BY DEF ReviewInv, RowsAreReviewed, VersionsAreReviewed, Decided, ReviewedVersionsOnly
<1>4. QED
  BY <1>1, <1>2, <1>3, PTL DEF Spec

-----------------------------------------------------------------------------
(* The versions a table shows can be run *)

(* A request that is about to insert a snapshot inserts it or dies. *)
LEMMA InsertsOrDies ==
  ASSUME NEW q \in Requests, Phase(q, "freeze", "insert"), Receive(q) \/ Serve(q) \/ Crash(q)
  PROVE  FreezeInsert(q) \/ Crash(q)
PROOF
<1>1. req[q] # Idle /\ Head(req[q].plan) = "freeze" /\ req[q].step = "insert"
  BY DEF Phase
<1>2. ~Receive(q)
  BY <1>1 DEF Receive
<1>3. /\ ~PublishRule(q) /\ ~PublishSnapshot(q) /\ ~PublishLost(q) /\ ~Activate(q) /\ ~Forget(q) /\ ~ApplyCheck(q) /\ ~ApplyLookup(q)
      /\ ~ApplyUpdate(q) /\ ~\E a \in Apps, pin \in 0..MaxVersion : ApplyInsert(q, a, pin)
  BY <1>1 DEF PublishRule, PublishSnapshot, PublishLost, Activate, Forget, ApplyCheck, ApplyLookup, ApplyUpdate, ApplyInsert, Phase
<1>4. /\ ~RemoveChecks(q) /\ ~RemoveApplication(q) /\ ~Suppress(q) /\ ~DropApplications(q) /\ ~DropTable(q) /\ ~MaterializeList(q)
      /\ ~MaterializeRead(q) /\ ~MaterializeWrite(q) /\ ~CleanupOrphans(q) /\ ~\E a \in Apps : MaterializeRender(q, a)
  BY <1>1 DEF RemoveChecks, RemoveApplication, Suppress, DropApplications, DropTable, MaterializeList, MaterializeRead,
              MaterializeWrite, CleanupOrphans, MaterializeRender, Phase
<1>5. /\ ~Gate(q) /\ ~SetTableStatus(q) /\ ~Settle(q) /\ ~FreezeDetail(q) /\ ~FreezeCompute(q) /\ ~FreezeBump(q) /\ ~RefreezeUpdate(q)
  BY <1>1 DEF Gate, SetTableStatus, Settle, FreezeDetail, FreezeCompute, FreezeBump, RefreezeUpdate, Phase
<1>6. ~ListRows(q) /\ ~SetRow(q) /\ ~\E k \in Keys : CheckRow(q, k)
  BY <1>1 DEF ListRows, SetRow, CheckRow, InTransition, Moves
<1>7. QED
  BY <1>2, <1>3, <1>4, <1>5, <1>6 DEF Serve

(* Snapshots are never taken back. *)
LEMMA FrozenStays ==
  ASSUME TypeInv, [Next]_vars, NEW v \in Versions, frozen[v] # None
  PROVE  frozen'[v] # None
PROOF
<1>1. CASE UNCHANGED frozen
  BY <1>1
<1>2. ASSUME NEW q \in Requests, SetsFrozen(q)
      PROVE  frozen'[v] # None
  <2>1. req[q].refs \in RefSets
    BY <1>2, SoundRequest DEF SetsFrozen, FreezeInsert, RefreezeUpdate, Phase, HasRead, Saving, Busy
  <2>2. req[q].refs # None
    BY <2>1, NoneAssumption DEF RefSets
  <2>3. QED
    BY <1>2, <2>2 DEF SetsFrozen, FreezeInsert, InsertFrozen, RefreezeUpdate, TypeInv, TypeOK
<1>3. ASSUME NEW q \in Requests, Receive(q) \/ Serve(q) \/ Crash(q)
      PROVE  UNCHANGED frozen \/ SetsFrozen(q)
  BY <1>3, ServeSplits, ThinkingFrame, TableFrame, AppsFrame, RowsFrame, RulesFrame DEF tables
<1>4. QED
  BY <1>1, <1>2, <1>3, OutsideFrame, NextSplits DEF vars, tables

(* A version number stays accounted for across every step. *)
LEMMA CoverStays ==
  ASSUME TypeInv, [Next]_vars, NEW v \in Versions, Covered(v)
  PROVE  Covered(v)'
PROOF
<1>1. CASE frozen[v] # None
  BY <1>1, FrozenStays DEF Covered
<1>2. cut \subseteq cut'
  <2>1. ASSUME NEW q \in Requests, Receive(q) \/ Serve(q) \/ Crash(q)
        PROVE  cut \subseteq cut'
    BY <2>1, ServeSplits, ThinkingFrame, TableFrame, AppsFrame, RowsFrame, FrozenFrame, RulesFrame DEF history
  <2>2. QED
    BY <2>1, OutsideFrame, NextSplits DEF vars, history
<1>3. CASE v \in cut
  BY <1>2, <1>3 DEF Covered
<1>4. ASSUME NEW p \in Requests, Phase(p, "freeze", "insert"), req[p].number = v
      PROVE  Covered(v)'
  <2>1. CASE req'[p] = req[p]
    BY <1>4, <2>1 DEF Covered, Freezing, Phase
  <2>2. CASE req'[p] # req[p]
    <3>1. PICK q \in Requests : Receive(q) \/ Serve(q) \/ Crash(q)
      BY <2>2, OutsideFrame, NextSplits DEF vars
    <3>2. p = q
      BY <2>2, <3>1, RequestsStaySound, OneMoves
    <3>3. CASE FreezeInsert(q)
      <4>1. req[p].refs \in RefSets
        BY <1>4, SoundRequest DEF Phase, HasRead, Saving, Busy
      <4>2. req[p].refs # None
        BY <4>1, NoneAssumption DEF RefSets
      <4>3. frozen'[v] # None
        BY <1>4, <3>2, <3>3, <4>2 DEF FreezeInsert, InsertFrozen, TypeInv, TypeOK
      <4>4. QED
        BY <4>3 DEF Covered
    <3>4. CASE Crash(q)
      BY <1>4, <3>2, <3>4 DEF Crash, Covered
    <3>5. QED
      BY <1>4, <3>1, <3>2, <3>3, <3>4, InsertsOrDies
  <2>3. QED
    BY <2>1, <2>2
<1>5. QED
  BY <1>1, <1>3, <1>4 DEF Covered, Freezing

(* The version a table shows changes only when a request shows the next one. *)
LEMMA ShownVersion ==
  ASSUME TypeInv, [Next]_vars
  PROVE  \/ table' = None
         \/ table # None /\ table'.version = table.version
         \/ \E q \in Requests : Bumps(q)
PROOF
<1>1. CASE UNCHANGED table
  BY <1>1
<1>2. ASSUME NEW q \in Requests, SetsTable(q)
      PROVE  table' = None \/ (table # None /\ table'.version = table.version) \/ Bumps(q)
  <2>1. table # None => table \in [status : RowStatuses, version : 0..MaxVersion]
    BY DEF TypeInv, TypeOK
  <2>2. ASSUME NEW status, SetStatus(q, status)
        PROVE  table' = None \/ (table # None /\ table'.version = table.version)
    BY <2>1, <2>2 DEF SetStatus
  <2>3. CASE DropTable(q)
    BY <2>3 DEF DropTable
  <2>4. CASE SetTableStatus(q)
    BY <2>2, <2>4 DEF SetTableStatus
  <2>5. CASE Settle(q)
    BY <2>2, <2>5 DEF Settle
  <2>6. CASE FreezeBump(q)
    BY <2>6, FreezeBumpIsSound
  <2>7. QED
    BY <1>2, <2>3, <2>4, <2>5, <2>6 DEF SetsTable
<1>3. ASSUME NEW q \in Requests, Receive(q) \/ Serve(q) \/ Crash(q)
      PROVE  UNCHANGED table \/ SetsTable(q)
  BY <1>3, ServeSplits, ThinkingFrame, AppsFrame, RowsFrame, FrozenFrame, RulesFrame DEF tables
<1>4. QED
  BY <1>1, <1>2, <1>3, OutsideFrame, NextSplits DEF vars, tables

(* VersionInv is inductive. *)
LEMMA VersionStep ==
  ASSUME TypeInv, VersionInv, [Next]_vars
  PROVE  VersionInv'
PROOF
<1>1. ASSUME NEW v \in Versions, Covered(v)
      PROVE  Covered(v)'
  BY <1>1, CoverStays
<1>2. table # None => table.version \in 0..MaxVersion /\ \A v \in 1..table.version : v \in Versions /\ Covered(v)
  <2>1. table # None => table.version \in 0..MaxVersion
    BY DEF TypeInv, TypeOK
  <2>2. table # None => 1..table.version \subseteq Versions
    BY <2>1, BindingAssumption DEF Versions
  <2>3. QED
    BY <2>1, <2>2 DEF VersionInv, VersionHasSnapshot, Covered
<1>3. ASSUME NEW p \in Requests, Phase(p, "freeze", "bump")
      PROVE  req[p].number \in Versions /\ \A v \in 1..(req[p].number - 1) : v \in Versions /\ Covered(v)
  <2>1. req[p].number \in 0..MaxVersion /\ req[p].number # 0
    BY <1>3, SoundRequest DEF Phase, HasRead, Numbered, Saving, Busy
  <2>2. req[p].number \in Versions /\ 1..(req[p].number - 1) \subseteq Versions
    BY <2>1, BindingAssumption DEF Versions
  <2>3. QED
    BY <1>3, <2>2 DEF VersionInv
<1>4. (table # None => \A v \in 1..table.version : Covered(v))'
  <2>1. CASE table # None /\ table'.version = table.version
    BY <1>1, <1>2, <2>1
  <2>2. ASSUME NEW q \in Requests, Bumps(q), table' # None
        PROVE  \A v \in 1..table'.version : Covered(v)'
    <3>1. Phase(q, "freeze", "bump") /\ table' = [table EXCEPT !.version = req[q].number] /\ table # None
      BY <2>2 DEF Bumps, Phase
    <3>2. PICK n \in Versions : n = req[q].number
      BY <1>3, <3>1
    <3>3. table'.version = n
      BY <3>1, <3>2 DEF TypeInv, TypeOK
    <3>4. \A v \in 1..(n - 1) : Covered(v)'
      BY <1>1, <1>3, <3>1, <3>2
    <3>5. Covered(n)'
      <4>1. PICK c \in Busy : MovesTo(q, c) /\ c.step = "insert" /\ c.plan = req[q].plan /\ c.number = n
        BY <2>2, <3>2 DEF Bumps
      <4>2. req'[q] = c /\ Head(c.plan) = "freeze" /\ c # Idle
        BY <2>2, <4>1, OneMoves DEF Bumps, Busy, Idle
      <4>3. Phase(q, "freeze", "insert")' /\ req'[q].number = n
        BY <4>1, <4>2 DEF Phase
      <4>4. QED
        BY <4>3 DEF Covered, Freezing
    <3>6. \A v \in 1..n : v \in 1..(n - 1) \/ v = n
      BY BindingAssumption DEF Versions
    <3>7. QED
      BY <3>3, <3>4, <3>5, <3>6
  <2>3. QED
    BY <2>1, <2>2, ShownVersion
<1>5. ASSUME NEW p \in Requests, Phase(p, "freeze", "bump")'
      PROVE  \A v \in 1..(req'[p].number - 1) : Covered(v)'
  <2>1. CASE req'[p] = req[p]
    BY <1>1, <1>3, <1>5, <2>1 DEF Phase
  <2>2. CASE req'[p] # req[p]
    <3>1. PICK q \in Requests : Receive(q) \/ Serve(q) \/ Crash(q)
      BY <2>2, OutsideFrame, NextSplits DEF vars
    <3>2. p = q
      BY <2>2, <3>1, RequestsStaySound, OneMoves
    <3>3. req'[q] # Idle /\ Head(req'[q].plan) = "freeze" /\ req'[q].step = "bump"
      BY <1>5, <3>2 DEF Phase
    <3>4. ASSUME NEW c, MovesTo(q, c)
          PROVE  req'[q] = c
      BY <3>4, OneMoves
    <3>5. Computes(q)
      <4>1. ~QuietStep(q)
        BY <3>3, <3>4 DEF QuietStep, Quiet, Saving
      <4>2. ~Applies(q)
        BY <3>3, <3>4, AppliedIsSound DEF Fresh
      <4>3. ~Activates(q) /\ (\A a \in Apps : ~Rendering(q, a)) /\ ~ReadsRows(q) /\ ~Bumps(q)
        BY <3>3, <3>4 DEF Activates, Rendering, ReadsRows, Bumps
      <4>4. QED
        BY <3>1, <4>1, <4>2, <4>3, StepOfRequest
    <3>6. table # None /\ req'[q].number = table.version + 1
      BY <3>3, <3>4, <3>5 DEF Computes
    <3>7. table.version \in Nat /\ req'[q].number - 1 = table.version
      BY <1>2, <3>6
    <3>8. QED
      BY <1>1, <1>2, <3>2, <3>6, <3>7
  <2>3. QED
    BY <2>1, <2>2
<1>6. QED
  BY <1>4, <1>5 DEF VersionInv, VersionHasSnapshot, Covered

(* VersionInv holds initially. *)
LEMMA VersionInit == Init => VersionInv
PROOF
  BY DEF Init, VersionInv, VersionHasSnapshot, Phase

-----------------------------------------------------------------------------
(* Staged applications are not lost *)

(* Who sets what is staged: a user, or the end of an activation. *)
LEMMA StagingFrame ==
  ASSUME [Next]_vars
  PROVE  /\ honoured \subseteq honoured'
         /\ \/ UNCHANGED <<staged, asked>>
            \/ \E r \in Rules, m \in Mappings : Stage(r, m)
            \/ \E q \in Requests : Forget(q) /\ UNCHANGED asked
PROOF
<1>1. ASSUME NEW q \in Requests, Receive(q) \/ Serve(q) \/ Crash(q)
      PROVE  honoured \subseteq honoured' /\ UNCHANGED asked /\ (UNCHANGED staged \/ Forget(q))
  BY <1>1, ServeSplits, ThinkingFrame, TableFrame, AppsFrame, RowsFrame, FrozenFrame, RulesFrame DEF tables, history
<1>2. CASE Outside
  <2>1. CASE \E r \in Rules, m \in Mappings : Stage(r, m)
    BY <1>2, <2>1, OutsideFrame
  <2>2. CASE ~\E r \in Rules, m \in Mappings : Stage(r, m)
    BY <1>2, <2>2, OutsideFrame DEF Outside, Retire, DeleteRule, EditApplication, history
  <2>3. QED
    BY <2>1, <2>2
<1>3. QED
  BY <1>1, <1>2, NextSplits DEF vars, tables, history

(* What the entry c of a request keeps, it keeps in the next state. *)
LEMMA KeepsStays ==
  ASSUME NEW c, Keeps(c), asked' = asked, honoured \subseteq honoured'
  PROVE  Keeps(c)'
PROOF
  BY DEF Keeps

(* An activation in progress still accounts for everything that was asked for. *)
LEMMA KeepsStep ==
  ASSUME TypeInv, StagingInv, NEW q \in Requests, Receive(q) \/ Serve(q) \/ Crash(q), asked' = asked, honoured \subseteq honoured'
  PROVE  \A p \in Requests : req'[p] # Idle => Keeps(req[p])'
PROOF
<1>1. \A p \in Requests : req[p] # Idle => Keeps(req[p])
  BY DEF StagingInv
<1>2. ASSUME NEW c, MovesTo(q, c), c # Idle => Keeps(c)'
      PROVE  \A p \in Requests : req'[p] # Idle => Keeps(req[p])'
  <2>1. ASSUME NEW p \in Requests, p # q, req'[p] # Idle
        PROVE  Keeps(req[p])'
    <3>1. PICK b : b = req[p]
      OBVIOUS
    <3>2. req'[p] = b
      BY <1>2, <2>1, <3>1, OneMoves
    <3>3. Keeps(b)'
      BY <1>1, <2>1, <3>1, <3>2, KeepsStays
    <3>4. QED
      BY <3>2, <3>3
  <2>2. req'[q] = c
    BY <1>2, OneMoves
  <2>3. QED
    BY <1>2, <2>1, <2>2
<1>3. ASSUME NEW b, b = req[q], b # Idle
      PROVE  Keeps(b)
  BY <1>1, <1>3
<1>4. ASSUME NEW c, NEW b, b = req[q], b # Idle, c.plan = b.plan, c.body = b.body
      PROVE  Keeps(c)'
  <2>1. Keeps(b)'
    BY <1>3, <1>4, KeepsStays
  <2>2. QED
    BY <1>4, <2>1 DEF Keeps, Forgets
<1>5. CASE QuietStep(q)
  <2>1. PICK c : MovesTo(q, c) /\ Quiet(req[q], c)
    BY <1>5 DEF QuietStep
  <2>2. CASE Forgets(c) /\ c # Idle
    BY <1>2, <1>4, <2>1, <2>2 DEF Quiet
  <2>3. CASE ~Forgets(c)
    BY <1>2, <2>1, <2>3 DEF Keeps
  <2>4. QED
    BY <1>2, <2>1, <2>2, <2>3
<1>6. CASE Applies(q)
  <2>1. PICK b : b = req[q]
    OBVIOUS
  <2>2. b # Idle /\ <<b.body.rule, b.body.mapping>> \in honoured'
    BY <1>6, <2>1 DEF Applies
  <2>3. PICK c : MovesTo(q, c) /\ (c = Idle \/ (c.body = b.body /\ (Forgets(c) => Forgets(b))))
    BY <1>6, <2>1, AppliedIsSound
  <2>4. CASE c # Idle
    <3>1. ASSUME Forgets(c), NEW k \in asked, k[1] = c.body.rule
          PROVE  k \in honoured'
      <4>1. k \in honoured \/ (k[2] = b.body.mapping /\ k[1] = b.body.rule)
        BY <1>3, <2>1, <2>2, <2>3, <2>4, <3>1 DEF Keeps
      <4>2. k = <<k[1], k[2]>>
        BY <3>1 DEF StagingInv
      <4>3. QED
        BY <2>2, <4>1, <4>2
    <3>2. Keeps(c)'
      BY <3>1 DEF Keeps
    <3>3. QED
      BY <1>2, <2>3, <3>2
  <2>5. QED
    BY <1>2, <2>3, <2>4
<1>7. CASE Activates(q)
  <2>1. PICK c \in Busy : /\ MovesTo(q, c) /\ Head(c.plan) = "apply"
                          /\ c.body.rule = req[q].body.rule /\ c.body.mapping = staged[req[q].body.rule]
    BY <1>7 DEF Activates
  <2>2. ASSUME NEW k \in asked, k[1] = c.body.rule
        PROVE  k \in honoured' \/ k[2] = c.body.mapping
    BY <2>1, <2>2 DEF StagingInv, StagedIsNotLost
  <2>3. Keeps(c)'
    BY <2>1, <2>2 DEF Keeps
  <2>4. QED
    BY <1>2, <2>1, <2>3
<1>8. CASE (\E a \in Apps : Rendering(q, a)) \/ ReadsRows(q) \/ Computes(q) \/ Bumps(q)
  <2>1. PICK c \in Busy : MovesTo(q, c) /\ c.plan = req[q].plan /\ c.body = req[q].body
    BY <1>8 DEF Rendering, ReadsRows, Computes, Bumps
  <2>2. req[q] # Idle
    BY <1>8 DEF Rendering, ReadsRows, Computes, Bumps
  <2>3. QED
    BY <1>2, <1>4, <2>1, <2>2
<1>9. QED
  BY <1>5, <1>6, <1>7, <1>8, StepOfRequest

(* StagingInv is inductive. *)
LEMMA StagingStep ==
  ASSUME TypeInv, StagingInv, [Next]_vars
  PROVE  StagingInv'
PROOF
<1>1. /\ asked \subseteq Rules \X Mappings /\ \A k \in asked : staged[k[1]] = k[2] \/ k \in honoured
      /\ \A p \in Requests : req[p] # Idle => Keeps(req[p])
  BY DEF StagingInv, StagedIsNotLost
<1>2. honoured \subseteq honoured' /\ staged \in [Rules -> Mappings \cup {None}]
  BY StagingFrame DEF TypeInv, TypeOK
<1>3. ASSUME UNCHANGED asked
      PROVE  \A p \in Requests : req'[p] # Idle => Keeps(req[p])'
  <2>1. CASE UNCHANGED req
    <3>1. ASSUME NEW p \in Requests, req'[p] # Idle
          PROVE  Keeps(req[p])'
      <4>1. PICK b : b = req[p]
        OBVIOUS
      <4>2. Keeps(b)'
        BY <1>1, <1>2, <1>3, <2>1, <3>1, <4>1, KeepsStays
      <4>3. QED
        BY <2>1, <4>1, <4>2
    <3>2. QED
      BY <3>1
  <2>2. ASSUME NEW q \in Requests, Receive(q) \/ Serve(q) \/ Crash(q)
        PROVE  \A p \in Requests : req'[p] # Idle => Keeps(req[p])'
    BY <1>2, <1>3, <2>2, KeepsStep
  <2>3. QED
    BY <2>1, <2>2, NextSplits, OutsideFrame DEF vars
<1>4. CASE UNCHANGED <<staged, asked>>
  BY <1>1, <1>2, <1>3, <1>4 DEF StagingInv, StagedIsNotLost
<1>5. ASSUME NEW q \in Requests, Forget(q), UNCHANGED asked
      PROVE  StagingInv'
  <2> DEFINE b == req[q]
             r == b.body.rule
  <2>1. b # Idle /\ Head(b.plan) = "forget" /\ staged' = [staged EXCEPT ![r] = None]
    BY <1>5 DEF Forget, Phase
  <2>2. b.plan[1] = "forget" /\ 1 \in 1..Len(b.plan)
    BY <2>1, SoundRequest
  <2>3. \A k \in asked : k[1] = r => k \in honoured
    BY <1>1, <2>1, <2>2 DEF Keeps, Forgets
  <2>4. \A k \in asked : k[1] # r => staged'[k[1]] = staged[k[1]]
    BY <1>1, <1>2, <2>1
  <2>5. StagedIsNotLost'
    BY <1>1, <1>2, <1>5, <2>3, <2>4 DEF StagedIsNotLost
  <2>6. QED
    BY <1>1, <1>3, <1>5, <2>5 DEF StagingInv
<1>6. ASSUME NEW r \in Rules, NEW m \in Mappings, Stage(r, m)
      PROVE  StagingInv'
  <2>1. /\ staged' = [staged EXCEPT ![r] = m] /\ req' = req /\ honoured' = honoured
        /\ asked' = {k \in asked : k[1] # r} \cup (IF Activating(r) THEN {} ELSE {<<r, m>>})
    BY <1>6 DEF Stage
  <2>2. asked' \subseteq Rules \X Mappings
    BY <1>1, <2>1
  <2>3. \A k \in asked' : staged'[k[1]] = k[2] \/ k \in honoured'
    BY <1>1, <1>2, <2>1
  <2>4. ASSUME NEW p \in Requests, req[p] # Idle, Forgets(req[p]), NEW k \in asked', k[1] = req[p].body.rule
        PROVE  k \in honoured \/ (Head(req[p].plan) = "apply" /\ k[2] = req[p].body.mapping)
    <3>1. CASE k \in asked
      BY <1>1, <2>4, <3>1 DEF Keeps
    <3>2. CASE k \notin asked
      <4>1. ~Activating(r) /\ k = <<r, m>>
        BY <2>1, <3>2
      <4>2. req[p].body.rule = r
        BY <2>4, <4>1
      <4>3. QED
        BY <2>4, <4>1, <4>2 DEF Activating, Forgets
    <3>3. QED
      BY <3>1, <3>2
  <2>5. ASSUME NEW p \in Requests, req'[p] # Idle
        PROVE  Keeps(req[p])'
    BY <2>1, <2>4, <2>5 DEF Keeps, Forgets
  <2>6. QED
    BY <2>2, <2>3, <2>5 DEF StagingInv, StagedIsNotLost
<1>7. QED
  BY <1>4, <1>5, <1>6, StagingFrame

(* StagingInv holds initially. *)
LEMMA StagingInit == Init => StagingInv
PROOF
  BY DEF Init, StagingInv, StagedIsNotLost

-----------------------------------------------------------------------------
(* Checks are kept *)

(* A row of checks goes only for the reasons ChecksAreKept names. *)
LEMMA ChecksKept ==
  ASSUME TypeInv, [Next]_vars, NEW k \in Keys, rows[k] # None, rows'[k] = None
  PROVE  \E q \in Requests : req[q] # Idle /\ (\/ Head(req[q].plan) = "unapply" /\ req[q].app = k[1]
                                               \/ Phase(q, "mat", "write") /\ req[q].app = k[1] /\ Rendered(q) # {} /\ k[2] \notin Rendered(q)
                                               \/ Phase(q, "mat", "render") /\ req[q].copy[k[1]] = None)
PROOF
<1>1. PICK q \in Requests : SetsRows(q)
  <2>1. rows' # rows
    OBVIOUS
  <2>2. PICK q \in Requests : Receive(q) \/ Serve(q) \/ Crash(q)
    BY <2>1, OutsideFrame, NextSplits DEF vars, tables
  <2>3. SetsRows(q)
    BY <2>1, <2>2, ServeSplits, ThinkingFrame, TableFrame, AppsFrame, FrozenFrame, RulesFrame DEF tables
  <2>4. QED
    BY <2>3
<1>2. CASE RemoveChecks(q)
  BY <1>2 DEF RemoveChecks, Phase
<1>3. CASE CleanupOrphans(q)
  BY <1>3 DEF CleanupOrphans, Phase
<1>4. ~SetRow(q)
  <2> DEFINE j == req[q].key
             to == Transition(q).to
  <2>1. ASSUME SetRow(q)
        PROVE  FALSE
    <3>1. rows' = IF Unmoved(j, req[q].number) THEN [rows EXCEPT ![j].status = to] ELSE rows
      BY <2>1 DEF SetRow
    <3>2. to \in RowStatuses
      BY <2>1 DEF SetRow, InTransition, Transition, Moves, RowStatuses
    <3> HIDE DEF j, to
    <3>3. rows'[k] \in {rows[k], [rows[k] EXCEPT !.status = to]}
      BY <3>1 DEF TypeInv, TypeOK
    <3>4. rows[k] \in Checks
      BY DEF TypeInv, TypeOK
    <3>5. [rows[k] EXCEPT !.status = to] \in Checks
      BY <3>2, <3>4 DEF Checks
    <3>6. QED
      BY <3>3, <3>4, <3>5, NoneAssumption
  <2>2. QED
    BY <2>1
<1>5. CASE MaterializeWrite(q)
  <2>1. req[q] # Idle /\ Phase(q, "mat", "write")
    BY <1>5 DEF MaterializeWrite, Phase
  <2>2. req[q].check \in Contained /\ req[q].seen \in [Groups -> Checks \cup {None}] /\ Rendered(q) # {}
    BY <2>1, SoundRequest DEF Phase, HasRead, Writing, Busy, Rendered
  <2>3. k[2] \in Groups /\ k = <<k[1], k[2]>>
    BY DEF Keys
  <2>4. Written(q)
    BY <1>5, WriteIsWritten
  <2>5. k[1] = req[q].app /\ NewRow(q, k[2]) = None
    BY <2>4 DEF Written
  <2>6. \/ k[2] \notin Rendered(q)
        \/ \E status \in RowStatuses : NewRow(q, k[2]) = Stamp(req[q].check, status)
    <3>1. req[q].seen[k[2]] # None =>
            DecideStatus(req[q].seen[k[2]], req[q].check, req[q].copy[req[q].app].pin # 0) \in RowStatuses
      <4>1. req[q].seen[k[2]] # None => req[q].seen[k[2]].status \in RowStatuses
        BY <2>2, <2>3 DEF Checks
      <4>2. QED
        BY <4>1 DEF DecideStatus, RowStatuses
    <3>2. rows[<<req[q].app, k[2]>>] # None /\ "draft" \in RowStatuses
      BY <2>3, <2>5 DEF RowStatuses
    <3>3. QED
      BY <3>1, <3>2 DEF NewRow
  <2>7. \A status \in RowStatuses : Stamp(req[q].check, status) \in Checks
    BY <2>2 DEF Stamp, Contained, Checks
  <2>8. QED
    BY <2>1, <2>2, <2>5, <2>6, <2>7, NoneAssumption
<1>6. QED
  BY <1>1, <1>2, <1>3, <1>4, <1>5 DEF SetsRows

(* A staged application stays staged until it was applied, and the check of  *)
(* a live application disappears only with a removal, a rendering for other  *)
(* groups, or the sweep of a materialization that began before the           *)
(* application was made.                                                     *)
THEOREM NothingGetsLost == Spec => NothingIsLost
PROOF
<1>1. Init => TypeInv /\ StagingInv
  BY TypeInit, StagingInit
<1>2. TypeInv /\ StagingInv /\ [Next]_vars => (TypeInv /\ StagingInv)'
  BY TypeStep, StagingStep
<1>3. TypeInv /\ [Next]_vars =>
        [\A k \in Keys : rows[k] # None /\ rows'[k] = None /\ k[1] \in Live =>
           \E q \in Requests : req[q] # Idle /\ (\/ Head(req[q].plan) = "unapply" /\ req[q].app = k[1]
                                                 \/ Phase(q, "mat", "write") /\ req[q].app = k[1] /\ Rendered(q) # {} /\ k[2] \notin Rendered(q)
                                                 \/ Phase(q, "mat", "render") /\ req[q].copy[k[1]] = None)]_vars
  BY ChecksKept
<1>4. StagingInv => StagedIsNotLost
  BY DEF StagingInv
<1>5. Spec => []StagedIsNotLost /\ ChecksAreKept
  BY <1>1, <1>2, <1>3, <1>4, PTL DEF Spec, ChecksAreKept
<1>6. QED
  BY <1>5 DEF NothingIsLost

-----------------------------------------------------------------------------
(* Checks come from the store *)

(* An application keeps its rule, a new one has a new id. *)
LEMMA RulesOfApplications ==
  ASSUME TypeInv, [Next]_vars
  PROVE  /\ minted \subseteq minted'
         /\ \A a \in Apps : apps'[a] # None =>
              (apps[a] # None /\ apps'[a].rule = apps[a].rule) \/ (a \notin minted /\ a \in minted')
PROOF
<1>1. apps \in [Apps -> Applications \cup {None}]
  BY DEF TypeInv, TypeOK
<1>2. CASE UNCHANGED <<apps, minted>>
  BY <1>2
<1>3. ASSUME NEW q \in Requests, SetsApps(q)
      PROVE  /\ minted \subseteq minted'
             /\ \A a \in Apps : apps'[a] # None =>
                  (apps[a] # None /\ apps'[a].rule = apps[a].rule) \/ (a \notin minted /\ a \in minted')
  <2>1. CASE ApplyUpdate(q)
    <3>1. minted' = minted /\ apps' = [a \in Apps |-> IF a \in req[q].todo \cap Live
                             THEN [apps[a] EXCEPT !.pin = req[q].body.pin, !.edit = req[q].body.edit]
                             ELSE apps[a]]
      BY <2>1 DEF ApplyUpdate
    <3>2. ASSUME NEW a \in Apps, a \in Live
          PROVE  [apps[a] EXCEPT !.pin = req[q].body.pin, !.edit = req[q].body.edit].rule = apps[a].rule
      BY <1>1, <3>2 DEF Live, Applications
    <3>3. QED
      BY <3>1, <3>2 DEF Live
  <2>2. ASSUME NEW a \in Apps, NEW pin \in 0..MaxVersion, ApplyInsert(q, a, pin)
        PROVE  /\ minted \subseteq minted'
               /\ \A x \in Apps : apps'[x] # None =>
                    (apps[x] # None /\ apps'[x].rule = apps[x].rule) \/ (x \notin minted /\ x \in minted')
    <3>1. CASE UNCHANGED <<apps, minted>>
      BY <3>1
    <3>2. CASE ~UNCHANGED <<apps, minted>>
      <4>1. a \notin minted /\ minted' = minted \cup {a} /\ \A x \in Apps : x # a => apps'[x] = apps[x]
        BY <1>1, <2>2, <3>2 DEF ApplyInsert
      <4>2. QED
        BY <4>1
    <3>3. QED
      BY <3>1, <3>2
  <2>3. CASE RemoveApplication(q) \/ DropApplications(q)
    BY <1>1, <2>3 DEF RemoveApplication, DropApplications, history
  <2>4. QED
    BY <1>3, <2>1, <2>2, <2>3 DEF SetsApps, MakesApplication
<1>4. ASSUME NEW q \in Requests, Receive(q) \/ Serve(q) \/ Crash(q)
      PROVE  UNCHANGED <<apps, minted>> \/ SetsApps(q)
  BY <1>4, ServeSplits, ThinkingFrame, TableFrame, RowsFrame, FrozenFrame, RulesFrame DEF tables, history
<1>5. ASSUME NEW a \in Apps, NEW pin \in 0..MaxVersion, NEW edit \in Edits, EditApplication(a, pin, edit)
      PROVE  minted' = minted /\ \A x \in Apps : apps'[x] # None => apps[x] # None /\ apps'[x].rule = apps[x].rule
  <2>1. apps[a] \in Applications /\ apps' = [apps EXCEPT ![a] = [apps[a] EXCEPT !.pin = pin, !.edit = edit]]
    BY <1>1, <1>5 DEF EditApplication
  <2>2. [apps[a] EXCEPT !.pin = pin, !.edit = edit].rule = apps[a].rule
    BY <2>1 DEF Applications
  <2>3. apps[a] # None /\ minted' = minted
    BY <1>5 DEF EditApplication, history
  <2>4. QED
    BY <1>1, <2>1, <2>2, <2>3
<1>6. CASE \E r \in Rules : Retire(r) \/ DeleteRule(r) \/ \E m \in Mappings : Stage(r, m)
  BY <1>2, <1>6 DEF Retire, DeleteRule, Stage, history
<1>7. QED
  BY <1>2, <1>3, <1>4, <1>5, <1>6, NextSplits DEF Outside, vars, tables, history

(* A request copies the applications or drops its copy. *)
LEMMA CopiesOfRequest ==
  ASSUME TypeInv, NEW q \in Requests, Receive(q) \/ Serve(q) \/ Crash(q)
  PROVE  \E c : MovesTo(q, c) /\ (c = Idle \/ c.copy \in CopiesOf(req[q]))
PROOF
<1>1. CASE QuietStep(q)
  BY <1>1 DEF QuietStep, Quiet
<1>2. CASE Applies(q)
  BY <1>2, AppliedIsSound DEF Fresh, CopiesOf
<1>3. CASE Activates(q) \/ (\E a \in Apps : Rendering(q, a)) \/ ReadsRows(q) \/ Computes(q) \/ Bumps(q)
  BY <1>3 DEF Activates, Rendering, ReadsRows, Computes, Bumps, CopiesOf
<1>4. QED
  BY <1>1, <1>2, <1>3, StepOfRequest

(* A rule names an application that it named before, or a new one. *)
LEMMA NamesStep ==
  ASSUME TypeInv, [Next]_vars, NEW a \in Apps, NEW r \in Rules, Named(a, r)'
  PROVE  Named(a, r) \/ (a \notin minted /\ a \in minted' /\ apps'[a] # None /\ apps'[a].rule = r)
PROOF
<1>1. CASE apps'[a] # None /\ apps'[a].rule = r
  BY <1>1, RulesOfApplications DEF Named
<1>2. ASSUME NEW p \in Requests, req'[p] # Idle, req'[p].copy[a] # None, req'[p].copy[a].rule = r
      PROVE  Named(a, r)
  <2>1. CASE req'[p] = req[p]
    BY <1>2, <2>1 DEF Named
  <2>2. CASE req'[p] # req[p]
    <3>1. PICK q \in Requests : Receive(q) \/ Serve(q) \/ Crash(q)
      BY <2>2, OutsideFrame, NextSplits DEF vars
    <3>2. PICK c : MovesTo(q, c) /\ (c = Idle \/ c.copy \in CopiesOf(req[q]))
      BY <3>1, CopiesOfRequest
    <3>3. p = q /\ req'[q] = c
      BY <2>2, <3>2, OneMoves
    <3>4. c.copy \in CopiesOf(req[q])
      BY <1>2, <3>2, <3>3
    <3>5. CASE c.copy = NoCopy
      BY <1>2, <3>3, <3>5 DEF NoCopy
    <3>6. CASE c.copy = apps
      BY <1>2, <3>3, <3>6 DEF Named
    <3>7. CASE req[q] # Idle /\ c.copy = req[q].copy
      BY <1>2, <3>3, <3>7 DEF Named
    <3>8. QED
      BY <3>4, <3>5, <3>6, <3>7 DEF CopiesOf
  <2>3. QED
    BY <2>1, <2>2
<1>3. QED
  BY <1>1, <1>2 DEF Named

(* An application keeps its rule, also in the copies of requests. *)
LEMMA NamingStep ==
  ASSUME TypeInv, RulesAreFixed, NamedAreMinted, [Next]_vars
  PROVE  RulesAreFixed' /\ NamedAreMinted'
PROOF
<1>1. minted \subseteq minted'
  BY RulesOfApplications
<1>2. ASSUME NEW a \in Apps, NEW r \in Rules, Named(a, r)'
      PROVE  a \in minted'
  BY <1>1, <1>2, NamesStep DEF NamedAreMinted
<1>3. ASSUME NEW a \in Apps, NEW r \in Rules, NEW s \in Rules, Named(a, r)', Named(a, s)'
      PROVE  r = s
  BY <1>3, NamesStep DEF NamedAreMinted, RulesAreFixed
<1>4. QED
  BY <1>2, <1>3 DEF RulesAreFixed, NamedAreMinted

(* A stored snapshot never changes. *)
LEMMA SnapshotsStay ==
  ASSUME TypeInv, StoredOnce, [Next]_vars
  PROVE  StoredOnce' /\ \A r \in Rules, v \in Versions : snap[r][v] # {} => snap'[r][v] = snap[r][v]
PROOF
<1>1. snap \in [Rules -> [Versions -> SUBSET Contents]]
  BY DEF TypeInv, StoreOK
<1>2. CASE UNCHANGED snap
  BY <1>2 DEF StoredOnce
<1>3. ASSUME NEW q \in Requests, PublishSnapshot(q)
      PROVE  StoredOnce' /\ \A r \in Rules, v \in Versions : snap[r][v] # {} => snap'[r][v] = snap[r][v]
  <2>1. PICK s, n, c : snap[s][n] = {} /\ snap' = [snap EXCEPT ![s][n] = {c}]
    BY <1>3 DEF PublishSnapshot, Store!Publish
  <2>2. \A r \in Rules, v \in Versions : snap'[r][v] = snap[r][v] \/ (r = s /\ v = n /\ snap'[r][v] = {c})
    BY <1>1, <2>1
  <2>3. QED
    BY <2>1, <2>2 DEF StoredOnce
<1>4. ASSUME NEW q \in Requests, Receive(q) \/ Serve(q) \/ Crash(q)
      PROVE  UNCHANGED snap \/ PublishSnapshot(q)
  BY <1>4, ServeSplits, ThinkingFrame, TableFrame, AppsFrame, RowsFrame, FrozenFrame, RulesFrame DEF store
<1>5. QED
  BY <1>2, <1>3, <1>4, OutsideFrame, NextSplits DEF vars, store

(* A check keeps its version and content until a materialization writes it. *)
Writes(q, k) ==
  /\ req[q] # Idle /\ Writing(req[q]) /\ req[q].app = k[1]
  /\ rows'[k].version = req[q].check.version /\ rows'[k].content = req[q].check.content

(* A row keeps version and content unless a request writes it. *)
LEMMA RowsStep ==
  ASSUME TypeInv, [Next]_vars, NEW k \in Keys, rows'[k] # None
  PROVE  \/ rows[k] # None /\ rows'[k].version = rows[k].version /\ rows'[k].content = rows[k].content
         \/ \E q \in Requests : Writes(q, k)
PROOF
<1>1. CASE rows'[k] = rows[k]
  BY <1>1
<1>2. CASE rows'[k] # rows[k]
  <2>1. PICK q \in Requests : SetsRows(q)
    <3>1. PICK q \in Requests : Receive(q) \/ Serve(q) \/ Crash(q)
      BY <1>2, OutsideFrame, NextSplits DEF vars, tables
    <3>2. SetsRows(q)
      BY <1>2, <3>1, ServeSplits, ThinkingFrame, TableFrame, AppsFrame, FrozenFrame, RulesFrame DEF tables
    <3>3. QED
      BY <3>2
  <2>2. ~RemoveChecks(q) /\ ~CleanupOrphans(q)
    BY <1>2 DEF RemoveChecks, CleanupOrphans
  <2>3. CASE SetRow(q)
    <3> DEFINE j == req[q].key
               to == Transition(q).to
    <3>1. rows' = IF Unmoved(j, req[q].number) THEN [rows EXCEPT ![j].status = to] ELSE rows
      BY <2>3 DEF SetRow
    <3> HIDE DEF j, to
    <3>2. j = k /\ rows[k] # None /\ rows'[k] = [rows[k] EXCEPT !.status = to]
      BY <1>2, <3>1 DEF Unmoved, TypeInv, TypeOK
    <3>3. rows[k] \in Checks
      BY <3>2 DEF TypeInv, TypeOK
    <3>4. QED
      BY <3>2, <3>3 DEF Checks
  <2>4. CASE MaterializeWrite(q)
    <3>1. req[q] # Idle /\ Writing(req[q])
      BY <2>4 DEF MaterializeWrite, Phase, Writing
    <3>2. Written(q)
      BY <1>2, <2>4, WriteIsWritten
    <3>3. k[1] = req[q].app /\ rows'[k] = NewRow(q, k[2])
      BY <1>2, <3>2 DEF Written
    <3>4. \E status : rows'[k] = Stamp(req[q].check, status)
      BY <3>3 DEF NewRow
    <3>5. Writes(q, k)
      BY <3>1, <3>3, <3>4 DEF Stamp, Writes
    <3>6. QED
      BY <3>5
  <2>5. QED
    BY <2>1, <2>2, <2>3, <2>4 DEF SetsRows
<1>3. QED
  BY <1>1, <1>2

(* A materialization writes for an application it has a copy of. *)
LEMMA WriterIsNamed ==
  ASSUME TypeInv, ContentInv, NEW q \in Requests, req[q] # Idle, Writing(req[q])
  PROVE  LET b == req[q] IN
         /\ b.app \in Apps /\ b.copy[b.app].rule \in Rules /\ Named(b.app, b.copy[b.app].rule)
         /\ snap[b.copy[b.app].rule][b.check.version] = {b.check.content}
PROOF
<1> DEFINE b == req[q]
<1>1. b \in Busy /\ b.copy[b.app] # None
  BY SoundRequest DEF HasRead
<1>2. b.app \in Apps /\ b.copy[b.app] \in Applications
  BY <1>1 DEF Busy
<1>3. CheckIsStored(b)
  BY DEF ContentInv
<1>4. QED
  BY <1>1, <1>2, <1>3 DEF Named, CheckIsStored, Applications

(* Rows hold only what the store of rules held. *)
LEMMA RowsStoredStep ==
  ASSUME TypeInv, ContentInv, [Next]_vars
  PROVE  RowsAreMinted' /\ RowsAreStored'
PROOF
<1>1. /\ RowsAreMinted /\ RowsAreStored /\ RulesAreFixed /\ NamedAreMinted
      /\ minted \subseteq minted' /\ \A k \in Keys : k[1] \in Apps
  BY RulesOfApplications DEF ContentInv, Keys
<1>2. \A r \in Rules, v \in Versions : snap[r][v] # {} => snap'[r][v] = snap[r][v]
  BY SnapshotsStay DEF ContentInv
<1>3. ASSUME NEW k \in Keys, rows'[k] # None
      PROVE  k[1] \in minted
  <2>1. CASE rows[k] # None
    BY <1>1, <2>1 DEF RowsAreMinted
  <2>2. ASSUME NEW q \in Requests, Writes(q, k)
        PROVE  k[1] \in minted
    BY <1>1, <2>2, WriterIsNamed DEF Writes, NamedAreMinted
  <2>3. QED
    BY <1>3, <2>1, <2>2, RowsStep
<1>4. ASSUME NEW k \in Keys, NEW r \in Rules, Named(k[1], r)', rows'[k] # None
      PROVE  snap'[r][rows'[k].version] = {rows'[k].content}
  <2>1. Named(k[1], r)
    BY <1>1, <1>3, <1>4, NamesStep
  <2>2. CASE rows[k] # None /\ rows'[k].version = rows[k].version /\ rows'[k].content = rows[k].content
    <3>1. snap[r][rows[k].version] = {rows[k].content}
      BY <1>1, <2>1, <2>2 DEF RowsAreStored
    <3>2. rows[k].version \in Versions
      BY <2>2 DEF TypeInv, TypeOK, Checks
    <3>3. QED
      BY <1>2, <2>2, <3>1, <3>2
  <2>3. ASSUME NEW q \in Requests, Writes(q, k)
        PROVE  snap'[r][rows'[k].version] = {rows'[k].content}
    <3>1. r = req[q].copy[req[q].app].rule /\ snap[r][req[q].check.version] = {req[q].check.content}
      BY <1>1, <2>1, <2>3, WriterIsNamed DEF Writes, RulesAreFixed
    <3>2. req[q].check.version \in Versions
      BY <2>3, SoundRequest DEF Writes, HasRead, Contained
    <3>3. QED
      BY <1>2, <2>3, <3>1, <3>2 DEF Writes
  <2>4. QED
    BY <1>4, <2>2, <2>3, RowsStep
<1>5. QED
  BY <1>1, <1>3, <1>4 DEF RowsAreMinted, RowsAreStored

(* Versions hold only what the store of rules held. *)
LEMMA VersionsStoredStep ==
  ASSUME TypeInv, ContentInv, [Next]_vars
  PROVE  VersionsAreStored'
PROOF
<1>1. \A r \in Rules, v \in Versions : snap[r][v] # {} => snap'[r][v] # {}
  BY SnapshotsStay DEF ContentInv
<1>2. ASSUME NEW ref \in Refs, snap[ref.rule][ref.version] # {}
      PROVE  snap'[ref.rule][ref.version] # {}
  BY <1>1, <1>2 DEF Refs
<1>3. ASSUME NEW v \in Versions, NEW a \in Apps, frozen[v] # None, frozen[v][a] # None
      PROVE  snap'[frozen[v][a].rule][frozen[v][a].version] # {}
  <2>1. frozen[v][a] \in Refs
    BY <1>3 DEF TypeInv, TypeOK
  <2>2. QED
    BY <1>2, <1>3, <2>1 DEF ContentInv, VersionsAreStored
<1>4. CASE UNCHANGED frozen
  BY <1>3, <1>4 DEF VersionsAreStored
<1>5. ASSUME NEW q \in Requests, SetsFrozen(q)
      PROVE  VersionsAreStored'
  <2>1. req[q] # Idle /\ Saving(req[q])
    BY <1>5 DEF SetsFrozen, FreezeInsert, RefreezeUpdate, Phase, Saving
  <2>2. req[q].refs \in RefSets /\ RefsAreStored(req[q])
    BY <2>1, SoundRequest DEF HasRead, Busy, ContentInv
  <2>3. ASSUME NEW a \in Apps, req[q].refs[a] # None
        PROVE  snap'[req[q].refs[a].rule][req[q].refs[a].version] # {}
    <3>1. req[q].refs[a] \in Refs
      BY <2>2, <2>3 DEF RefSets
    <3>2. QED
      BY <1>2, <2>1, <2>2, <2>3, <3>1 DEF RefsAreStored
  <2>4. \A v \in Versions : frozen'[v] \in {None, frozen[v], req[q].refs}
    BY <1>5 DEF SetsFrozen, FreezeInsert, InsertFrozen, RefreezeUpdate, TypeInv, TypeOK
  <2>5. QED
    BY <1>3, <2>3, <2>4 DEF VersionsAreStored
<1>6. ASSUME NEW q \in Requests, Receive(q) \/ Serve(q) \/ Crash(q)
      PROVE  UNCHANGED frozen \/ SetsFrozen(q)
  BY <1>6, ServeSplits, ThinkingFrame, TableFrame, AppsFrame, RowsFrame, RulesFrame DEF tables
<1>7. QED
  BY <1>4, <1>5, <1>6, OutsideFrame, NextSplits DEF vars, tables

(* What an entry has in hand stays stored. *)
LEMMA InHandStays ==
  ASSUME TypeInv, ContentInv, [Next]_vars, NEW b, Sound(b), CheckIsStored(b), RefsAreStored(b)
  PROVE  CheckIsStored(b)' /\ RefsAreStored(b)'
PROOF
<1>1. \A r \in Rules, v \in Versions : snap[r][v] # {} => snap'[r][v] = snap[r][v]
  BY SnapshotsStay DEF ContentInv
<1>2. ASSUME Writing(b)
      PROVE  snap'[b.copy[b.app].rule][b.check.version] = {b.check.content}
  <2>1. b.copy[b.app].rule \in Rules /\ b.check.version \in Versions
    <3>1. b.app \in Apps /\ b.copy \in [Apps -> Applications \cup {None}]
      BY DEF Sound, Busy
    <3>2. b.copy[b.app] # None /\ b.check \in Contained
      BY <1>2 DEF Sound, HasRead
    <3>3. QED
      BY <3>1, <3>2 DEF Applications, Contained
  <2>2. QED
    BY <1>1, <1>2, <2>1 DEF CheckIsStored
<1>3. ASSUME Saving(b), NEW a \in Apps, b.refs[a] # None
      PROVE  snap'[b.refs[a].rule][b.refs[a].version] # {}
  <2>1. b.refs[a] \in Refs
    <3>1. b.refs \in RefSets
      BY <1>3 DEF Sound, HasRead, Busy
    <3>2. QED
      BY <1>3, <3>1 DEF RefSets
  <2>2. QED
    BY <1>1, <1>3, <2>1 DEF RefsAreStored, Refs
<1>4. QED
  BY <1>2, <1>3 DEF CheckIsStored, RefsAreStored

(* What a request has in hand was taken from the store. *)
LEMMA InHandStep ==
  ASSUME TypeInv, ContentInv, [Next]_vars
  PROVE  \A p \in Requests : req'[p] # Idle => CheckIsStored(req[p])' /\ RefsAreStored(req[p])'
PROOF
<1>1. \A p \in Requests : req[p] # Idle => Sound(req[p]) /\ CheckIsStored(req[p]) /\ RefsAreStored(req[p])
  BY SoundRequest DEF ContentInv
<1>2. ASSUME NEW p \in Requests, req'[p] = req[p], req'[p] # Idle
      PROVE  CheckIsStored(req[p])' /\ RefsAreStored(req[p])'
  <2>1. PICK b : b = req[p]
    OBVIOUS
  <2>2. CheckIsStored(b)' /\ RefsAreStored(b)'
    BY <1>1, <1>2, <2>1, InHandStays
  <2>3. QED
    BY <1>2, <2>1, <2>2
<1>3. ASSUME NEW q \in Requests, Receive(q) \/ Serve(q) \/ Crash(q)
      PROVE  \E c : MovesTo(q, c) /\ (c = Idle \/ (CheckIsStored(c)' /\ RefsAreStored(c)'))
  <2>1. ASSUME NEW c, ~Writing(c), ~Saving(c)
        PROVE  CheckIsStored(c)' /\ RefsAreStored(c)'
    BY <2>1 DEF CheckIsStored, RefsAreStored
  <2>2. CASE QuietStep(q)
    BY <2>1, <2>2 DEF QuietStep, Quiet
  <2>3. CASE Applies(q)
    <3>1. PICK c : MovesTo(q, c) /\ (c = Idle \/ Fresh(c))
      BY <2>3, AppliedIsSound
    <3>2. Fresh(c) => ~Writing(c) /\ ~Saving(c)
      BY DEF Fresh, Writing, Saving
    <3>3. QED
      BY <2>1, <3>1, <3>2
  <2>4. CASE Activates(q)
    <3>1. PICK c : MovesTo(q, c) /\ c.step = "list"
      BY <2>4 DEF Activates
    <3>2. ~Writing(c) /\ ~Saving(c)
      BY <3>1 DEF Writing, Saving
    <3>3. QED
      BY <2>1, <3>1, <3>2
  <2>5. ASSUME NEW a \in Apps, Rendering(q, a)
        PROVE  \E c : MovesTo(q, c) /\ (c = Idle \/ (CheckIsStored(c)' /\ RefsAreStored(c)'))
    <3>1. PICK c \in Busy : /\ MovesTo(q, c) /\ Sound(c) /\ c.step = "read" /\ c.app = a
                            /\ c.copy = req[q].copy /\ c.check = Render(req[q].copy[a])
      BY <2>5 DEF Rendering
    <3>2. PICK app \in Applications : app = req[q].copy[a] /\ Resolvable(app)
      BY <2>5 DEF Rendering, Renders
    <3>3. c.check \in Contained /\ c.check.content \in snap[app.rule][c.check.version]
      BY <3>1, <3>2, RenderIsContained
    <3>4. app.rule \in Rules /\ c.check.version \in Versions /\ c.check.content \in Contents
      BY <3>3 DEF Applications, Contained
    <3>5. snap[app.rule][c.check.version] \subseteq Contents
      BY <3>4 DEF TypeInv, StoreOK
    <3>6. snap[app.rule][c.check.version] = {c.check.content}
      BY <3>3, <3>4, <3>5 DEF ContentInv, StoredOnce
    <3>7. CheckIsStored(c) /\ RefsAreStored(c)
      BY <3>1, <3>2, <3>6 DEF CheckIsStored, RefsAreStored, Saving
    <3>8. QED
      BY <3>1, <3>7, InHandStays
  <2>6. CASE ReadsRows(q)
    <3>1. PICK c \in Busy : /\ MovesTo(q, c) /\ Sound(c) /\ c.step = "write" /\ c.app = req[q].app
                            /\ c.copy = req[q].copy /\ c.check = req[q].check
      BY <2>6 DEF ReadsRows
    <3>2. req[q] # Idle /\ Writing(req[q])
      BY <2>6 DEF ReadsRows, Writing
    <3>3. CheckIsStored(c) /\ RefsAreStored(c)
      BY <1>1, <3>1, <3>2 DEF CheckIsStored, RefsAreStored, Saving
    <3>4. QED
      BY <3>1, <3>3, InHandStays
  <2>7. CASE Computes(q)
    <3>1. PICK c \in Busy : /\ MovesTo(q, c) /\ Sound(c) /\ c.step \in {"bump", "update"}
                            /\ c.refs = ApprovedRefs(req[q].copy)
      BY <2>7 DEF Computes
    <3>2. req[q] # Idle /\ req[q].copy \in [Apps -> Applications \cup {None}]
      BY <2>7, SoundRequest DEF Computes, Busy
    <3>3. ASSUME NEW a \in Apps, c.refs[a] # None
          PROVE  snap[c.refs[a].rule][c.refs[a].version] # {}
      <4>1. /\ req[q].copy[a] # None /\ c.refs[a].rule = req[q].copy[a].rule
            /\ ApprovedRow(a, c.refs[a].version)
        BY <3>1, <3>2, <3>3, ApprovedRefsAreApproved
      <4>2. PICK r \in Rules : r = req[q].copy[a].rule
        BY <3>2, <4>1 DEF Applications
      <4>3. Named(a, r)
        BY <3>2, <4>1, <4>2 DEF Named
      <4>4. PICK k \in Keys : k[1] = a /\ rows[k] # None /\ rows[k].version = c.refs[a].version
        BY <4>1 DEF ApprovedRow
      <4>5. snap[r][rows[k].version] = {rows[k].content}
        BY <4>3, <4>4 DEF ContentInv, RowsAreStored
      <4>6. QED
        BY <4>1, <4>2, <4>4, <4>5
    <3>4. CheckIsStored(c) /\ RefsAreStored(c)
      BY <3>1, <3>3 DEF CheckIsStored, RefsAreStored, Writing
    <3>5. QED
      BY <3>1, <3>4, InHandStays
  <2>8. CASE Bumps(q)
    <3>1. PICK c \in Busy : MovesTo(q, c) /\ Sound(c) /\ c.step = "insert" /\ c.refs = req[q].refs
      BY <2>8 DEF Bumps
    <3>2. req[q] # Idle /\ Saving(req[q])
      BY <2>8 DEF Bumps, Saving
    <3>3. CheckIsStored(c) /\ RefsAreStored(c)
      BY <1>1, <3>1, <3>2 DEF CheckIsStored, RefsAreStored, Writing
    <3>4. QED
      BY <3>1, <3>3, InHandStays
  <2>9. QED
    BY <1>3, <2>2, <2>3, <2>4, <2>5, <2>6, <2>7, <2>8, StepOfRequest
<1>4. ASSUME NEW p \in Requests, req'[p] # req[p], req'[p] # Idle
      PROVE  CheckIsStored(req[p])' /\ RefsAreStored(req[p])'
  <2>1. PICK q \in Requests : Receive(q) \/ Serve(q) \/ Crash(q)
    BY <1>4, OutsideFrame, NextSplits DEF vars
  <2>2. PICK c : MovesTo(q, c) /\ (c = Idle \/ (CheckIsStored(c)' /\ RefsAreStored(c)'))
    BY <1>3, <2>1
  <2>3. p = q /\ req'[p] = c
    BY <1>4, <2>2, OneMoves
  <2>4. QED
    BY <1>4, <2>2, <2>3
<1>5. QED
  BY <1>2, <1>4

(* ContentInv is inductive. *)
LEMMA ContentStep ==
  ASSUME TypeInv, ContentInv, [Next]_vars
  PROVE  ContentInv'
PROOF
<1>1. StoredOnce' /\ RulesAreFixed' /\ NamedAreMinted'
  BY SnapshotsStay, NamingStep DEF ContentInv
<1>2. RowsAreMinted' /\ RowsAreStored' /\ VersionsAreStored'
  BY RowsStoredStep, VersionsStoredStep
<1>3. QED
  BY <1>1, <1>2, InHandStep DEF ContentInv

(* ContentInv holds initially. *)
LEMMA ContentInit == Init => ContentInv
PROOF
<1> SUFFICES ASSUME Init
             PROVE  ContentInv
  OBVIOUS
<1>1. \A q \in Requests : req[q] = Idle
  BY DEF Init
<1>2. (\A k \in Keys : rows[k] = None) /\ (\A v \in Versions : frozen[v] = None)
  BY DEF Init
<1>3. /\ \A a \in Apps : a \notin minted => apps[a] = None
      /\ \A r \in Rules, v \in Versions : snap[r][v] = {} \/ snap[r][v] = {Some(Contents)}
  BY DEF Init
<1>4. ASSUME NEW a \in Apps, NEW r \in Rules, Named(a, r)
      PROVE  apps[a] # None /\ apps[a].rule = r /\ a \in minted
  BY <1>1, <1>3, <1>4 DEF Named
<1>5. QED
  BY <1>1, <1>2, <1>3, <1>4 DEF ContentInv, StoredOnce, RulesAreFixed, NamedAreMinted, RowsAreMinted, RowsAreStored, VersionsAreStored

(* What runs is in the store: the check of a live application has the        *)
(* content its rule has stored for the version it names, a frozen version    *)
(* refers to stored versions, and the version a table shows, with every one  *)
(* below it, has its snapshot unless a crash cut it off.                     *)
THEOREM WhatRunsIsStored == Spec => []StoreHoldsWhatRuns
PROOF
<1>1. Init => TypeInv /\ VersionInv /\ ContentInv
  BY TypeInit, VersionInit, ContentInit
<1>2. TypeInv /\ VersionInv /\ ContentInv /\ [Next]_vars => (TypeInv /\ VersionInv /\ ContentInv)'
  BY TypeStep, VersionStep, ContentStep
<1>3. TypeInv /\ VersionInv /\ ContentInv => StoreHoldsWhatRuns
  <2>1. ASSUME TypeInv, NEW k \in Keys, k[1] \in Live
        PROVE  apps[k[1]].rule \in Rules /\ Named(k[1], apps[k[1]].rule)
    BY <2>1 DEF TypeInv, TypeOK, Live, Applications, Named
  <2>2. TypeInv /\ ContentInv => ChecksComeFromTheStore
    BY <2>1 DEF ContentInv, RowsAreStored, VersionsAreStored, ChecksComeFromTheStore
  <2>3. QED
    BY <2>2 DEF VersionInv, StoreHoldsWhatRuns
<1>4. QED
  BY <1>1, <1>2, <1>3, PTL DEF Spec
=============================================================================
