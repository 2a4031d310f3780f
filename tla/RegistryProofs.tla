--------------------------- MODULE RegistryProofs ---------------------------
(***************************************************************************)
(* What the registry guarantees for every set of rules, contents, users    *)
(* and requests.  One inductive invariant, in four parts:                  *)
(*   RequestsOK  a request is where its call can be, and its copy is what   *)
(*               the check before that place let through,                  *)
(*   FreshIds    the id of a rule still to be inserted is nobody else's,   *)
(*   RowsBacked  what a row shows was saved, and its versions are frozen,   *)
(*               about to be, or known to be lost,                         *)
(*   CopiesBacked  the same of every copy a request still holds: a stale    *)
(*               write brings back nothing that was never there.           *)
(***************************************************************************)
EXTENDS Registry, TLAPS

-----------------------------------------------------------------------------
(* The inductive invariant *)

\* What is left of the chain of a request.
Chained(b) ==
  \/ b.call = b.last
  \/ b.call = "reuse" /\ b.last = "create"
  \/ b.call = "create" /\ b.last \in {"submit", "approve"}
  \/ b.call \in {"match", "submit"} /\ b.last = "approve"

\* The steps a call goes through.
Placed(b) ==
  /\ b.step = "read" => b.call \in Transitioning \cup {"delete"}
  /\ b.step = "write" => b.call \in {"create", "seed", "update", "approve"} \cup Transitioning
  /\ b.step = "readback" => b.call = "approve"
  /\ b.step = "snapshot" => b.call \in {"approve", "seed"}

\* What a copy that is about to be written was checked for.
Checked(b) ==
  /\ b.step = "write" /\ b.call = "update" => b.copy \in Rows /\ b.copy.status \in EDITABLE_STATUSES
  /\ b.step = "write" /\ b.call \in Transitioning =>
       b.copy \in Rows /\ b.to \in VALID_TRANSITIONS[b.copy.status]
  /\ b.step = "write" /\ b.call = "approve" =>
       b.copy \in Rows /\ b.copy.version < MaxVersion /\ "approved" \in VALID_TRANSITIONS[b.copy.status]
  /\ b.step \in {"readback", "snapshot"} => b.copy \in Rows /\ b.copy.version < MaxVersion

Sound(b) == b \in Busy /\ Chained(b) /\ Placed(b) /\ Checked(b)

RequestsOK == \A q \in Requests : req[q] = Idle \/ Sound(req[q])

\* A request that has yet to insert its rule.
Unborn(b) == b # Idle /\ b.call \in Minting /\ b.step # "snapshot"

FreshIds ==
  \A q \in Requests : Unborn(req[q]) =>
    /\ req[q].rule \notin minted
    /\ \A p \in Requests : p # q /\ req[p] # Idle => req[p].rule # req[q].rule

\* Every version that was shown is accounted for.
Covered(r, v) == snap[r][v] # {} \/ Publishing(r, v) \/ <<r, v>> \in lost

Backed(r, x) == x.content \in saved[r] /\ \A v \in 1..x.version : Covered(r, v)

RowsBacked == \A r \in Rules : Exists(r) => r \in minted /\ Backed(r, row[r])

CopiesBacked == \A q \in Requests : req[q] # Idle /\ req[q].copy # NoRow => Backed(req[q].rule, req[q].copy)

RegistryInv == TypeOK /\ RequestsOK /\ FreshIds /\ RowsBacked /\ CopiesBacked

-----------------------------------------------------------------------------
(* Requests *)

(* A request of a reachable state that is not idle is sound. *)
LEMMA SoundRequest ==
  ASSUME RequestsOK, NEW q \in Requests, req[q] # Idle
  PROVE  Sound(req[q]) /\ req[q] \in Busy
PROOF
  BY DEF RequestsOK, Sound

(* The next call of a chain starts without a copy. *)
LEMMA ReturnSound ==
  ASSUME NEW b \in Busy, Sound(b), b.call # b.last
  PROVE  Sound(Onward(b))
PROOF
<1> DEFINE c == Following[b.call]
<1>1. b.call \in {"match", "reuse", "create", "submit"}
  BY DEF Sound, Chained
<1>2. /\ b.call = "match" => c = "create" /\ b.last = "approve"
      /\ b.call = "reuse" => c = "create" /\ b.last = "create"
      /\ b.call = "create" => c = "submit" /\ b.last \in {"submit", "approve"}
      /\ b.call = "submit" => c = "approve" /\ b.last = "approve"
  BY DEF Sound, Chained, Following
<1>3. c \in Calls
  BY <1>1, <1>2 DEF Calls, Chains
<1> HIDE DEF c
<1>4. [b EXCEPT !.call = c, !.step = "begin", !.copy = NoRow] \in Busy
  BY <1>3 DEF Busy, Steps
<1>5. QED
  BY <1>1, <1>2, <1>4 DEF Onward, Sound, Chained, Placed, Checked, Busy, c

RequestType == req \in [Requests -> Busy \cup {Idle}]

(* A sound entry in the place of another. *)
LEMMA SetKeeps ==
  ASSUME RequestType, RequestsOK, NEW q \in Requests, NEW b, Sound(b), req' = [req EXCEPT ![q] = b]
  PROVE  RequestType' /\ RequestsOK'
PROOF
  BY DEF RequestType, RequestsOK, Sound

LEMMA FailKeeps ==
  ASSUME RequestType, RequestsOK, NEW q \in Requests, Fail(q)
  PROVE  RequestType' /\ RequestsOK'
PROOF
  BY DEF RequestType, RequestsOK, Fail

LEMMA ReturnKeeps ==
  ASSUME RequestType, RequestsOK, NEW q \in Requests, req[q] # Idle, Return(q)
  PROVE  RequestType' /\ RequestsOK'
PROOF
<1>1. CASE req[q].call = req[q].last
  <2>1. Fail(q)
    BY <1>1 DEF Return, Fail, RequestType
  <2>2. QED
    BY <2>1, FailKeeps
<1>2. CASE req[q].call # req[q].last
  <2>1. Sound(Onward(req[q]))
    BY <1>2, SoundRequest, ReturnSound
  <2>2. req' = [req EXCEPT ![q] = Onward(req[q])]
    BY <1>2 DEF Return
  <2>3. QED
    BY <2>1, <2>2, SetKeeps
<1>3. QED
  BY <1>1, <1>2

(* The program's transitions and statuses. *)
LEMMA Transitions ==
  /\ VALID_TRANSITIONS \in [Statuses -> SUBSET Statuses]
  /\ \A s \in Statuses : "approved" \in VALID_TRANSITIONS[s] => s \in {"pending_approval", "deprecated"}
PROOF
  BY DEF VALID_TRANSITIONS, Statuses

(* Steps that only read: the request moves on with a sound copy, or fails. *)
Reads(q) ==
  \/ MatchApproved(q) \/ MatchAny(q) \/ Reuse(q) \/ CreateCheck(q) \/ SeedCheck(q)
  \/ EditRead(q) \/ SubmitRead(q) \/ SubmitCompare(q) \/ ReviewRead(q) \/ RetireBegin(q)
  \/ TransitionRead(q) \/ DeleteRead(q) \/ ApproveRead(q) \/ Crash(q)

LEMMA ReadsKeepRequests ==
  ASSUME TypeOK, RequestsOK, NEW q \in Requests, Reads(q)
  PROVE  RequestType' /\ RequestsOK'
PROOF
<1>1. RequestType
  BY DEF TypeOK, RequestType
<1>2. req[q] # Idle
  BY DEF Reads, MatchApproved, MatchAny, Reuse, CreateCheck, SeedCheck, EditRead, SubmitRead, SubmitCompare, ReviewRead, RetireBegin,
         TransitionRead, DeleteRead, ApproveRead, Crash, At
<1>3. Sound(req[q]) /\ req[q] \in Busy
  BY <1>2, SoundRequest
<1>4. CASE Fail(q)
  BY <1>1, <1>4, FailKeeps
<1>5. CASE Return(q)
  BY <1>1, <1>2, <1>5, ReturnKeeps
<1>6. ASSUME ~Fail(q), ~Return(q)
      PROVE  \E b : Sound(b) /\ req' = [req EXCEPT ![q] = b]
  <2> USE <1>6
  <2>1. CASE MatchApproved(q) \/ CreateCheck(q) \/ SeedCheck(q) \/ DeleteRead(q)
    <3>1. PICK s \in {"compare", "write", "read"} :
            /\ req' = [req EXCEPT ![q].step = s]
            /\ s = "compare" => req[q].call = "match"
            /\ s = "write" => req[q].call \in {"create", "seed"}
            /\ s = "read" => req[q].call = "delete"
      BY <2>1 DEF MatchApproved, CreateCheck, SeedCheck, DeleteRead, At, Goto
    <3>2. Sound([req[q] EXCEPT !.step = s])
      BY <1>3, <3>1 DEF Sound, Chained, Placed, Checked, Busy, Steps, Transitioning
    <3>3. req' = [req EXCEPT ![q] = [req[q] EXCEPT !.step = s]]
      BY <3>1, <1>1 DEF RequestType
    <3>4. QED
      BY <3>2, <3>3
  <2>2. CASE MatchAny(q) \/ Reuse(q)
    BY <2>2 DEF MatchAny, Reuse
  <2>3. CASE Crash(q)
    BY <2>3 DEF Crash
  <2>4. CASE EditRead(q)
    <3> DEFINE b == [req[q] EXCEPT !.step = "write", !.copy = row[req[q].rule]]
    <3>1. /\ Exists(req[q].rule) /\ row[req[q].rule].status \in EDITABLE_STATUSES /\ req[q].call = "update"
          /\ req' = [req EXCEPT ![q].step = "write", ![q].copy = row[req[q].rule]]
      BY <2>4 DEF EditRead, At
    <3>2. row[req[q].rule] \in Rows
      BY <1>3, <3>1 DEF TypeOK, Exists, Busy
    <3>3. b \in Busy /\ b.call = "update" /\ b.last = req[q].last /\ b.step = "write" /\ b.copy = row[req[q].rule]
      BY <1>3, <3>1, <3>2 DEF Busy, Steps
    <3>4. req' = [req EXCEPT ![q] = b]
      BY <3>1, <1>1 DEF RequestType
    <3> HIDE DEF b
    <3>5. Sound(b)
      BY <1>3, <3>1, <3>2, <3>3 DEF Sound, Chained, Placed, Checked, Transitioning
    <3>6. QED
      BY <3>4, <3>5
  <2>5. CASE SubmitRead(q)
    <3> DEFINE b == [req[q] EXCEPT !.step = IF row[req[q].rule].status = "approved" THEN "compare" ELSE "read",
                                   !.copy = row[req[q].rule], !.to = "pending_approval"]
    <3>1. /\ Exists(req[q].rule) /\ req[q].call = "submit"
          /\ req' = [req EXCEPT ![q].step = IF row[req[q].rule].status = "approved" THEN "compare" ELSE "read",
                                ![q].copy = row[req[q].rule], ![q].to = "pending_approval"]
      BY <2>5 DEF SubmitRead, At
    <3>2. row[req[q].rule] \in Rows
      BY <1>3, <3>1 DEF TypeOK, Exists, Busy
    <3>3. b \in Busy /\ b.call = "submit" /\ b.last = req[q].last /\ b.step \in {"compare", "read"}
      BY <1>3, <3>1, <3>2 DEF Busy, Steps, Statuses
    <3>4. req' = [req EXCEPT ![q] = b]
      BY <3>1, <1>1 DEF RequestType
    <3> HIDE DEF b
    <3>5. Sound(b)
      BY <1>3, <3>1, <3>3 DEF Sound, Chained, Placed, Checked, Transitioning
    <3>6. QED
      BY <3>4, <3>5
  <2>6. CASE SubmitCompare(q)
    <3>1. req[q].call = "submit" /\ req' = [req EXCEPT ![q].step = "read"]
      BY <2>6 DEF SubmitCompare, At, Goto
    <3>2. Sound([req[q] EXCEPT !.step = "read"])
      BY <1>3, <3>1 DEF Sound, Chained, Placed, Checked, Busy, Steps, Transitioning
    <3>3. req' = [req EXCEPT ![q] = [req[q] EXCEPT !.step = "read"]]
      BY <3>1, <1>1 DEF RequestType
    <3>4. QED
      BY <3>2, <3>3
  <2>7. CASE ReviewRead(q) \/ RetireBegin(q)
    <3>1. PICK s \in Statuses :
            /\ req[q].call \in {"reject", "revoke", "deprecate", "undeprecate"}
            /\ req' = [req EXCEPT ![q].step = "read", ![q].to = s]
      BY <2>7 DEF ReviewRead, RetireBegin, At, Statuses
    <3>2. Sound([req[q] EXCEPT !.step = "read", !.to = s])
      BY <1>3, <3>1 DEF Sound, Chained, Placed, Checked, Busy, Steps, Transitioning
    <3>3. req' = [req EXCEPT ![q] = [req[q] EXCEPT !.step = "read", !.to = s]]
      BY <3>1, <1>1 DEF RequestType
    <3>4. QED
      BY <3>2, <3>3
  <2>8. CASE TransitionRead(q) \/ ApproveRead(q)
    <3> DEFINE b == [req[q] EXCEPT !.step = "write", !.copy = row[req[q].rule]]
    <3>1. /\ Exists(req[q].rule)
          /\ req' = [req EXCEPT ![q].step = "write", ![q].copy = row[req[q].rule]]
          /\ \/ /\ req[q].step = "read" /\ req[q].call # "delete"
                /\ req[q].to \in VALID_TRANSITIONS[row[req[q].rule].status]
             \/ /\ req[q].call = "approve" /\ row[req[q].rule].version < MaxVersion
                /\ "approved" \in VALID_TRANSITIONS[row[req[q].rule].status]
      BY <2>8 DEF TransitionRead, ApproveRead, At, MayTransition
    <3>2. row[req[q].rule] \in Rows
      BY <1>3, <3>1 DEF TypeOK, Exists, Busy
    <3>3. /\ b \in Busy /\ b.call = req[q].call /\ b.last = req[q].last /\ b.step = "write" /\ b.copy = row[req[q].rule]
          /\ b.to = req[q].to
      BY <1>3, <3>2 DEF Busy, Steps
    <3>4. req' = [req EXCEPT ![q] = b]
      BY <3>1, <1>1 DEF RequestType
    <3> HIDE DEF b
    <3>5. Sound(b)
      BY <1>3, <3>1, <3>2, <3>3 DEF Sound, Chained, Placed, Checked, Transitioning
    <3>6. QED
      BY <3>4, <3>5
  <2>9. QED
    BY <2>1, <2>2, <2>3, <2>4, <2>5, <2>6, <2>7, <2>8 DEF Reads
<1>7. QED
  BY <1>1, <1>4, <1>5, <1>6, SetKeeps

(* A new request is at the beginning of its chain. *)
LEMMA ArriveKeepsRequests ==
  ASSUME TypeOK, RequestsOK, NEW q \in Requests, NEW ch \in Chains, NEW r \in Rules, NEW u \in Users, NEW c \in Contents,
         NEW d \in BOOLEAN, Arrive(q, ch, r, u, c, d)
  PROVE  RequestType' /\ RequestsOK'
PROOF
<1> DEFINE b == [call |-> ch[1], last |-> ch[2], step |-> "begin", rule |-> r, user |-> u,
                 auto |-> ch = <<"submit", "approve">>, content |-> c,
                 dup |-> d \/ ch \in {<<"reuse", "create">>, <<"create", "submit">>, <<"create", "approve">>},
                 hit |-> FALSE, copy |-> NoRow, to |-> "draft"]
<1>1. RequestType /\ req' = [req EXCEPT ![q] = b]
  BY DEF TypeOK, RequestType, Arrive
<1>2. ch[1] \in Calls /\ ch[2] \in Calls
  BY DEF Calls
<1>3. b \in Busy
  BY <1>2 DEF Busy, Steps, Statuses
<1>4. Chained(b)
  BY DEF Chained, Chains
<1>5. Placed(b) /\ Checked(b)
  BY DEF Placed, Checked
<1> HIDE DEF b
<1>6. QED
  BY <1>1, <1>3, <1>4, <1>5, SetKeeps DEF Sound

(* Steps that write: a row, a snapshot, or the loss of one. *)
Writes(q) ==
  \/ CreateInsert(q) \/ SeedInsert(q) \/ EditWrite(q) \/ TransitionWrite(q) \/ DeleteRow(q)
  \/ ApproveWrite(q) \/ ApproveReadBack(q) \/ WriteSnapshot(q) \/ SnapshotFails(q)

LEMMA WritesKeepRequests ==
  ASSUME TypeOK, RequestsOK, NEW q \in Requests, Writes(q)
  PROVE  RequestType' /\ RequestsOK'
PROOF
<1>1. RequestType
  BY DEF TypeOK, RequestType
<1>2. req[q] # Idle
  BY DEF Writes, CreateInsert, SeedInsert, EditWrite, TransitionWrite, DeleteRow, ApproveWrite, ApproveReadBack, WriteSnapshot, SnapshotFails, At
<1>3. Sound(req[q]) /\ req[q] \in Busy
  BY <1>2, SoundRequest
<1>4. CASE Fail(q)
  BY <1>1, <1>4, FailKeeps
<1>5. CASE Return(q)
  BY <1>1, <1>2, <1>5, ReturnKeeps
<1>6. CASE SeedInsert(q)
  <2> DEFINE x == [status |-> "approved", version |-> 0, content |-> req[q].content, by |-> <<req[q].user, FALSE>>]
             b == [req[q] EXCEPT !.step = "snapshot", !.hit = TRUE, !.copy = x]
  <2>1. req[q].call = "seed" /\ MaxVersion >= 1 /\ MaxVersion \in Nat
    BY <1>6, RegistryAssumption DEF SeedInsert, At, RegistryAssumption
  <2>2. x \in Rows /\ x.version < MaxVersion
    <3>1. req[q].content \in Contents /\ <<req[q].user, FALSE>> \in Signers
      BY <1>3 DEF Busy, Signers
    <3>2. x \in [status : Statuses, version : 0..MaxVersion, content : Contents, by : Signers]
      BY <2>1, <3>1 DEF Statuses
    <3>3. QED
      BY <2>1, <3>2 DEF Rows
  <2>3. req' = [req EXCEPT ![q] = b]
    BY <1>1, <1>6 DEF SeedInsert, RequestType
  <2> HIDE DEF x
  <2>4. b \in Busy /\ b.call = "seed" /\ b.last = req[q].last /\ b.step = "snapshot" /\ b.copy = x
    BY <1>3, <2>1, <2>2 DEF Busy, Steps
  <2> HIDE DEF b
  <2>5. Sound(b)
    BY <1>3, <2>1, <2>2, <2>4 DEF Sound, Chained, Placed, Checked, Transitioning
  <2>6. QED
    BY <1>1, <2>3, <2>5, SetKeeps
<1>7. CASE ApproveWrite(q)
  <2>1. PICK h \in BOOLEAN : req' = [req EXCEPT ![q].step = "readback", ![q].hit = h]
    BY <1>7 DEF ApproveWrite
  <2> DEFINE b == [req[q] EXCEPT !.step = "readback", !.hit = h]
  <2>2. req' = [req EXCEPT ![q] = b]
    BY <1>1, <2>1 DEF RequestType
  <2>3. req[q].call = "approve" /\ req[q].step = "write"
    BY <1>7 DEF ApproveWrite, At
  <2>4. Sound(b)
    BY <1>3, <2>3 DEF Sound, Chained, Placed, Checked, Busy, Steps, Transitioning
  <2> HIDE DEF b
  <2>5. QED
    BY <1>1, <2>2, <2>4, SetKeeps
<1>8. CASE ApproveReadBack(q) /\ ~Fail(q)
  <2>1. req' = [req EXCEPT ![q].step = "snapshot"] /\ req[q].call = "approve" /\ req[q].step = "readback"
    BY <1>8 DEF ApproveReadBack, At, Goto
  <2> DEFINE b == [req[q] EXCEPT !.step = "snapshot"]
  <2>2. req' = [req EXCEPT ![q] = b]
    BY <1>1, <2>1 DEF RequestType
  <2>3. Sound(b)
    BY <1>3, <2>1 DEF Sound, Chained, Placed, Checked, Busy, Steps, Transitioning
  <2> HIDE DEF b
  <2>4. QED
    BY <1>1, <2>2, <2>3, SetKeeps
<1>9. QED
  BY <1>4, <1>5, <1>6, <1>7, <1>8 DEF Writes, CreateInsert, EditWrite, TransitionWrite, DeleteRow, WriteSnapshot, SnapshotFails

-----------------------------------------------------------------------------
(* Types *)

(* The next version of a row is a row. *)
LEMMA PublishedRow ==
  ASSUME NEW x \in Rows, x.version + 1 \in 1..MaxVersion, NEW b \in Signers
  PROVE  LET y == [x EXCEPT !.status = "approved", !.version = @ + 1, !.by = b]
         IN y \in Rows /\ y.version = x.version + 1
PROOF
<1>1. x.version + 1 \in 0..MaxVersion /\ "approved" \in Statuses
  BY RegistryAssumption DEF RegistryAssumption, Statuses
<1>2. QED
  BY <1>1 DEF Rows

(* What the writers write is a row. *)
LEMMA WrittenRows ==
  ASSUME NEW q \in Requests, req[q] # Idle, RequestsOK
  PROVE  /\ SignerOf(q) \in Signers
         /\ req[q].step = "write" /\ req[q].call = "update" =>
              [req[q].copy EXCEPT !.content = req[q].content, !.by = SignerOf(q)] \in Rows
         /\ req[q].step = "write" /\ req[q].call \in Transitioning =>
              [req[q].copy EXCEPT !.status = req[q].to, !.by = SignerOf(q)] \in Rows
         /\ req[q].copy \in Rows /\ req[q].copy.version < MaxVersion =>
              Published(q) \in Rows /\ Published(q).version = req[q].copy.version + 1 /\ Published(q).version \in 1..MaxVersion
PROOF
<1>1. Sound(req[q]) /\ req[q] \in Busy
  BY SoundRequest
<1>2. SignerOf(q) \in Signers
  BY <1>1 DEF SignerOf, Signers, Busy
<1>3. ASSUME req[q].step = "write", req[q].call = "update"
      PROVE  [req[q].copy EXCEPT !.content = req[q].content, !.by = SignerOf(q)] \in Rows
  BY <1>1, <1>2, <1>3 DEF Sound, Checked, Rows, Busy
<1>4. ASSUME req[q].step = "write", req[q].call \in Transitioning
      PROVE  [req[q].copy EXCEPT !.status = req[q].to, !.by = SignerOf(q)] \in Rows
  BY <1>1, <1>2, <1>4 DEF Sound, Checked, Rows, Busy
<1>5. ASSUME req[q].copy \in Rows, req[q].copy.version < MaxVersion
      PROVE  Published(q) \in Rows /\ Published(q).version = req[q].copy.version + 1 /\ Published(q).version \in 1..MaxVersion
  <2>1. req[q].copy.version + 1 \in 1..MaxVersion
    BY <1>5, RegistryAssumption DEF RegistryAssumption, Rows
  <2>2. Published(q) \in Rows /\ Published(q).version = req[q].copy.version + 1
    BY <1>2, <1>5, <2>1, PublishedRow DEF Published
  <2>3. QED
    BY <2>1, <2>2
<1>6. QED
  BY <1>2, <1>3, <1>4, <1>5

\* The types of everything but the requests.
TablesOK ==
  /\ row \in [Rules -> Rows \cup {NoRow}]
  /\ snap \in [Rules -> [1..MaxVersion -> SUBSET Contents]]
  /\ saved \in [Rules -> SUBSET Contents]
  /\ minted \subseteq Rules
  /\ lost \subseteq Rules \X (1..MaxVersion)
  /\ ops \in 0..MaxOps

(* Every step keeps the types. *)
LEMMA TypeStep == TypeOK /\ RequestsOK /\ [Next]_vars => TypeOK' /\ RequestsOK'
PROOF
<1> SUFFICES ASSUME TypeOK, RequestsOK, [Next]_vars PROVE TypeOK' /\ RequestsOK'
  OBVIOUS
<1>1. ASSUME NEW q \in Requests, NEW ch \in Chains, NEW r \in Rules, NEW u \in Users, NEW c \in Contents, NEW d \in BOOLEAN,
             Arrive(q, ch, r, u, c, d)
      PROVE  TypeOK' /\ RequestsOK'
  <2>1. RequestType' /\ RequestsOK'
    BY <1>1, ArriveKeepsRequests
  <2>2. ops' \in 0..MaxOps /\ UNCHANGED <<row, snap, saved, minted, lost>>
    BY <1>1, RegistryAssumption DEF Arrive, RegistryAssumption, TypeOK
  <2>3. QED
    BY <2>1, <2>2 DEF TypeOK, RequestType
<1>2. ASSUME NEW q \in Requests, Reads(q) PROVE TypeOK' /\ RequestsOK'
  <2>1. RequestType' /\ RequestsOK'
    BY <1>2, ReadsKeepRequests
  <2>2. UNCHANGED <<row, snap, saved, minted, lost, ops>>
    BY <1>2 DEF Reads, MatchApproved, MatchAny, Reuse, CreateCheck, SeedCheck, EditRead, SubmitRead, SubmitCompare, ReviewRead, RetireBegin,
           TransitionRead, DeleteRead, ApproveRead, Crash
  <2>3. QED
    BY <2>1, <2>2 DEF TypeOK, RequestType
<1>3. ASSUME NEW q \in Requests, Writes(q) PROVE TypeOK' /\ RequestsOK'
  <2>1. RequestType' /\ RequestsOK'
    BY <1>3, WritesKeepRequests
  <2>2. req[q] # Idle
    BY <1>3 DEF Writes, CreateInsert, SeedInsert, EditWrite, TransitionWrite, DeleteRow, ApproveWrite, ApproveReadBack, WriteSnapshot,
           SnapshotFails, At
  <2>3. Sound(req[q]) /\ req[q] \in Busy
    BY <2>2, SoundRequest
  <2>4. TablesOK
    BY DEF TypeOK, TablesOK
  <2>5. ASSUME NEW s \in Statuses, NEW v \in 0..MaxVersion, Insert(q, s, v) PROVE TablesOK'
    <3>1. [status |-> s, version |-> v, content |-> req[q].content, by |-> <<req[q].user, FALSE>>] \in Rows
      <4>1. req[q].content \in Contents /\ <<req[q].user, FALSE>> \in Signers
        BY <2>3 DEF Busy, Signers
      <4>2. QED
        BY <4>1 DEF Rows
    <3>2. QED
      BY <2>3, <2>4, <2>5, <3>1 DEF Insert, Busy, TablesOK
  <2>6. ASSUME CreateInsert(q) PROVE TablesOK'
    BY <2>5, <2>6, RegistryAssumption DEF CreateInsert, Statuses, RegistryAssumption
  <2>7. ASSUME SeedInsert(q) PROVE TablesOK'
    BY <2>5, <2>7, RegistryAssumption DEF SeedInsert, Statuses, RegistryAssumption
  <2>8. ASSUME EditWrite(q) PROVE TablesOK'
    BY <2>2, <2>3, <2>4, <2>8, WrittenRows DEF EditWrite, Update, At, Busy, TablesOK
  <2>9. ASSUME TransitionWrite(q) PROVE TablesOK'
    BY <2>2, <2>3, <2>4, <2>9, WrittenRows DEF TransitionWrite, Update, Busy, TablesOK
  <2>10. ASSUME DeleteRow(q) PROVE TablesOK'
    BY <2>3, <2>4, <2>10 DEF DeleteRow, Busy, TablesOK
  <2>11. ASSUME ApproveWrite(q) PROVE TablesOK'
    <3>1. Published(q) \in Rows
      BY <2>2, <2>3, <2>11, WrittenRows DEF ApproveWrite, At, Sound, Checked
    <3>2. row' \in [Rules -> Rows \cup {NoRow}]
      BY <2>3, <2>4, <2>11, <3>1 DEF ApproveWrite, Busy, TablesOK
    <3>3. QED
      BY <2>4, <2>11, <3>2 DEF ApproveWrite, TablesOK
  <2>12. ASSUME ApproveReadBack(q) \/ SnapshotFails(q) PROVE TablesOK'
    <3>1. Published(q).version \in 1..MaxVersion
      BY <2>2, <2>3, <2>12, WrittenRows DEF ApproveReadBack, SnapshotFails, At, Sound, Checked
    <3>2. lost' \subseteq Rules \X (1..MaxVersion)
      BY <2>3, <2>4, <2>12, <3>1 DEF ApproveReadBack, SnapshotFails, Forsake, Busy, TablesOK
    <3>3. QED
      BY <2>4, <2>12, <3>2 DEF ApproveReadBack, SnapshotFails, TablesOK
  <2>13. ASSUME WriteSnapshot(q) PROVE TablesOK'
    <3>1. req[q].copy \in Rows /\ Published(q).version \in 1..MaxVersion
      BY <2>2, <2>3, <2>13, WrittenRows DEF WriteSnapshot, Sound, Checked
    <3>2. req[q].copy.content \in Contents
      BY <3>1 DEF Rows
    <3>3. \A stored \in SUBSET Contents : InsertRow(stored, req[q].copy.content) \in SUBSET Contents
      BY <3>2 DEF InsertRow
    <3> DEFINE r == req[q].rule
               v == Published(q).version
               new == InsertRow(snap[r][v], req[q].copy.content)
    <3>4. snap' \in [Rules -> [1..MaxVersion -> SUBSET Contents]]
      <4>1. r \in Rules /\ v \in 1..MaxVersion
        BY <2>3, <3>1 DEF Busy
      <4>2. snap \in [Rules -> [1..MaxVersion -> SUBSET Contents]]
        BY <2>4 DEF TablesOK
      <4>3. snap[r][v] \in SUBSET Contents
        BY <4>1, <4>2
      <4>4. new \in SUBSET Contents
        BY <3>3, <4>3
      <4>5. snap' = [snap EXCEPT ![r][v] = new]
        BY <2>13 DEF WriteSnapshot, InsertSnapshot
      <4> HIDE DEF new, r, v
      <4>6. QED
        BY <4>1, <4>2, <4>4, <4>5
    <3>5. QED
      BY <2>4, <2>13, <3>4 DEF WriteSnapshot, TablesOK
  <2>14. TablesOK'
    BY <1>3, <2>6, <2>7, <2>8, <2>9, <2>10, <2>11, <2>12, <2>13 DEF Writes
  <2>15. QED
    BY <2>1, <2>14 DEF TypeOK, RequestType, TablesOK
<1>4. CASE UNCHANGED vars
  BY <1>4 DEF vars, TypeOK, RequestsOK
<1>5. QED
  BY <1>1, <1>2, <1>3, <1>4 DEF Next, Serve, Reads, Writes

-----------------------------------------------------------------------------
(* What a step does to the request that takes it, and to the others *)

(* The rest of a chain is about the same rule, and inserts it at most once. *)
LEMMA ReturnMoves ==
  ASSUME RequestType, RequestsOK, NEW q \in Requests, req[q] # Idle, Return(q)
  PROVE  /\ \A p \in Requests \ {q} : req'[p] = req[p]
         /\ req'[q] # Idle =>
              /\ req'[q].rule = req[q].rule /\ req'[q].copy = NoRow /\ req'[q].step = "begin"
              /\ req'[q].call \in Minting => req[q].call \in {"match", "reuse"}
PROOF
<1>1. Sound(req[q]) /\ req[q] \in Busy
  BY SoundRequest
<1>2. CASE req[q].call = req[q].last
  BY <1>2 DEF Return, RequestType
<1>3. CASE req[q].call # req[q].last
  <2>1. req[q].call \in {"match", "reuse", "create", "submit"}
    BY <1>1, <1>3 DEF Sound, Chained
  <2>2. Following[req[q].call] \in Minting => req[q].call \in {"match", "reuse"}
    BY <2>1 DEF Following, Minting
  <2>3. req'[q] = Onward(req[q]) /\ \A p \in Requests \ {q} : req'[p] = req[p]
    BY <1>3 DEF Return, RequestType
  <2>4. /\ Onward(req[q]).rule = req[q].rule /\ Onward(req[q]).copy = NoRow /\ Onward(req[q]).step = "begin"
        /\ Onward(req[q]).call = Following[req[q].call]
    BY <1>1 DEF Onward, Busy
  <2>5. QED
    BY <2>2, <2>3, <2>4
<1>4. QED
  BY <1>2, <1>3

(* A read may refresh the copy from the row, and nothing else. *)
LEMMA ReadsMove ==
  ASSUME TypeOK, RequestsOK, NEW q \in Requests, Reads(q)
  PROVE  /\ UNCHANGED <<row, snap, saved, minted, lost, ops>>
         /\ req[q] # Idle /\ req[q].step \notin {"readback", "snapshot"}
         /\ \A p \in Requests \ {q} : req'[p] = req[p]
         /\ req'[q] # Idle =>
              /\ req'[q].rule = req[q].rule
              /\ req'[q].call \in Minting => req[q].call \in Minting
              /\ \/ req'[q].copy \in {NoRow, req[q].copy}
                 \/ Exists(req[q].rule) /\ req'[q].copy = row[req[q].rule]
PROOF
<1> DEFINE Moves == req'[q] # Idle =>
              /\ req'[q].rule = req[q].rule
              /\ req'[q].call \in Minting => req[q].call \in Minting
              /\ \/ req'[q].copy \in {NoRow, req[q].copy}
                 \/ Exists(req[q].rule) /\ req'[q].copy = row[req[q].rule]
<1>1. UNCHANGED <<row, snap, saved, minted, lost, ops>>
  BY DEF Reads, MatchApproved, MatchAny, Reuse, CreateCheck, SeedCheck, EditRead, SubmitRead, SubmitCompare, ReviewRead, RetireBegin,
         TransitionRead, DeleteRead, ApproveRead, Crash
<1>2. req[q] # Idle /\ req[q].step \notin {"readback", "snapshot"}
  BY DEF Reads, MatchApproved, MatchAny, Reuse, CreateCheck, SeedCheck, EditRead, SubmitRead, SubmitCompare, ReviewRead, RetireBegin,
         TransitionRead, DeleteRead, ApproveRead, Crash, At
<1>3. RequestType
  BY DEF TypeOK, RequestType
<1>4. req[q] \in Busy
  BY <1>2, SoundRequest
<1>5. CASE Fail(q)
  BY <1>1, <1>2, <1>3, <1>5 DEF Fail, RequestType
<1>6. CASE Return(q)
  BY <1>1, <1>2, <1>3, <1>6, ReturnMoves DEF Minting
<1>7. ASSUME NEW s, Goto(q, s) PROVE Moves /\ \A p \in Requests \ {q} : req'[p] = req[p]
  BY <1>3, <1>4, <1>7 DEF Goto, RequestType, Busy
<1>8. ASSUME NEW s, NEW t, req' = [req EXCEPT ![q].step = s, ![q].to = t] PROVE Moves /\ \A p \in Requests \ {q} : req'[p] = req[p]
  BY <1>3, <1>4, <1>8 DEF RequestType, Busy
<1>9. ASSUME NEW s, Exists(req[q].rule), req' = [req EXCEPT ![q].step = s, ![q].copy = row[req[q].rule]]
      PROVE  Moves /\ \A p \in Requests \ {q} : req'[p] = req[p]
  BY <1>3, <1>4, <1>9 DEF RequestType, Busy
<1>10. ASSUME NEW s, NEW t, Exists(req[q].rule), req' = [req EXCEPT ![q].step = s, ![q].copy = row[req[q].rule], ![q].to = t]
       PROVE  Moves /\ \A p \in Requests \ {q} : req'[p] = req[p]
  BY <1>3, <1>4, <1>10 DEF RequestType, Busy
<1>11. CASE ~Fail(q) /\ ~Return(q)
  <2>1. Moves /\ \A p \in Requests \ {q} : req'[p] = req[p]
    <3> HIDE DEF Moves
    <3>1. CASE MatchApproved(q) \/ CreateCheck(q) \/ SeedCheck(q) \/ DeleteRead(q) \/ SubmitCompare(q)
      BY <1>7, <1>11, <3>1 DEF MatchApproved, CreateCheck, SeedCheck, DeleteRead, SubmitCompare
    <3>2. CASE MatchAny(q) \/ Reuse(q) \/ Crash(q)
      BY <1>11, <3>2 DEF MatchAny, Reuse, Crash
    <3>3. CASE EditRead(q) \/ TransitionRead(q) \/ ApproveRead(q)
      BY <1>9, <1>11, <3>3 DEF EditRead, TransitionRead, ApproveRead
    <3>4. CASE SubmitRead(q)
      BY <1>10, <1>11, <3>4 DEF SubmitRead
    <3>5. CASE ReviewRead(q) \/ RetireBegin(q)
      BY <1>8, <1>11, <3>5 DEF ReviewRead, RetireBegin
    <3>6. QED
      BY <3>1, <3>2, <3>3, <3>4, <3>5 DEF Reads
  <2>2. QED
    BY <1>1, <1>2, <2>1
<1>12. QED
  BY <1>5, <1>6, <1>11

(* After a write nothing is left to be inserted. *)
LEMMA WritesMove ==
  ASSUME TypeOK, RequestsOK, NEW q \in Requests, Writes(q)
  PROVE  /\ req[q] # Idle
         /\ \A p \in Requests \ {q} : req'[p] = req[p]
         /\ req'[q] # Idle => req'[q].rule = req[q].rule /\ ~Unborn(req'[q])
         /\ req'[q] # Idle => req'[q].copy \in {NoRow, req[q].copy} \/ SeedInsert(q)
PROOF
<1> DEFINE Moves == /\ \A p \in Requests \ {q} : req'[p] = req[p]
                    /\ req'[q] # Idle => req'[q].rule = req[q].rule /\ ~Unborn(req'[q])
                    /\ req'[q] # Idle => req'[q].copy \in {NoRow, req[q].copy} \/ SeedInsert(q)
<1>1. req[q] # Idle
  BY DEF Writes, CreateInsert, SeedInsert, EditWrite, TransitionWrite, DeleteRow, ApproveWrite, ApproveReadBack, WriteSnapshot,
         SnapshotFails, At
<1>2. RequestType
  BY DEF TypeOK, RequestType
<1>3. Sound(req[q]) /\ req[q] \in Busy
  BY <1>1, SoundRequest
<1>4. ASSUME Fail(q) PROVE Moves
  BY <1>2, <1>4 DEF Fail, RequestType
<1>5. ASSUME Return(q), req[q].call \notin {"match", "reuse"} PROVE Moves
  BY <1>1, <1>2, <1>5, ReturnMoves DEF Unborn
<1>6. ASSUME CreateInsert(q) \/ EditWrite(q) \/ TransitionWrite(q) \/ DeleteRow(q) \/ WriteSnapshot(q) PROVE Moves
  <2>1. Return(q) /\ req[q].call \notin {"match", "reuse"}
    BY <1>3, <1>6 DEF CreateInsert, EditWrite, TransitionWrite, DeleteRow, WriteSnapshot, At, Sound, Placed, Transitioning
  <2>2. QED
    BY <1>5, <2>1
<1>7. ASSUME SeedInsert(q) PROVE Moves
  BY <1>2, <1>3, <1>7 DEF SeedInsert, RequestType, Busy, Unborn
<1>8. ASSUME ApproveWrite(q) PROVE Moves
  BY <1>2, <1>3, <1>8 DEF ApproveWrite, At, RequestType, Busy, Unborn, Minting
<1>9. ASSUME ApproveReadBack(q), ~Fail(q) PROVE Moves
  BY <1>2, <1>3, <1>9 DEF ApproveReadBack, Goto, At, RequestType, Busy, Unborn, Minting
<1> HIDE DEF Moves
<1>10. Moves
  BY <1>4, <1>6, <1>7, <1>8, <1>9 DEF Writes, SnapshotFails
<1>11. QED
  BY <1>1, <1>10 DEF Moves

-----------------------------------------------------------------------------
(* Ids *)

(* A rule still to be inserted keeps its id to itself. *)
LEMMA FreshStep == TypeOK /\ RequestsOK /\ FreshIds /\ [Next]_vars => FreshIds'
PROOF
<1> SUFFICES ASSUME TypeOK, RequestsOK, FreshIds, [Next]_vars PROVE FreshIds'
  OBVIOUS
<1>1. ASSUME NEW q \in Requests, NEW ch \in Chains, NEW r \in Rules, NEW u \in Users, NEW c \in Contents, NEW d \in BOOLEAN,
             Arrive(q, ch, r, u, c, d)
      PROVE  FreshIds'
  <2>1. minted' = minted /\ \A p \in Requests \ {q} : req'[p] = req[p]
    BY <1>1 DEF Arrive, TypeOK
  <2>2. req'[q].rule = r /\ req'[q].call = ch[1]
    BY <1>1 DEF Arrive, TypeOK
  <2>3. /\ ch[1] \in Minting => r \notin minted /\ \A p \in Requests : req[p] # Idle => req[p].rule # r
        /\ ch[1] \notin Minting => r \in minted
    BY <1>1 DEF Arrive
  <2>4. ASSUME NEW p \in Requests \ {q}, Unborn(req[p]) PROVE req[p].rule # r
    BY <2>3, <2>4 DEF FreshIds, Unborn
  <2>5. QED
    BY <2>1, <2>2, <2>3, <2>4 DEF FreshIds, Unborn
<1>2. ASSUME NEW q \in Requests, Reads(q) PROVE FreshIds'
  <2>1. /\ minted' = minted /\ \A p \in Requests \ {q} : req'[p] = req[p]
        /\ req[q] # Idle
        /\ req'[q] # Idle => req'[q].rule = req[q].rule
        /\ Unborn(req'[q]) => Unborn(req[q])
    BY <1>2, ReadsMove DEF Unborn
  <2>2. QED
    BY <2>1 DEF FreshIds, Unborn
<1>3. ASSUME NEW q \in Requests, Writes(q) PROVE FreshIds'
  <2>1. /\ req[q] # Idle
        /\ \A p \in Requests \ {q} : req'[p] = req[p]
        /\ req'[q] # Idle => req'[q].rule = req[q].rule
        /\ ~Unborn(req'[q])
    BY <1>3, WritesMove DEF Unborn
  <2>2. minted' \subseteq minted \cup {req[q].rule}
    BY <1>3 DEF Writes, CreateInsert, SeedInsert, Insert, EditWrite, TransitionWrite, DeleteRow, ApproveWrite, ApproveReadBack,
           WriteSnapshot, SnapshotFails
  <2>3. QED
    BY <2>1, <2>2 DEF FreshIds, Unborn
<1>4. CASE UNCHANGED vars
  BY <1>4 DEF vars, FreshIds, Unborn
<1>5. QED
  BY <1>1, <1>2, <1>3, <1>4 DEF Next, Serve, Reads, Writes

-----------------------------------------------------------------------------
(* Versions *)

(* The version a request publishes is its copy's, plus one. *)
LEMMA PublishedVersion ==
  ASSUME RequestsOK, NEW q \in Requests, req[q] # Idle, req[q].step \in {"readback", "snapshot"}
  PROVE  req[q].copy \in Rows /\ Published(q).version = req[q].copy.version + 1 /\ Published(q).version \in 1..MaxVersion
PROOF
<1>1. Sound(req[q])
  BY SoundRequest
<1>2. req[q].copy \in Rows /\ req[q].copy.version < MaxVersion
  BY <1>1 DEF Sound, Checked
<1>3. QED
  BY <1>2, WrittenRows

(* A stored version keeps a content. *)
LEMMA SnapshotsStay ==
  ASSUME TypeOK, RequestsOK, NEW q \in Requests, WriteSnapshot(q)
  PROVE  /\ \A r \in Rules, v \in 1..MaxVersion : snap[r][v] # {} => snap'[r][v] # {}
         /\ snap'[req[q].rule][Published(q).version] # {}
PROOF
<1>1. req[q] # Idle /\ req[q].step = "snapshot" /\ req[q] \in Busy
  BY SoundRequest DEF WriteSnapshot
<1>2. Published(q).version \in 1..MaxVersion
  BY <1>1, PublishedVersion
<1> DEFINE r == req[q].rule
           v == Published(q).version
           new == InsertRow(snap[r][v], req[q].copy.content)
<1>3. r \in Rules /\ v \in 1..MaxVersion
  BY <1>1, <1>2 DEF Busy
<1>4. snap' = [snap EXCEPT ![r][v] = new]
  BY DEF WriteSnapshot, InsertSnapshot
<1>5. new # {}
  BY DEF InsertRow
<1>6. snap \in [Rules -> [1..MaxVersion -> SUBSET Contents]]
  BY DEF TypeOK
<1> HIDE DEF new, r, v
<1>7. snap'[r][v] # {} /\ \A s \in Rules, w \in 1..MaxVersion : snap[s][w] # {} => snap'[s][w] # {}
  BY <1>3, <1>4, <1>5, <1>6
<1>8. QED
  BY <1>7 DEF r, v

(* A request stays a publisher as long as it does not move. *)
LEMMA PublisherStays ==
  ASSUME NEW p \in Requests, NEW r, NEW v, req'[p] = req[p],
         req[p] # Idle, req[p].step \in {"readback", "snapshot"}, req[p].hit, req[p].rule = r, Published(p).version = v
  PROVE  Publishing(r, v)'
PROOF
<1>1. Published(p)'.version = v
  BY DEF Published, SignerOf
<1>2. QED
  BY <1>1 DEF Publishing

(* Once accounted for, a version stays so. *)
LEMMA CoveredStays ==
  ASSUME TypeOK, RequestsOK, [Next]_vars, NEW r \in Rules, NEW v \in 1..MaxVersion, Covered(r, v)
  PROVE  Covered(r, v)'
PROOF
<1>1. CASE UNCHANGED vars
  BY <1>1, PublisherStays DEF vars, Covered, Publishing
<1>2. ASSUME NEW q \in Requests, UNCHANGED <<snap, lost>>, \A p \in Requests \ {q} : req'[p] = req[p],
             req[q] = Idle \/ req[q].step \notin {"readback", "snapshot"}
      PROVE  Covered(r, v)'
  BY <1>2, PublisherStays DEF Covered, Publishing
<1>3. ASSUME NEW q \in Requests, NEW ch \in Chains, NEW s \in Rules, NEW u \in Users, NEW c \in Contents, NEW d \in BOOLEAN,
             Arrive(q, ch, s, u, c, d)
      PROVE  Covered(r, v)'
  BY <1>2, <1>3 DEF Arrive, TypeOK
<1>4. ASSUME NEW q \in Requests, Reads(q) PROVE Covered(r, v)'
  BY <1>2, <1>4, ReadsMove
<1>5. ASSUME NEW q \in Requests, Writes(q) PROVE Covered(r, v)'
  <2>1. req[q] # Idle /\ req[q] \in Busy /\ \A p \in Requests \ {q} : req'[p] = req[p]
    BY <1>5, WritesMove, SoundRequest
  <2>2. CASE CreateInsert(q) \/ SeedInsert(q) \/ EditWrite(q) \/ TransitionWrite(q) \/ DeleteRow(q) \/ ApproveWrite(q)
    <3>1. UNCHANGED <<snap, lost>> /\ req[q].step \notin {"readback", "snapshot"}
      BY <2>2 DEF CreateInsert, SeedInsert, Insert, EditWrite, TransitionWrite, DeleteRow, ApproveWrite, At
    <3>2. QED
      BY <1>2, <2>1, <3>1
  <2>3. CASE WriteSnapshot(q)
    <3>1. lost' = lost
      BY <2>3 DEF WriteSnapshot
    <3>2. CASE snap[r][v] # {} \/ <<r, v>> \in lost
      BY <2>3, <3>1, <3>2, SnapshotsStay DEF Covered
    <3>3. CASE Publishing(r, v)
      <4>1. PICK p \in Requests : req[p] # Idle /\ req[p].step \in {"readback", "snapshot"} /\ req[p].hit
                                   /\ req[p].rule = r /\ Published(p).version = v
        BY <3>3 DEF Publishing
      <4>2. CASE p = q
        BY <2>3, <4>1, <4>2, SnapshotsStay DEF Covered
      <4>3. CASE p # q
        BY <2>1, <4>1, <4>3, PublisherStays DEF Covered
      <4>4. QED
        BY <4>2, <4>3
    <3>4. QED
      BY <3>2, <3>3 DEF Covered
  <2>4. CASE ApproveReadBack(q) \/ SnapshotFails(q)
    <3>1. snap' = snap /\ req[q].step \in {"readback", "snapshot"}
      BY <2>4 DEF ApproveReadBack, SnapshotFails, At
    <3>2. \/ Forsake(q)
          \/ lost' = lost /\ req'[q] = [req[q] EXCEPT !.step = "snapshot"]
      BY <2>4 DEF ApproveReadBack, SnapshotFails, Goto, TypeOK
    <3>3. lost \subseteq lost'
      BY <3>2 DEF Forsake
    <3>4. CASE snap[r][v] # {} \/ <<r, v>> \in lost
      BY <3>1, <3>3, <3>4 DEF Covered
    <3>5. CASE Publishing(r, v)
      <4>1. PICK p \in Requests : req[p] # Idle /\ req[p].step \in {"readback", "snapshot"} /\ req[p].hit
                                   /\ req[p].rule = r /\ Published(p).version = v
        BY <3>5 DEF Publishing
      <4>2. CASE p # q
        BY <2>1, <4>1, <4>2, PublisherStays DEF Covered
      <4>3. CASE p = q /\ Forsake(q)
        BY <4>1, <4>3 DEF Forsake, Covered
      <4>4. CASE p = q /\ req'[q] = [req[q] EXCEPT !.step = "snapshot"]
        <5>1. Published(q)'.version = v
          BY <2>1, <4>1, <4>4 DEF Published, SignerOf, Busy
        <5>2. req'[q] # Idle /\ req'[q].step = "snapshot" /\ req'[q].hit /\ req'[q].rule = r
          BY <2>1, <4>1, <4>4 DEF Busy, Idle
        <5>3. QED
          BY <5>1, <5>2 DEF Covered, Publishing
      <4>5. QED
        BY <3>2, <4>2, <4>3, <4>4
    <3>6. QED
      BY <3>4, <3>5 DEF Covered
  <2>5. QED
    BY <1>5, <2>2, <2>3, <2>4 DEF Writes
<1>6. QED
  BY <1>1, <1>3, <1>4, <1>5 DEF Next, Serve, Reads, Writes

LEMMA SavedGrows ==
  ASSUME TypeOK, RequestsOK, [Next]_vars, NEW r \in Rules
  PROVE  saved[r] \subseteq saved'[r]
PROOF
<1>1. ASSUME NEW q \in Requests, Writes(q) PROVE saved[r] \subseteq saved'[r]
  BY <1>1 DEF Writes, CreateInsert, SeedInsert, Insert, EditWrite, TransitionWrite, DeleteRow, ApproveWrite, ApproveReadBack,
         WriteSnapshot, SnapshotFails, TypeOK
<1>2. ASSUME NEW q \in Requests, Reads(q) PROVE saved[r] \subseteq saved'[r]
  BY <1>2, ReadsMove
<1>3. CASE UNCHANGED vars
  BY <1>3 DEF vars
<1>4. QED
  BY <1>1, <1>2, <1>3 DEF Next, Serve, Reads, Writes, Arrive

(* What backs a row or a copy goes on backing it. *)
LEMMA BackedStays ==
  ASSUME TypeOK, RequestsOK, [Next]_vars, NEW r \in Rules, NEW x \in Rows, Backed(r, x)
  PROVE  Backed(r, x)'
PROOF
<1>1. x.version \in 0..MaxVersion /\ MaxVersion \in Nat
  BY RegistryAssumption DEF Rows, RegistryAssumption
<1>2. \A v \in 1..x.version : Covered(r, v)'
  BY <1>1, CoveredStays DEF Backed
<1>3. x.content \in saved'[r]
  BY SavedGrows DEF Backed
<1>4. QED
  BY <1>2, <1>3 DEF Backed

(* A row that is still there, or the new one, is backed. *)
LEMMA RowsBackedStep ==
  ASSUME TypeOK, RequestsOK, RowsBacked, CopiesBacked, [Next]_vars
  PROVE  RowsBacked'
PROOF
<1>1. ASSUME NEW r \in Rules, Exists(r), row'[r] = row[r] PROVE r \in minted /\ Backed(r, row[r])'
  <2>1. row[r] \in Rows
    BY <1>1 DEF TypeOK, Exists
  <2>2. r \in minted /\ Backed(r, row[r])
    BY <1>1 DEF RowsBacked
  <2>3. ASSUME NEW x \in Rows, x = row[r] PROVE (x.content \in saved'[r] /\ \A v \in 1..x.version : Covered(r, v)')
    BY <2>2, <2>3, BackedStays DEF Backed
  <2>4. QED
    BY <1>1, <2>1, <2>2, <2>3 DEF Backed
<1> DEFINE Changes(q) ==
       CreateInsert(q) \/ SeedInsert(q) \/ EditWrite(q) \/ TransitionWrite(q) \/ DeleteRow(q) \/ ApproveWrite(q)
<1>2. minted \subseteq minted' /\ (row' = row \/ \E q \in Requests : Changes(q))
  <2>1. ASSUME NEW q \in Requests, Writes(q) PROVE minted \subseteq minted' /\ (row' = row \/ Changes(q))
    BY <2>1 DEF Writes, CreateInsert, SeedInsert, Insert, EditWrite, TransitionWrite, DeleteRow, ApproveWrite, ApproveReadBack,
           WriteSnapshot, SnapshotFails
  <2>2. ASSUME NEW q \in Requests, Reads(q) PROVE minted' = minted /\ row' = row
    BY <2>2, ReadsMove
  <2>3. CASE UNCHANGED vars
    BY <2>3 DEF vars
  <2> HIDE DEF Changes
  <2>4. QED
    BY <2>1, <2>2, <2>3 DEF Next, Serve, Reads, Writes, Arrive
<1>3. CASE row' = row
  BY <1>1, <1>2, <1>3 DEF RowsBacked, Exists
<1>4. ASSUME NEW q \in Requests, Changes(q) PROVE RowsBacked'
  <2>1. req[q] # Idle /\ req[q] \in Busy /\ Sound(req[q]) /\ req[q].rule \in Rules
    <3>1. req[q] # Idle
      BY <1>4 DEF CreateInsert, SeedInsert, EditWrite, TransitionWrite, DeleteRow, ApproveWrite, At
    <3>2. QED
      BY <3>1, SoundRequest DEF Busy
  <2> PICK s \in Rules : s = req[q].rule
    BY <2>1
  <2>2. \A r \in Rules \ {s} : row'[r] = row[r]
    BY <1>4 DEF CreateInsert, SeedInsert, Insert, EditWrite, TransitionWrite, DeleteRow, ApproveWrite, Update, TypeOK
  <2>3. ASSUME Exists(s)' PROVE s \in minted' /\ row'[s].content \in saved'[s] /\ \A v \in 1..row'[s].version : Covered(s, v)'
    <3>1. CASE CreateInsert(q)
      <4>1. row'[s].version = 0 /\ row'[s].content = req[q].content /\ saved'[s] = saved[s] \cup {req[q].content} /\ s \in minted'
        BY <2>1, <3>1 DEF CreateInsert, Insert, TypeOK
      <4>2. QED
        BY <4>1
    <3>2. CASE SeedInsert(q)
      <4>1. row'[s].version = 1 /\ row'[s].content = req[q].content /\ saved'[s] = saved[s] \cup {req[q].content} /\ s \in minted'
        BY <2>1, <3>2 DEF SeedInsert, Insert, TypeOK
      <4>2. /\ req'[q] # Idle /\ req'[q].step = "snapshot" /\ req'[q].hit /\ req'[q].rule = s
            /\ req'[q].copy = [status |-> "approved", version |-> 0, content |-> req[q].content, by |-> <<req[q].user, FALSE>>]
        BY <2>1, <3>2 DEF SeedInsert, TypeOK, Busy, Idle
      <4>3. Published(q)'.version = 1
        BY <4>2 DEF Published
      <4>4. Covered(s, 1)'
        BY <4>2, <4>3 DEF Covered, Publishing
      <4>5. QED
        BY <4>1, <4>4
    <3>3. CASE EditWrite(q)
      <4>1. Exists(s) /\ saved' = [saved EXCEPT ![s] = @ \cup {req[q].content}]
        BY <2>1, <2>3, <3>3 DEF EditWrite, Update, Exists, TypeOK
      <4>2. row'[s] = [req[q].copy EXCEPT !.content = req[q].content, !.by = SignerOf(q)]
        BY <2>1, <3>3, <4>1 DEF EditWrite, Update, TypeOK
      <4>3. req[q].copy \in Rows
        BY <2>1, <3>3 DEF EditWrite, At, Sound, Checked
      <4>4. row'[s].version = req[q].copy.version /\ row'[s].content = req[q].content
        BY <4>2, <4>3 DEF Rows
      <4>5. Backed(s, req[q].copy)
        BY <2>1, <4>3, NoRowAssumption DEF CopiesBacked
      <4>6. \A v \in 1..req[q].copy.version : Covered(s, v)'
        <5>1. req[q].copy.version \in 0..MaxVersion
          BY <4>3 DEF Rows
        <5>2. QED
          BY <2>1, <4>5, <5>1, CoveredStays, RegistryAssumption DEF Backed, RegistryAssumption
      <4>7. s \in minted'
        BY <1>2, <2>1, <4>1 DEF RowsBacked
      <4>8. req[q].content \in saved'[s]
        BY <2>1, <4>1 DEF TypeOK
      <4>9. QED
        BY <4>4, <4>6, <4>7, <4>8
    <3>4. CASE TransitionWrite(q)
      <4>1. Exists(s)
        BY <2>1, <2>3, <3>4 DEF TransitionWrite, Update, Exists, TypeOK
      <4>2. row'[s] = [req[q].copy EXCEPT !.status = req[q].to, !.by = SignerOf(q)]
        BY <2>1, <3>4, <4>1 DEF TransitionWrite, Update, TypeOK
      <4>3. req[q].copy \in Rows
        BY <2>1, <3>4 DEF TransitionWrite, Sound, Checked
      <4>4. row'[s].version = req[q].copy.version /\ row'[s].content = req[q].copy.content
        BY <4>2, <4>3 DEF Rows
      <4>5. Backed(s, req[q].copy)
        BY <2>1, <4>3, NoRowAssumption DEF CopiesBacked
      <4>6. \A v \in 1..req[q].copy.version : Covered(s, v)'
        <5>1. req[q].copy.version \in 0..MaxVersion
          BY <4>3 DEF Rows
        <5>2. QED
          BY <2>1, <4>5, <5>1, CoveredStays, RegistryAssumption DEF Backed, RegistryAssumption
      <4>7. s \in minted' /\ req[q].copy.content \in saved'[s]
        BY <1>2, <2>1, <4>1, <4>5, SavedGrows DEF RowsBacked, Backed
      <4>8. QED
        BY <4>4, <4>6, <4>7
    <3>5. CASE DeleteRow(q)
      BY <2>1, <2>3, <3>5 DEF DeleteRow, Exists, TypeOK
    <3>6. CASE ApproveWrite(q)
      <4>1. req[q].copy \in Rows /\ req[q].copy.version < MaxVersion
        BY <2>1, <3>6 DEF ApproveWrite, At, Sound, Checked
      <4>2. CASE row'[s] = row[s]
        BY <1>1, <1>2, <2>1, <2>3, <4>2 DEF Exists, Backed
      <4>3. CASE row'[s] # row[s]
        <5>1. /\ Exists(s)
              /\ row'[s] = Published(q)
              /\ req' = [req EXCEPT ![q].step = "readback", ![q].hit = TRUE]
          BY <2>1, <3>6, <4>3 DEF ApproveWrite, TypeOK
        <5>2. Published(q).version = req[q].copy.version + 1 /\ Published(q).content = req[q].copy.content
          BY <4>1 DEF Published, Rows
        <5>3. req'[q] # Idle /\ req'[q].step = "readback" /\ req'[q].hit /\ req'[q].rule = s /\ req'[q].copy = req[q].copy
          BY <2>1, <5>1 DEF TypeOK, Busy, Idle
        <5>4. Published(q)'.version = req[q].copy.version + 1
          BY <4>1, <5>3 DEF Published, Rows
        <5> PICK n \in 0..MaxVersion : n = req[q].copy.version
          BY <4>1 DEF Rows
        <5>5. Covered(s, n + 1)'
          BY <5>3, <5>4 DEF Covered, Publishing
        <5>6. Backed(s, req[q].copy)
          BY <2>1, <4>1, NoRowAssumption DEF CopiesBacked
        <5>7. \A v \in 1..n : Covered(s, v)'
          BY <2>1, <5>6, CoveredStays, RegistryAssumption DEF Backed, RegistryAssumption
        <5>8. \A v \in 1..(n + 1) : v \in 1..n \/ v = n + 1
          BY RegistryAssumption DEF RegistryAssumption
        <5>9. \A v \in 1..(n + 1) : Covered(s, v)'
          BY <5>5, <5>7, <5>8
        <5>10. s \in minted' /\ req[q].copy.content \in saved'[s]
          BY <1>2, <2>1, <5>1, <5>6, SavedGrows DEF RowsBacked, Backed
        <5>11. QED
          BY <5>1, <5>2, <5>9, <5>10
      <4>4. QED
        BY <4>2, <4>3
    <3>7. QED
      BY <1>4, <3>1, <3>2, <3>3, <3>4, <3>5, <3>6
  <2>4. \A r \in Rules \ {s} : Exists(r)' => r \in minted' /\ Backed(r, row[r])'
    BY <1>1, <1>2, <2>2 DEF Exists
  <2>5. QED
    BY <2>3, <2>4 DEF RowsBacked, Backed
<1>5. QED
  BY <1>2, <1>3, <1>4

(* A copy is the one that was held, the row, or the seed just inserted. *)
LEMMA CopiesBackedStep ==
  ASSUME TypeOK, RequestsOK, RowsBacked, CopiesBacked, [Next]_vars
  PROVE  CopiesBacked'
PROOF
<1> SUFFICES ASSUME NEW p \in Requests, req'[p] # Idle, req'[p].copy # NoRow
             PROVE  Backed(req[p].rule, req[p].copy)'
  BY DEF CopiesBacked
<1>1. RequestsOK' /\ TypeOK'
  BY TypeStep
<1>2. req'[p] \in Busy
  BY <1>1 DEF TypeOK
<1> PICK r \in Rules : r = req'[p].rule
  BY <1>2 DEF Busy
<1> PICK x \in Rows : x = req'[p].copy
  BY <1>2 DEF Busy
<1>3. SUFFICES Backed(r, x)'
  BY <1>3 DEF Backed
<1>4. CASE req'[p] = req[p]
  BY <1>4, BackedStays DEF CopiesBacked
<1>5. ASSUME NEW q \in Requests, NEW ch \in Chains, NEW s \in Rules, NEW u \in Users, NEW c \in Contents, NEW d \in BOOLEAN,
             Arrive(q, ch, s, u, c, d)
      PROVE  Backed(r, x)'
  <2>1. \A o \in Requests : req'[o] = req[o] \/ req'[o].copy = NoRow
    BY <1>5 DEF Arrive, TypeOK
  <2>2. QED
    BY <1>4, <2>1
<1>6. ASSUME req[p] # Idle, req'[p].rule = req[p].rule, req'[p].copy = req[p].copy PROVE Backed(r, x)'
  BY <1>6, BackedStays DEF CopiesBacked
<1>7. ASSUME Exists(r), x = row[r] PROVE Backed(r, x)'
  BY <1>7, BackedStays DEF RowsBacked
<1>8. ASSUME NEW q \in Requests, Reads(q) PROVE Backed(r, x)'
  BY <1>4, <1>6, <1>7, <1>8, ReadsMove
<1>9. ASSUME NEW q \in Requests, Writes(q) PROVE Backed(r, x)'
  <2>1. CASE SeedInsert(q) /\ p = q
    <3>1. req[q] # Idle /\ req[q] \in Busy
      BY <2>1, SoundRequest DEF SeedInsert, At
    <3>2. req'[q].rule = req[q].rule
      BY <2>1, <3>1 DEF SeedInsert, TypeOK, Busy
    <3>3. req'[q].copy = [status |-> "approved", version |-> 0, content |-> req[q].content, by |-> <<req[q].user, FALSE>>]
      BY <2>1, <3>1 DEF SeedInsert, TypeOK, Busy
    <3>4. x.version = 0 /\ x.content = req[q].content /\ r = req[q].rule
      BY <2>1, <3>2, <3>3
    <3>5. x.content \in saved'[r]
      BY <2>1, <3>4 DEF SeedInsert, Insert, TypeOK
    <3>6. QED
      BY <3>4, <3>5 DEF Backed
  <2>2. CASE ~(SeedInsert(q) /\ p = q)
    BY <1>4, <1>6, <1>9, <2>2, WritesMove
  <2>3. QED
    BY <2>1, <2>2
<1>10. CASE UNCHANGED vars
  BY <1>4, <1>10 DEF vars
<1>11. QED
  BY <1>5, <1>8, <1>9, <1>10 DEF Next, Serve, Reads, Writes

-----------------------------------------------------------------------------
(* The theorems *)

LEMMA InitInv == Init => RegistryInv
PROOF
<1> SUFFICES ASSUME Init PROVE RegistryInv
  OBVIOUS
<1>1. TypeOK
  BY RegistryAssumption DEF Init, TypeOK, RegistryAssumption
<1>2. \A q \in Requests : req[q] = Idle
  BY DEF Init
<1>3. RequestsOK /\ FreshIds /\ CopiesBacked
  BY <1>2 DEF RequestsOK, FreshIds, Unborn, CopiesBacked
<1>4. RowsBacked
  BY DEF Init, RowsBacked, Exists
<1>5. QED
  BY <1>1, <1>3, <1>4 DEF RegistryInv

LEMMA StepInv == RegistryInv /\ [Next]_vars => RegistryInv'
PROOF
  BY TypeStep, FreshStep, RowsBackedStep, CopiesBackedStep DEF RegistryInv

LEMMA RegistryInvariant == Spec => []RegistryInv
PROOF
  BY InitInv, StepInv, PTL DEF Spec

(* The variables of the registry and of its requests have their types. *)
THEOREM RegistryTypeCorrect == Spec => []TypeOK
PROOF
<1>1. RegistryInv => TypeOK
  BY DEF RegistryInv
<1>2. QED
  BY <1>1, RegistryInvariant, PTL

(* Every version a live row shows has its snapshot, is about to get it, or   *)
(* is one whose snapshot is known to be lost, whatever the requests that     *)
(* interleave: the stale copies that _update writes name only versions that  *)
(* were published before (RowsBacked, CopiesBacked).                         *)
THEOREM EveryVersionIsAccountedFor == Spec => []PublishedHasSnapshot
PROOF
<1>1. RegistryInv => PublishedHasSnapshot
  BY DEF RegistryInv, RowsBacked, Backed, Covered, PublishedHasSnapshot
<1>2. QED
  BY <1>1, RegistryInvariant, PTL

(* What changes a row: an insert of a fresh id, or a write over a row that   *)
(* is still there.                                                           *)
LEMMA RowChanges ==
  ASSUME RegistryInv, [Next]_vars, NEW r \in Rules, row'[r] # row[r]
  PROVE  \E q \in Requests :
           /\ req[q] # Idle /\ req[q].rule = r
           /\ \/ (CreateInsert(q) \/ SeedInsert(q)) /\ r \notin minted
              \/ (EditWrite(q) \/ TransitionWrite(q) \/ ApproveWrite(q)) /\ Exists(r)
              \/ DeleteRow(q) /\ ~Exists(r)'
PROOF
<1>1. PICK q \in Requests : Writes(q)
  <2>1. ASSUME NEW q \in Requests, Reads(q) PROVE FALSE
    BY <2>1, ReadsMove DEF RegistryInv
  <2>2. QED
    BY <2>1 DEF Next, Serve, Reads, Writes, Arrive, vars
<1>2. req[q] # Idle /\ req[q] \in Busy
  BY <1>1, WritesMove, SoundRequest DEF RegistryInv
<1>3. req[q].rule = r
  BY <1>1, <1>2 DEF RegistryInv, TypeOK, Busy, Writes, CreateInsert, SeedInsert, Insert, EditWrite, TransitionWrite, DeleteRow, ApproveWrite,
     Update, ApproveReadBack, WriteSnapshot, SnapshotFails
<1>4. CASE CreateInsert(q) \/ SeedInsert(q)
  <2>1. Unborn(req[q])
    BY <1>2, <1>4 DEF CreateInsert, SeedInsert, At, Unborn, Minting
  <2>2. QED
    BY <1>2, <1>3, <1>4, <2>1 DEF RegistryInv, FreshIds
<1>5. CASE EditWrite(q) \/ TransitionWrite(q) \/ ApproveWrite(q)
  <2>1. Exists(r)
    BY <1>2, <1>3, <1>5 DEF EditWrite, TransitionWrite, ApproveWrite, Update, Exists, RegistryInv, TypeOK, Busy
  <2>2. QED
    BY <1>2, <1>3, <1>5, <2>1
<1>6. CASE DeleteRow(q)
  <2>1. ~Exists(r)'
    BY <1>2, <1>3, <1>6 DEF DeleteRow, Exists, RegistryInv, TypeOK, Busy
  <2>2. QED
    BY <1>2, <1>3, <1>6, <2>1
<1>7. CASE ApproveReadBack(q) \/ WriteSnapshot(q) \/ SnapshotFails(q)
  BY <1>7 DEF ApproveReadBack, WriteSnapshot, SnapshotFails
<1>8. QED
  BY <1>1, <1>4, <1>5, <1>6, <1>7 DEF Writes

(* A deleted rule does not come back: whoever still holds a copy of it finds *)
(* no row to write over, and an insert uses an id that was never there.      *)
THEOREM DeletedRulesStayDeleted == Spec => DeletedStaysDeleted
PROOF
<1>1. RegistryInv /\ [Next]_vars => \A r \in minted : ~Exists(r) => ~Exists(r)'
  <2> SUFFICES ASSUME RegistryInv, [Next]_vars, NEW r \in minted, ~Exists(r), Exists(r)' PROVE FALSE
    OBVIOUS
  <2>1. r \in Rules /\ row'[r] # row[r]
    BY DEF RegistryInv, TypeOK, Exists
  <2>2. QED
    BY <2>1, RowChanges
<1>2. QED
  BY <1>1, RegistryInvariant, PTL DEF Spec, DeletedStaysDeleted

(* Every check of the life cycle is made on a copy, and holds of the row it  *)
(* is written over unless somebody wrote in between (update_draft,           *)
(* _check_transition, approve).                                              *)
THEOREM LifeCycleBreaksOnlyByStaleCopies == Spec => OnlyStaleCopiesBreakTheLifeCycle
PROOF
<1> DEFINE Stale(r) == \E q \in Requests : req[q] # Idle /\ req[q].step = "write" /\ req[q].rule = r /\ req[q].copy # row[r]
<1>1. ASSUME RegistryInv, [Next]_vars, NEW r \in Rules, Exists(r), Exists(r)', row[r] # row'[r], ~Stale(r)
      PROVE  Lawful(row[r], row'[r])
  <2>1. r \in minted /\ row[r] \in Rows
    BY <1>1 DEF RegistryInv, RowsBacked, TypeOK, Exists
  <2>2. PICK q \in Requests :
          /\ req[q] # Idle /\ req[q].rule = r
          /\ EditWrite(q) \/ TransitionWrite(q) \/ ApproveWrite(q)
    BY <1>1, <2>1, RowChanges
  <2>3. Sound(req[q]) /\ req[q] \in Busy
    BY <1>1, <2>2, SoundRequest DEF RegistryInv
  <2>4. req[q].step = "write" /\ req[q].copy = row[r]
    BY <1>1, <2>2 DEF EditWrite, TransitionWrite, ApproveWrite, At
  <2>5. CASE EditWrite(q)
    <3>1. row'[r] = [row[r] EXCEPT !.content = req[q].content, !.by = SignerOf(q)]
      BY <1>1, <2>2, <2>4, <2>5 DEF EditWrite, Update, RegistryInv, TypeOK
    <3>2. row[r].status \in EDITABLE_STATUSES
      BY <2>3, <2>4, <2>5 DEF EditWrite, At, Sound, Checked
    <3>3. row'[r].status = row[r].status /\ row'[r].version = row[r].version
      BY <2>1, <3>1 DEF Rows
    <3>4. QED
      BY <3>2, <3>3 DEF Lawful
  <2>6. CASE TransitionWrite(q)
    <3>1. row'[r] = [row[r] EXCEPT !.status = req[q].to, !.by = SignerOf(q)]
      BY <1>1, <2>2, <2>4, <2>6 DEF TransitionWrite, Update, RegistryInv, TypeOK
    <3>2. req[q].to \in VALID_TRANSITIONS[row[r].status]
      BY <2>3, <2>4, <2>6 DEF TransitionWrite, Sound, Checked
    <3>3. row'[r].status = req[q].to /\ row'[r].version = row[r].version /\ row'[r].content = row[r].content
      BY <2>1, <3>1 DEF Rows
    <3>4. QED
      BY <3>2, <3>3 DEF Lawful
  <2>7. CASE ApproveWrite(q)
    <3>1. row'[r] = Published(q)
      BY <1>1, <2>2, <2>7 DEF ApproveWrite, RegistryInv, TypeOK
    <3>2. "approved" \in VALID_TRANSITIONS[row[r].status] /\ row[r].status \in Statuses
      BY <2>1, <2>3, <2>4, <2>7 DEF ApproveWrite, At, Sound, Checked, Rows
    <3>3. row[r].status \in {"pending_approval", "deprecated"}
      BY <3>2, Transitions
    <3>4. row'[r].status = "approved" /\ row'[r].version = row[r].version + 1 /\ row'[r].content = row[r].content
      BY <2>1, <2>4, <3>1 DEF Published, Rows
    <3>5. QED
      BY <3>3, <3>4 DEF Lawful
  <2>8. QED
    BY <2>2, <2>5, <2>6, <2>7
<1>2. RegistryInv /\ [Next]_vars =>
        \A r \in Rules :
          Exists(r) /\ Exists(r)' /\ row[r] # row'[r] =>
            \/ Lawful(row[r], row'[r])
            \/ \E q \in Requests : req[q] # Idle /\ req[q].step = "write" /\ req[q].rule = r /\ req[q].copy # row[r]
  BY <1>1
<1>3. QED
  BY <1>2, RegistryInvariant, PTL DEF Spec, OnlyStaleCopiesBreakTheLifeCycle

-----------------------------------------------------------------------------
(* The write-once store *)

LEMMA StoreInit == Init => Store!Init
PROOF
  BY DEF Init, Store!Init

(* A snapshot stores a content that was saved, in a version that has none.   *)
LEMMA StoreStep ==
  ASSUME Dialect = "postgres", RegistryInv, [Next]_vars
  PROVE  [Store!Next]_<<saved, snap>>
PROOF
<1>1. ASSUME NEW q \in Requests, Writes(q) PROVE [Store!Next]_<<saved, snap>>
  <2>1. req[q] # Idle /\ req[q] \in Busy
    BY <1>1, WritesMove, SoundRequest DEF RegistryInv
  <2>2. req[q].rule \in Rules /\ req[q].content \in Contents
    BY <2>1 DEF Busy
  <2>3. CASE CreateInsert(q) \/ SeedInsert(q)
    <3>1. Store!Save(req[q].rule, req[q].content)
      BY <2>3 DEF CreateInsert, SeedInsert, Insert, Store!Save
    <3>2. QED
      BY <2>2, <3>1 DEF Store!Next
  <2>4. CASE EditWrite(q)
    <3>1. CASE Exists(req[q].rule)
      <4>1. Store!Save(req[q].rule, req[q].content)
        BY <2>4, <3>1 DEF EditWrite, Store!Save
      <4>2. QED
        BY <2>2, <4>1 DEF Store!Next
    <3>2. CASE ~Exists(req[q].rule)
      BY <2>4, <3>2 DEF EditWrite, RegistryInv, TypeOK
    <3>3. QED
      BY <3>1, <3>2
  <2>5. CASE WriteSnapshot(q)
    <3> PICK r \in Rules : r = req[q].rule
      BY <2>2
    <3>1. req[q].step = "snapshot" /\ Published(q).version \in 1..MaxVersion /\ req[q].copy \in Rows
      BY <2>1, <2>5, PublishedVersion DEF WriteSnapshot, RegistryInv
    <3> PICK v \in 1..MaxVersion : v = Published(q).version
      BY <3>1
    <3> PICK c \in Contents : c = req[q].copy.content
      BY <3>1 DEF Rows
    <3>2. c \in saved[r]
      BY <2>1, <3>1, NoRowAssumption DEF RegistryInv, CopiesBacked, Backed
    <3>3. saved' = saved /\ snap' = [snap EXCEPT ![r][v] = InsertRow(snap[r][v], c)]
      BY <2>5 DEF WriteSnapshot, InsertSnapshot
    <3>4. snap \in [Rules -> [1..MaxVersion -> SUBSET Contents]]
      BY DEF RegistryInv, TypeOK
    <3>5. CASE snap[r][v] = {}
      <4>1. InsertRow(snap[r][v], c) = {c}
        BY <3>5 DEF InsertRow
      <4>2. Store!Publish(r, v, c)
        BY <3>2, <3>3, <3>5, <4>1 DEF Store!Publish
      <4>3. QED
        BY <4>2 DEF Store!Next
    <3>6. CASE snap[r][v] # {}
      <4>1. InsertRow(snap[r][v], c) = snap[r][v]
        BY <3>6 DEF InsertRow
      <4>2. snap' = snap
        BY <3>3, <3>4, <4>1
      <4>3. QED
        BY <3>3, <4>2
    <3>7. QED
      BY <3>5, <3>6
  <2>6. CASE TransitionWrite(q) \/ DeleteRow(q) \/ ApproveWrite(q) \/ ApproveReadBack(q) \/ SnapshotFails(q)
    BY <2>6 DEF TransitionWrite, DeleteRow, ApproveWrite, ApproveReadBack, SnapshotFails
  <2>7. QED
    BY <1>1, <2>3, <2>4, <2>5, <2>6 DEF Writes
<1>2. ASSUME NEW q \in Requests, Reads(q) PROVE [Store!Next]_<<saved, snap>>
  BY <1>2, ReadsMove DEF RegistryInv
<1>3. CASE UNCHANGED vars
  BY <1>3 DEF vars
<1>4. QED
  BY <1>1, <1>2, <1>3 DEF Next, Serve, Reads, Writes, Arrive

(* Where (rule_id, version) is unique, as in the Postgres store, the registry *)
(* is a write-once store of saved contents: what the materializer and the     *)
(* frozen versions of tables resolve never changes under them.                *)
THEOREM RegistryImplementsVersionStore ==
  ASSUME Dialect = "postgres"
  PROVE  Spec => ImplementsVersionStore
PROOF
<1>1. RegistryInv /\ [Next]_vars => [Store!Next]_<<saved, snap>>
  BY StoreStep
<1>2. QED
  BY <1>1, StoreInit, RegistryInvariant, PTL DEF Spec, ImplementsVersionStore, Store!Spec
=============================================================================
