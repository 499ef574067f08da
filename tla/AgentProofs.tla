------------------------------- MODULE AgentProofs -------------------------------
(***************************************************************************)
(* What the agent answers, for any clients, requests, logs, tokens, clock   *)
(* readings and failures, and for an int64 of any width.  The first part is *)
(* about the handlers as functions, of any request and any failures of the  *)
(* calls they make; the second is about the agent and its clients.          *)
(***************************************************************************)
EXTENDS Agent, TLAPS

\* An entry has one place in a tree.
Distinct(t) == \A m, n \in DOMAIN t : t[m].entry = t[n].entry => m = n

Succeeds(answer) == answer.status = 200
BlamesAgent(answer) == answer.status >= 500

\* An inclusion proof and a range of entries from the leaves t of a log.
ProofFrom(req, proof, t) ==
  /\ proof.index \in Nat /\ proof.size = req.size /\ proof.index < proof.size /\ proof.size <= Len(t)
  /\ req.op = "GetProofByHash" => t[proof.index + 1] = req.hash

EntriesFrom(req, entries, t) ==
  /\ req.start \in Nat /\ Len(entries) \in Nat /\ DOMAIN entries = 1 .. Len(entries)
  /\ Len(entries) \in 1 .. Min({maxRange, req.end - req.start + 1})
  /\ req.start + Len(entries) <= Len(t)
  /\ \A n \in DOMAIN entries : entries[n] = t[req.start + n]

\* The answer to a read of a log with the leaves t.
ReadOK(req, answer, t, rpc) ==
  /\ Succeeds(answer) =>
       /\ req.op \in {"GetProofByHash", "GetEntryAndProof"} =>
            req.alias \in Aliases /\ ProofFrom(req, answer.body.proof, t)
       /\ req.op = "GetEntries" => req.alias \in Aliases /\ EntriesFrom(req, answer.body.entries, t)
  /\ rpc = "OK" /\ BlamesAgent(answer) => Unservable(req, t)
  /\ rpc = "OK" /\ Servable(req, t) => Succeeds(answer)

-----------------------------------------------------------------------------
(* Arithmetic and sequences *)

\* A list of early returns is short: the least of some of its positions.
LEMMA LeastIndex ==
  ASSUME NEW S \in SUBSET (1 .. 9), S # {}
  PROVE  Min(S) \in S /\ \A y \in S : Min(S) <= y
  <1>1. ASSUME \A k \in 1 .. 9 : k \in S => \E j \in 1 .. k - 1 : j \in S PROVE FALSE
    <2>1. 1 \notin S
      BY <1>1
    <2>2. 2 \notin S /\ 3 \notin S /\ 4 \notin S
      BY <1>1, <2>1
    <2>3. 5 \notin S /\ 6 \notin S /\ 7 \notin S
      BY <1>1, <2>1, <2>2
    <2>4. 8 \notin S /\ 9 \notin S
      BY <1>1, <2>1, <2>2, <2>3
    <2>5. PICK x : x \in S
      BY Zenon
    <2> QED
      BY <2>1, <2>2, <2>3, <2>4, <2>5
  <1>2. \E z \in S : \A y \in S : z <= y
    BY <1>1
  <1> QED
    BY <1>2, Zenon DEF Min

\* A log keeps its leaves by sequence number, which counts from 0.
RowsOf(s) == {[seq |-> q - 1, id |-> s[q].entry] : q \in DOMAIN s}
BatchAfter(s, k, batch) == {[seq |-> Len(s) + i - 1, id |-> batch[i]] : i \in 1 .. k}
OldOrOfBatch(s, s2, k, batch, p) ==
  \/ p \in DOMAIN s /\ s2[p].entry = s[p].entry
  \/ \E i \in 1 .. k : p = Len(s) + i /\ s2[p].entry = batch[i]

\* A sequence number and its position.
LEMMA SamePosition == \A x, y, z \in Int : x - 1 = y + z - 1 => x = y + z
  OBVIOUS

\* What a log has after a batch was there or is of the batch.
LEMMA BatchEntries ==
  ASSUME NEW S, NEW s \in Seq(S), NEW s2 \in Seq(S), NEW k, NEW batch, NEW p \in DOMAIN s2,
         RowsOf(s2) = RowsOf(s) \cup BatchAfter(s, k, batch)
  PROVE  OldOrOfBatch(s, s2, k, batch, p)
  <1> DEFINE r == [seq |-> p - 1, id |-> s2[p].entry]
  <1>0. r \in RowsOf(s) \/ r \in BatchAfter(s, k, batch)
    <2>1. r \in RowsOf(s2)
      BY Zenon DEF RowsOf
    <2> QED
      BY <2>1, Zenon
  <1>1. CASE r \in RowsOf(s)
    <2>1. PICK q \in DOMAIN s : r = [seq |-> q - 1, id |-> s[q].entry]
      BY <1>1, Zenon DEF RowsOf
    <2>2. p - 1 = q - 1 /\ s2[p].entry = s[q].entry
      BY <2>1
    <2>3. p = q
      BY <2>2
    <2> QED
      BY <2>2, <2>3, Zenon DEF OldOrOfBatch
  <1>2. CASE r \in BatchAfter(s, k, batch)
    <2>1. PICK i \in 1 .. k : r = [seq |-> Len(s) + i - 1, id |-> batch[i]]
      BY <1>2, Zenon DEF BatchAfter
    <2>2. p - 1 = Len(s) + i - 1 /\ s2[p].entry = batch[i]
      BY <2>1
    <2>3. p \in Int /\ Len(s) \in Int /\ i \in Int
      OBVIOUS
    <2>4. p = Len(s) + i
      BY <2>2, <2>3, SamePosition, Zenon
    <2> QED
      BY <2>2, <2>4, Zenon DEF OldOrOfBatch
  <1> QED
    BY <1>0, <1>1, <1>2, Zenon

\* An index below a size is a position of any sequence that long.
LEMMA IndexInTree ==
  ASSUME NEW proof, proof.index \in Nat, proof.size \in Int, proof.index < proof.size,
         NEW l \in Nat, proof.size <= l, NEW l2 \in Nat, l <= l2
  PROVE  proof.index + 1 \in 1 .. l /\ proof.size <= l2
  OBVIOUS

\* A tree that a step leaves alone is as long as it was.
LEMMA NatLeqItself == \A n \in Nat : n <= n
  OBVIOUS

\* No entry has two places in the empty tree.
LEMMA EmptyIsDistinct == Distinct(<<>>)
  BY DEF Distinct

\* The smaller of two numbers, as InclusionProof and GetLeavesByRange take it.
LEMMA MinOfTwo ==
  ASSUME NEW x \in Int, NEW y \in Int
  PROVE  Min({x, y}) = IF x <= y THEN x ELSE y
  <1>1. CASE x <= y
    <2>1. \A z \in {x, y} : (\A w \in {x, y} : z =< w) <=> z = x
      BY <1>1
    <2> QED
      BY <1>1, <2>1 DEF Min
  <1>2. CASE ~(x <= y)
    <2>1. \A z \in {x, y} : (\A w \in {x, y} : z =< w) <=> z = y
      BY <1>2
    <2> QED
      BY <1>2, <2>1 DEF Min
  <1> QED
    BY <1>1, <1>2

\* A start that is not negative is itself.
LEMMA MaxWithZero ==
  ASSUME NEW x \in Nat
  PROVE  Max({x, 0}) = x
  <1>1. \A z \in {x, 0} : (\A w \in {x, 0} : z >= w) <=> z = x
    OBVIOUS
  <1> QED
    BY <1>1 DEF Max

\* SubSeq within a sequence.
LEMMA SubSeqOf ==
  ASSUME NEW S, NEW s \in Seq(S), NEW i \in 1 .. Len(s), NEW j \in i .. Len(s)
  PROVE  /\ SubSeq(s, i, j) \in Seq(S) /\ Len(SubSeq(s, i, j)) = j - i + 1
         /\ \A n \in 1 .. j - i + 1 : SubSeq(s, i, j)[n] = s[i + n - 1]
  OBVIOUS

\* Arithmetic on int64 stays within the integers.
LEMMA WrapIsInt ==
  ASSUME NEW x \in Int
  PROVE  Wrap(x) \in Int
  BY IntMaxAssumption DEF Wrap

\* An int64 that did not overflow is itself; one that did is off by its range.
LEMMA WrapCases ==
  ASSUME NEW x \in Int
  PROVE  /\ x \in -(IntMax + 1) .. IntMax => Wrap(x) = x
         /\ x \in IntMax + 1 .. 3 * IntMax + 2 => Wrap(x) = x - 2 * (IntMax + 1)
         /\ x \in -3 * (IntMax + 1) .. -(IntMax + 2) => Wrap(x) = x + 2 * (IntMax + 1)
  <1> DEFINE k == 2 * (IntMax + 1)
  <1>0. IntMax \in Nat /\ k \in Nat \ {0}
    BY IntMaxAssumption
  <1>1. ASSUME NEW y \in 0 .. k - 1 PROVE y % k = y
    BY <1>0
  <1>2. ASSUME NEW y \in k .. 2 * k - 1 PROVE y % k = y - k
    BY <1>0
  <1>3. ASSUME NEW y \in -k .. -1 PROVE y % k = y + k
    BY <1>0
  <1>4. Wrap(x) = ((x + IntMax + 1) % k) - (IntMax + 1)
    BY DEF Wrap
  <1>5. ASSUME x \in -(IntMax + 1) .. IntMax PROVE Wrap(x) = x
    <2>1. x + IntMax + 1 \in 0 .. k - 1
      BY <1>0, <1>5
    <2> HIDE DEF k
    <2>2. (x + IntMax + 1) % k = x + IntMax + 1
      BY <2>1, <1>1, Zenon
    <2> QED
      BY <1>0, <2>2, <1>4
  <1>6. ASSUME x \in IntMax + 1 .. 3 * IntMax + 2 PROVE Wrap(x) = x - k
    <2>1. x + IntMax + 1 \in k .. 2 * k - 1
      BY <1>0, <1>6
    <2> HIDE DEF k
    <2>2. (x + IntMax + 1) % k = (x + IntMax + 1) - k
      BY <2>1, <1>2, Zenon
    <2> QED
      BY <1>0, <2>2, <1>4
  <1>7. ASSUME x \in -3 * (IntMax + 1) .. -(IntMax + 2) PROVE Wrap(x) = x + k
    <2>1. x + IntMax + 1 \in -k .. -1
      BY <1>0, <1>7
    <2> HIDE DEF k
    <2>2. (x + IntMax + 1) % k = x + IntMax + 1 + k
      BY <2>1, <1>3, Zenon
    <2> QED
      BY <1>0, <2>2, <1>4
  <1> QED
    BY <1>5, <1>6, <1>7

\* The range that GetEntries asks of the log: when the length of the requested one
\* is an int64 it is that, cut to maxRange, although end + 1 may overflow; the one
\* longer range comes out with a negative count.
LEMMA RangeCount ==
  ASSUME NEW req, req.start \in 0 .. IntMax, req.end \in req.start .. IntMax
  PROVE  LET m == Min({maxRange, req.end - req.start + 1}) IN
         /\ GetEntriesRange(req).start = req.start
         /\ req.end - req.start + 1 # IntMax + 1 => GetEntriesRange(req).count = m /\ m \in 1 .. IntMax
         /\ req.end - req.start + 1 = IntMax + 1 => GetEntriesRange(req).count = -(IntMax + 1)
  <1> DEFINE asked == req.end - req.start + 1
             end == IF Wrap(req.end - req.start + 1) > maxRange THEN Wrap(req.start + maxRange - 1) ELSE req.end
  <1>0. IntMax \in Nat /\ maxRange \in Nat /\ 1 <= maxRange /\ maxRange <= IntMax /\ asked \in Int
    BY IntMaxAssumption, MaxRangeAssumption
  <1>1. /\ GetEntriesRange(req).start = req.start
        /\ GetEntriesRange(req).count = Wrap(Wrap(end + 1) - req.start)
    BY DEF GetEntriesRange
  <1>2. CASE asked = IntMax + 1
    <2>1. req.start = 0 /\ req.end = IntMax
      BY <1>0, <1>2
    <2>2. Wrap(req.end - req.start + 1) = -(IntMax + 1)
      BY <1>0, <2>1, WrapCases
    <2>3. end = req.end
      BY <1>0, <2>2
    <2>4. Wrap(end + 1) = -(IntMax + 1)
      BY <1>0, <2>1, <2>3, WrapCases
    <2>5. Wrap(Wrap(end + 1) - req.start) = -(IntMax + 1)
      BY <1>0, <2>1, <2>4, WrapCases
    <2> QED
      BY <1>0, <1>1, <1>2, <2>5
  <1>3. CASE asked # IntMax + 1
    <2>1. asked \in 1 .. IntMax /\ asked \in -(IntMax + 1) .. IntMax
      BY <1>0, <1>3
    <2>2. Wrap(req.end - req.start + 1) = asked
      BY <2>1, WrapCases
    <2>3. end = req.start + Min({maxRange, asked}) - 1 /\ Min({maxRange, asked}) \in 1 .. IntMax
      <3>1. Min({maxRange, asked}) = IF maxRange <= asked THEN maxRange ELSE asked
        BY <1>0, <2>1, MinOfTwo
      <3>2. CASE asked > maxRange
        <4>1. req.start + maxRange - 1 \in -(IntMax + 1) .. IntMax
          BY <1>0, <3>2
        <4>2. Wrap(req.start + maxRange - 1) = req.start + maxRange - 1
          BY <4>1, WrapCases
        <4> QED
          BY <1>0, <2>2, <3>1, <3>2, <4>2
      <3>3. CASE ~(asked > maxRange)
        BY <1>0, <2>1, <2>2, <3>1, <3>3
      <3> QED
        BY <3>2, <3>3
    <2> DEFINE m == Min({maxRange, asked})
    <2>4. m <= asked
      <3>1. m = IF maxRange <= asked THEN maxRange ELSE asked
        BY <1>0, <2>1, MinOfTwo
      <3> QED
        BY <1>0, <2>1, <3>1
    <2>5. end + 1 = req.start + m /\ m \in 1 .. IntMax
      BY <1>0, <2>3
    <2> HIDE DEF m, end
    <2>6. Wrap(Wrap(end + 1) - req.start) = m
      <3>1. CASE end + 1 <= IntMax
        <4>1. Wrap(end + 1) = req.start + m
          BY <1>0, <2>5, <3>1, WrapCases
        <4>2. Wrap(m) = m
          BY <1>0, <2>5, WrapCases
        <4> QED
          BY <1>0, <2>5, <4>1, <4>2
      <3>2. CASE ~(end + 1 <= IntMax)
        <4>1. end + 1 = IntMax + 1
          BY <1>0, <2>4, <2>5, <3>2
        <4>2. Wrap(end + 1) = -(IntMax + 1)
          BY <1>0, <4>1, WrapCases
        <4>3. -(IntMax + 1) - req.start = m - 2 * (IntMax + 1)
          BY <1>0, <2>5, <4>1
        <4>4. /\ m - 2 * (IntMax + 1) \in -3 * (IntMax + 1) .. -(IntMax + 2)
              /\ m - 2 * (IntMax + 1) \in Int /\ m - 2 * (IntMax + 1) + 2 * (IntMax + 1) = m
          BY <1>0, <2>5
        <4>5. Wrap(m - 2 * (IntMax + 1)) = m
          BY <4>4, WrapCases
        <4> QED
          BY <4>2, <4>3, <4>5
      <3> QED
        BY <3>1, <3>2
    <2> QED
      BY <1>1, <1>3, <2>5, <2>6 DEF m
  <1> QED
    BY <1>2, <1>3

\* The range that GetEntries asks of the log, if it is one, starts where the client
\* asked and has at most maxRange entries, none behind end.
THEOREM RangeIsWithin ==
  ASSUME NEW req, req.start \in 0 .. IntMax, req.end \in req.start .. IntMax,
         GetEntriesRange(req).count > 0
  PROVE  /\ GetEntriesRange(req).start = req.start
         /\ GetEntriesRange(req).count \in 1 .. Min({maxRange, req.end - req.start + 1})
  <1> DEFINE m == Min({maxRange, req.end - req.start + 1})
  <1>1. /\ GetEntriesRange(req).start = req.start
        /\ req.end - req.start + 1 # IntMax + 1 => GetEntriesRange(req).count = m /\ m \in 1 .. IntMax
        /\ req.end - req.start + 1 = IntMax + 1 => GetEntriesRange(req).count = -(IntMax + 1)
    BY RangeCount, Zenon
  <1> HIDE DEF m
  <1> QED
    BY <1>1, IntMaxAssumption DEF m

-----------------------------------------------------------------------------
(* The handlers *)

\* The errors that blame the client, and all.
ClientErrors ==
  {ErrValidation, ErrBadRequest, ErrNotFound, Unauthorized, RPCErr("InvalidArgument"), RPCErr("NotFound")}
Errors == ClientErrors \cup {ErrInternal, ServiceUnavailable} \cup {RPCErr(code) : code \in RPCResults}

ErrorAnswer(e) == [status |-> StatusCodeFromError(e), body |-> NoBody]

\* The errors of every early return are among Errors.
LEMMA ErrorsAre ==
  /\ {ErrValidation, ErrBadRequest, ErrNotFound, Unauthorized, RPCErr("InvalidArgument"),
      RPCErr("NotFound"), ErrInternal, ServiceUnavailable} \subseteq Errors
  /\ \A rpc \in RPCResults : RPCErr(rpc) \in Errors
  BY Zenon DEF Errors, ClientErrors

\* No error is sent with 200, and one of the client's with less than 500.
LEMMA ErrorStatus ==
  /\ \A e \in Errors : ~Succeeds(ErrorAnswer(e))
  /\ \A e \in ClientErrors : ~BlamesAgent(ErrorAnswer(e))
  <1>1. \A code : StatusCodeFromError(RPCErr(code)) # 200
    BY DEF StatusCodeFromError, RPCErr, statusCodeFromRPCError
  <1>2. /\ StatusCodeFromError(RPCErr("InvalidArgument")) = 400
        /\ StatusCodeFromError(RPCErr("NotFound")) = 404
    BY DEF StatusCodeFromError, RPCErr, statusCodeFromRPCError
  <1>3. /\ StatusCodeFromError(ErrValidation) = 400 /\ StatusCodeFromError(ErrBadRequest) = 400
        /\ StatusCodeFromError(ErrNotFound) = 404 /\ StatusCodeFromError(ErrInternal) = 500
        /\ StatusCodeFromError(Unauthorized) = 401 /\ StatusCodeFromError(ServiceUnavailable) = 503
    BY DEF StatusCodeFromError, StatusErr, ErrValidation, ErrBadRequest, ErrNotFound, ErrInternal,
      Unauthorized, ServiceUnavailable
  <1>4. ASSUME NEW e \in ClientErrors
        PROVE  ~Succeeds(ErrorAnswer(e)) /\ ~BlamesAgent(ErrorAnswer(e))
    BY <1>2, <1>3 DEF ClientErrors, Succeeds, BlamesAgent, ErrorAnswer
  <1>5. ASSUME NEW e \in Errors PROVE ~Succeeds(ErrorAnswer(e))
    <2>1. CASE e = ErrInternal \/ e = ServiceUnavailable
      BY <2>1, <1>3 DEF Succeeds, ErrorAnswer
    <2>2. \A code : ~Succeeds(ErrorAnswer(RPCErr(code)))
      BY <1>1 DEF Succeeds, ErrorAnswer
    <2> QED
      BY <2>2, <1>4, <2>1, Zenon DEF Errors
  <1> QED
    BY <1>4, <1>5, Zenon

\* Every error of a list is one, and the first to apply is the client's.
AllErrors(returns) == \A k \in DOMAIN returns : returns[k][2] \in Errors
ClientFirst(returns) ==
  \A k \in DOMAIN returns :
    returns[k][1] /\ (\A j \in DOMAIN returns : returns[j][1] => k <= j) => returns[k][2] \in ClientErrors

NoneApplies(returns) == \A k \in DOMAIN returns : ~returns[k][1]

\* A body is sent with 200 and exactly when no early return applies; no answer blames
\* the agent when the first error to apply is the client's.
LEMMA AnswerCases ==
  ASSUME NEW n \in 1 .. 9, NEW returns, DOMAIN returns = 1 .. n, AllErrors(returns), NEW body
  PROVE  /\ Succeeds(Answer(returns, body)) => NoneApplies(returns) /\ Answer(returns, body).body = body
         /\ ClientFirst(returns) => ~BlamesAgent(Answer(returns, body))
         /\ NoneApplies(returns) => Succeeds(Answer(returns, body))
  <1> DEFINE hit == {k \in DOMAIN returns : returns[k][1]}
  <1>1. CASE hit = {}
    <2>1. Answer(returns, body) = [status |-> 200, body |-> body]
      BY <1>1, Zenon DEF Answer
    <2>2. /\ Answer(returns, body).body = body /\ ~BlamesAgent(Answer(returns, body))
          /\ Succeeds(Answer(returns, body))
      BY <2>1 DEF BlamesAgent, Succeeds
    <2>3. NoneApplies(returns)
      BY <1>1, Zenon DEF NoneApplies
    <2> QED
      BY <2>2, <2>3
  <1>2. CASE hit # {}
    <2>1. hit \in SUBSET (1 .. 9)
      OBVIOUS
    <2>2. Min(hit) \in hit /\ \A y \in hit : Min(hit) <= y
      BY <1>2, <2>1, LeastIndex, Zenon
    <2> DEFINE k == Min(hit)
    <2>3. Answer(returns, body) = ErrorAnswer(returns[k][2])
      BY <1>2, Zenon DEF Answer, ErrorAnswer
    <2>4. k \in DOMAIN returns /\ returns[k][1] /\ \A j \in DOMAIN returns : returns[j][1] => k <= j
      BY <2>2, Zenon
    <2> HIDE DEF k
    <2>5. ~Succeeds(Answer(returns, body))
      BY <2>3, <2>4, ErrorStatus, Zenon DEF AllErrors
    <2>6. ClientFirst(returns) => returns[k][2] \in ClientErrors
      BY <2>4, Zenon DEF ClientFirst
    <2>7. ~NoneApplies(returns)
      BY <2>4, Zenon DEF NoneApplies
    <2> QED
      BY <2>3, <2>5, <2>6, <2>7, ErrorStatus, Zenon
  <1> QED
    BY <1>1, <1>2

\* Only a range of entries is Servable.
LEMMA OnlyRanges ==
  ASSUME NEW req, NEW t, req.op # "GetEntries"
  PROVE  ~Servable(req, t)
  BY Zenon DEF Servable

\* GetEntryAndProof looks at the index after it has compared the tree sizes, so the
\* proof is of the requested size and its internal error is never sent.
LEMMA EntryAndProofAnswer ==
  ASSUME NEW req, IsRead(req), req.op = "GetEntryAndProof", NEW L, NEW t \in Seq(L), NEW rpc \in RPCResults
  PROVE  ReadOK(req, GetEntryAndProof(req, t, rpc), t, rpc)
  <1>0. req.index \in Int /\ req.size \in Int
    BY DEF IsRead
  <1> DEFINE r == <<NotANumber(req.index), NotANumber(req.size),
                    <<GetEntryAndProofInvalid(req), ErrValidation>>,
                    NoLog(req.alias), NotPermitted(req.alias, "r"),
                    <<rpc # "OK", RPCErr(rpc)>>,
                    <<AheadOfLog(req, t), ErrBadRequest>>,
                    <<Len(t) <= req.index, ErrInternal>> >>
             body == [leaf |-> t[req.index + 1], proof |-> InclusionProof(req.index, req.size, t)]
  <1>1. DOMAIN r = 1 .. 8 /\ 8 \in 1 .. 9
    OBVIOUS
  <1>2. /\ r[3][1] <=> GetEntryAndProofInvalid(req)
        /\ r[4][1] <=> req.alias \notin DOMAIN Logs
        /\ r[6][1] <=> rpc # "OK"
        /\ r[7][1] <=> AheadOfLog(req, t)
        /\ r[8][1] <=> Len(t) <= req.index
    BY Zenon DEF NoLog
  <1>3. /\ r[1][2] = ErrValidation /\ r[2][2] = ErrValidation /\ r[3][2] = ErrValidation
        /\ r[4][2] = ErrNotFound /\ r[5][2] = Unauthorized /\ r[6][2] = RPCErr(rpc)
        /\ r[7][2] = ErrBadRequest /\ r[8][2] = ErrInternal
    BY DEF NotANumber, NoLog, NotPermitted
  <1>4. GetEntryAndProof(req, t, rpc) = Answer(r, body)
    BY DEF GetEntryAndProof
  <1>5. body.proof = InclusionProof(req.index, req.size, t)
    OBVIOUS
  <1> HIDE DEF r, body
  <1>6. AllErrors(r)
    <2>1. /\ r[1][2] \in Errors /\ r[2][2] \in Errors /\ r[3][2] \in Errors /\ r[4][2] \in Errors
          /\ r[5][2] \in Errors /\ r[6][2] \in Errors /\ r[7][2] \in Errors /\ r[8][2] \in Errors
      BY <1>3, ErrorsAre, Zenon
    <2> QED
      BY <1>1, <2>1 DEF AllErrors
  <1>7. ASSUME NoneApplies(r)
        PROVE  req.alias \in Aliases /\ ProofFrom(req, body.proof, t)
    <2>1. ~r[3][1] /\ ~r[4][1] /\ ~r[7][1]
      BY <1>1, <1>7 DEF NoneApplies
    <2>2. ~GetEntryAndProofInvalid(req) /\ req.alias \in Aliases /\ ~AheadOfLog(req, t)
      BY <1>2, <2>1, Zenon DEF Aliases
    <2>3. 0 <= req.index /\ req.index < req.size /\ req.size <= Len(t)
      BY <1>0, <2>2 DEF GetEntryAndProofInvalid, AheadOfLog
    <2>4. Min({req.size, Len(t)}) = req.size
      BY <1>0, <2>3, MinOfTwo
    <2> QED
      BY <1>0, <1>5, <2>2, <2>3, <2>4 DEF InclusionProof, ProofFrom
  <1>8. ASSUME rpc = "OK" PROVE ClientFirst(r)
    <2>1. ASSUME NEW k \in 1 .. 8, r[k][1], \A j \in 1 .. 8 : r[j][1] => k <= j
          PROVE  r[k][2] \in ClientErrors
      <3>1. r[8][1] => r[3][1] \/ r[7][1]
        <4>1. Len(t) <= req.index => GetEntryAndProofInvalid(req) \/ AheadOfLog(req, t)
          BY <1>0 DEF GetEntryAndProofInvalid, AheadOfLog
        <4> QED
          BY <1>2, <4>1, Zenon
      <3>2. ~r[6][1]
        BY <1>2, <1>8, Zenon
      <3>3. k # 8 /\ k # 6
        BY <2>1, <3>1, <3>2
      <3> QED
        BY <3>3, <1>3 DEF ClientErrors
    <2> QED
      BY <1>1, <2>1, Zenon DEF ClientFirst
  <1>9. /\ Succeeds(Answer(r, body)) => NoneApplies(r) /\ Answer(r, body).body = body
        /\ ClientFirst(r) => ~BlamesAgent(Answer(r, body))
    BY <1>1, <1>6, AnswerCases, Zenon
  <1>10. ~Servable(req, t)
    BY OnlyRanges
  <1> QED
    BY <1>4, <1>7, <1>8, <1>9, <1>10, Zenon DEF ReadOK

\* GetProofByHash finds the position among the first size leaves; an unknown hash
\* is the client's error.
LEMMA ProofByHashAnswer ==
  ASSUME NEW req, IsRead(req), req.op = "GetProofByHash", NEW L, NEW t \in Seq(L), Distinct(t),
         NEW rpc \in RPCResults
  PROVE  ReadOK(req, GetProofByHash(req, t, rpc), t, rpc)
  <1>0. req.size \in Int
    BY DEF IsRead
  <1> DEFINE at == {n \in Positions(req.hash, t) : n < req.size}
             r == <<NotANumber(req.size), <<req.size < 1, ErrValidation>>,
                    NoLog(req.alias), NotPermitted(req.alias, "r"),
                    <<req.hash = NotBase64, ErrBadRequest>>,
                    <<rpc # "OK", RPCErr(rpc)>>,
                    <<Positions(req.hash, t) = {}, RPCErr("NotFound")>>,
                    <<AheadOfLog(req, t), ErrNotFound>>,
                    <<at = {}, ErrNotFound>> >>
             body == [proof |-> InclusionProof(Min(at), req.size, t)]
  <1>1. DOMAIN r = 1 .. 9 /\ 9 \in 1 .. 9
    OBVIOUS
  <1>2. /\ r[3][1] <=> req.alias \notin DOMAIN Logs
        /\ r[6][1] <=> rpc # "OK"
        /\ r[8][1] <=> AheadOfLog(req, t)
        /\ r[9][1] <=> at = {}
    BY Zenon DEF NoLog
  <1>3. /\ r[1][2] = ErrValidation /\ r[2][2] = ErrValidation /\ r[3][2] = ErrNotFound
        /\ r[4][2] = Unauthorized /\ r[5][2] = ErrBadRequest /\ r[6][2] = RPCErr(rpc)
        /\ r[7][2] = RPCErr("NotFound") /\ r[8][2] = ErrNotFound /\ r[9][2] = ErrNotFound
    BY DEF NotANumber, NoLog, NotPermitted
  <1>4. GetProofByHash(req, t, rpc) = Answer(r, body)
    BY DEF GetProofByHash
  <1>5. body.proof = InclusionProof(Min(at), req.size, t)
    OBVIOUS
  <1> HIDE DEF r, body
  <1>6. AllErrors(r)
    <2>1. /\ r[1][2] \in Errors /\ r[2][2] \in Errors /\ r[3][2] \in Errors /\ r[4][2] \in Errors
          /\ r[5][2] \in Errors /\ r[6][2] \in Errors /\ r[7][2] \in Errors /\ r[8][2] \in Errors /\ r[9][2] \in Errors
      BY <1>3, ErrorsAre, Zenon
    <2> QED
      BY <1>1, <2>1 DEF AllErrors
  <1>7. ASSUME NoneApplies(r)
        PROVE  req.alias \in Aliases /\ ProofFrom(req, body.proof, t)
    <2>1. ~r[3][1] /\ ~r[8][1] /\ ~r[9][1]
      BY <1>1, <1>7 DEF NoneApplies
    <2>2. req.alias \in Aliases /\ ~AheadOfLog(req, t) /\ at # {}
      BY <1>2, <2>1, Zenon DEF Aliases
    <2>3. \A m, n \in at : m = n /\ n \in Int
      BY DEF Positions, Distinct
    <2>4. Min(at) \in at
      <3>1. PICK n \in at : at = {n}
        BY <2>2, <2>3
      <3>2. \A z \in at : n <= z
        BY <2>3
      <3> HIDE DEF at
      <3> QED
        BY <3>1, <3>2 DEF Min
    <2>5. Min(at) \in Nat /\ Min(at) < req.size /\ t[Min(at) + 1] = req.hash
      <3>1. \A n \in at : n \in Nat /\ n < req.size /\ t[n + 1] = req.hash
        BY DEF Positions
      <3> QED
        BY <2>4, <3>1, Zenon
    <2>6. req.size <= Len(t)
      BY <1>0, <2>2 DEF AheadOfLog
    <2>7. Min({req.size, Len(t)}) = req.size
      BY <1>0, <2>6, MinOfTwo
    <2> HIDE DEF at
    <2>8. body.proof.index = Min(at) /\ body.proof.size = req.size
      BY <1>5, <2>7 DEF InclusionProof
    <2> QED
      BY <2>2, <2>5, <2>6, <2>8 DEF ProofFrom
  <1>8. ASSUME rpc = "OK" PROVE ClientFirst(r)
    <2>1. ASSUME NEW k \in 1 .. 9, r[k][1]
          PROVE  r[k][2] \in ClientErrors
      <3>1. k # 6
        BY <2>1, <1>2, <1>8, Zenon
      <3> QED
        BY <3>1, <1>3 DEF ClientErrors
    <2> QED
      BY <1>1, <2>1, Zenon DEF ClientFirst
  <1>9. /\ Succeeds(Answer(r, body)) => NoneApplies(r) /\ Answer(r, body).body = body
        /\ ClientFirst(r) => ~BlamesAgent(Answer(r, body))
    BY <1>1, <1>6, AnswerCases, Zenon
  <1>10. ~Servable(req, t)
    BY OnlyRanges
  <1> QED
    BY <1>4, <1>7, <1>8, <1>9, <1>10, Zenon DEF ReadOK

\* GetEntries answers with leaves of the log from start on, at most maxRange of
\* them and none behind end, whatever the arithmetic of the range does; it refuses
\* no range that is Servable, and blames itself for one that starts behind the log.
LEMMA EntriesAnswer ==
  ASSUME NEW req, IsRead(req), req.op = "GetEntries", NEW L, NEW t \in Seq(L), NEW rpc \in RPCResults
  PROVE  ReadOK(req, GetEntries(req, t, rpc), t, rpc)
  <1>0. req.start \in Int /\ req.end \in Int
    BY DEF IsRead
  <1> DEFINE range == GetEntriesRange(req)
             leaves == GetLeavesByRange(range, t)
             r == <<NotANumber(req.start), NotANumber(req.end), <<GetEntriesInvalid(req), ErrValidation>>,
                    NoLog(req.alias), NotPermitted(req.alias, "r"),
                    <<rpc # "OK", RPCErr(rpc)>>,
                    <<range.count <= 0, RPCErr("InvalidArgument")>>,
                    <<Len(t) <= req.start, ErrInternal>>,
                    <<Len(leaves) > range.count, ErrInternal>> >>
             body == [entries |-> leaves]
  <1>1. DOMAIN r = 1 .. 9 /\ 9 \in 1 .. 9
    OBVIOUS
  <1>2. /\ r[1][1] <=> req.start > IntMax
        /\ r[2][1] <=> req.end > IntMax
        /\ r[3][1] <=> GetEntriesInvalid(req)
        /\ r[4][1] <=> req.alias \notin DOMAIN Logs
        /\ r[5][1] <=> req.alias \in DOMAIN Logs /\ "r" \notin Logs[req.alias].perm
        /\ r[6][1] <=> rpc # "OK"
        /\ r[7][1] <=> range.count <= 0
        /\ r[8][1] <=> Len(t) <= req.start
        /\ r[9][1] <=> Len(leaves) > range.count
    BY Zenon DEF NoLog, NotANumber, NotPermitted
  <1>3. /\ r[1][2] = ErrValidation /\ r[2][2] = ErrValidation /\ r[3][2] = ErrValidation
        /\ r[4][2] = ErrNotFound /\ r[5][2] = Unauthorized /\ r[6][2] = RPCErr(rpc)
        /\ r[7][2] = RPCErr("InvalidArgument") /\ r[8][2] = ErrInternal /\ r[9][2] = ErrInternal
    BY DEF NotANumber, NoLog, NotPermitted
  <1>4. GetEntries(req, t, rpc) = Answer(r, body)
    BY DEF GetEntries
  <1>5. body.entries = leaves
    OBVIOUS
  <1> HIDE DEF r, body
  <1>6. AllErrors(r)
    <2>1. /\ r[1][2] \in Errors /\ r[2][2] \in Errors /\ r[3][2] \in Errors /\ r[4][2] \in Errors
          /\ r[5][2] \in Errors /\ r[6][2] \in Errors /\ r[7][2] \in Errors /\ r[8][2] \in Errors /\ r[9][2] \in Errors
      BY <1>3, ErrorsAre, Zenon
    <2> QED
      BY <1>1, <2>1 DEF AllErrors
  <1>7. ASSUME ~r[1][1], ~r[2][1], ~r[3][1], ~r[4][1], ~r[7][1], ~r[8][1]
        PROVE  req.alias \in Aliases /\ EntriesFrom(req, leaves, t) /\ ~r[9][1]
    <2>2. /\ ~(req.start > IntMax) /\ ~(req.end > IntMax) /\ ~GetEntriesInvalid(req)
          /\ req.alias \in Aliases /\ ~(range.count <= 0) /\ ~(Len(t) <= req.start)
      BY <1>2, <1>7, Zenon DEF Aliases
    <2>3. req.start \in 0 .. IntMax /\ req.end \in req.start .. IntMax /\ req.start \in Nat
      BY <1>0, <2>2, IntMaxAssumption DEF GetEntriesInvalid
    <2>4. range.count \in Int
      <3> DEFINE end == IF Wrap(req.end - req.start + 1) > maxRange THEN Wrap(req.start + maxRange - 1)
                        ELSE req.end
      <3>1. range.count = Wrap(Wrap(end + 1) - req.start)
        BY DEF GetEntriesRange
      <3>2. req.start + maxRange - 1 \in Int
        BY <1>0, MaxRangeAssumption
      <3>3. end \in Int
        BY <1>0, <3>2, WrapIsInt, Zenon
      <3> HIDE DEF end
      <3>4. end + 1 \in Int
        BY <3>3
      <3>5. Wrap(end + 1) \in Int
        BY <3>4, WrapIsInt, Zenon
      <3>6. Wrap(end + 1) - req.start \in Int
        BY <1>0, <3>5
      <3> QED
        BY <3>1, <3>6, WrapIsInt, Zenon
    <2>5. range.count > 0
      BY <2>2, <2>4
    <2> DEFINE m == Min({maxRange, req.end - req.start + 1})
    <2>6. range.start = req.start /\ range.count \in 1 .. m
      BY <2>3, <2>5, RangeIsWithin, Zenon
    <2>7. m \in Int
      <3>1. maxRange \in Int /\ req.end - req.start + 1 \in Int
        BY <1>0, MaxRangeAssumption
      <3> QED
        BY <3>1, MinOfTwo
    <2> DEFINE j == Min({req.start + range.count, Len(t)})
    <2>8. j = IF req.start + range.count <= Len(t) THEN req.start + range.count ELSE Len(t)
      BY <2>4, <2>3, MinOfTwo
    <2>9. leaves = SubSeq(t, req.start + 1, j)
      BY <2>6, <2>3, MaxWithZero, Zenon DEF GetLeavesByRange
    <2> HIDE DEF leaves, range, m
    <2>10. /\ j \in req.start + 1 .. Len(t) /\ j - req.start <= range.count
           /\ req.start + 1 \in 1 .. Len(t)
      <3>1. ASSUME NEW s \in Nat, NEW k \in Int, NEW n \in Nat, k > 0, s < n,
                   NEW x, x = IF s + k <= n THEN s + k ELSE n
            PROVE  x \in s + 1 .. n /\ x - s <= k /\ s + 1 \in 1 .. n
        BY <3>1
      <3>2. req.start < Len(t) /\ Len(t) \in Nat
        BY <2>2, <2>3
      <3> HIDE DEF j
      <3> QED
        BY <2>3, <2>4, <2>5, <2>8, <3>1, <3>2, Zenon
    <2> HIDE DEF j
    <2>11. /\ leaves \in Seq(L) /\ Len(leaves) = j - req.start
           /\ \A n \in 1 .. Len(leaves) : leaves[n] = t[req.start + n]
      <3>1. /\ SubSeq(t, req.start + 1, j) \in Seq(L)
            /\ Len(SubSeq(t, req.start + 1, j)) = j - (req.start + 1) + 1
            /\ \A n \in 1 .. j - (req.start + 1) + 1 :
                 SubSeq(t, req.start + 1, j)[n] = t[(req.start + 1) + n - 1]
        BY <2>10, SubSeqOf, Zenon
      <3>2. j \in Int /\ j - (req.start + 1) + 1 = j - req.start
        BY <2>3, <2>10
      <3>3. \A n \in Int : (req.start + 1) + n - 1 = req.start + n
        BY <2>3
      <3>4. /\ leaves \in Seq(L) /\ Len(leaves) = j - req.start
            /\ \A n \in 1 .. j - req.start : leaves[n] = t[(req.start + 1) + n - 1]
        BY <2>9, <3>1, <3>2, Zenon
      <3>5. \A n \in 1 .. j - req.start : t[(req.start + 1) + n - 1] = t[req.start + n]
        <4>1. \A n \in 1 .. j - req.start : n \in Int
          OBVIOUS
        <4> QED
          BY <3>3, <4>1, Zenon
      <3> QED
        BY <3>4, <3>5, Zenon
    <2>12. Len(leaves) \in 1 .. m /\ req.start + Len(leaves) <= Len(t)
      BY <2>3, <2>4, <2>6, <2>7, <2>10, <2>11
    <2>13. Len(leaves) \in Nat /\ DOMAIN leaves = 1 .. Len(leaves)
      BY <2>11
    <2>14. ~(Len(leaves) > range.count)
      BY <2>3, <2>4, <2>10, <2>11
    <2> QED
      BY <1>2, <2>2, <2>3, <2>11, <2>12, <2>13, <2>14, Zenon DEF m, EntriesFrom
  <1> HIDE DEF leaves, range
  <1>8. ASSUME NoneApplies(r)
        PROVE  req.alias \in Aliases /\ EntriesFrom(req, leaves, t)
    <2>1. ~r[1][1] /\ ~r[2][1] /\ ~r[3][1] /\ ~r[4][1] /\ ~r[7][1] /\ ~r[8][1]
      BY <1>1, <1>8 DEF NoneApplies
    <2> QED
      BY <1>7, <2>1, Zenon
  <1>9. ASSUME rpc = "OK", ~(Len(t) <= req.start) PROVE ClientFirst(r)
    <2>1. ASSUME NEW k \in 1 .. 9, r[k][1], \A j \in 1 .. 9 : r[j][1] => k <= j
          PROVE  r[k][2] \in ClientErrors
      <3>1. ~r[6][1] /\ ~r[8][1]
        BY <1>2, <1>9, Zenon
      <3>2. k # 9
        <4>1. SUFFICES ASSUME k = 9 PROVE FALSE
          OBVIOUS
        <4>2. ~r[1][1] /\ ~r[2][1] /\ ~r[3][1] /\ ~r[4][1] /\ ~r[7][1]
          BY <2>1, <4>1
        <4> QED
          BY <1>7, <2>1, <3>1, <4>1, <4>2, Zenon
      <3>3. k # 6 /\ k # 8
        BY <2>1, <3>1
      <3> QED
        BY <3>2, <3>3, <1>3 DEF ClientErrors
    <2> QED
      BY <1>1, <2>1, Zenon DEF ClientFirst
  <1>10. ASSUME rpc = "OK", Servable(req, t) PROVE NoneApplies(r)
    <2>1. /\ req.alias \in Aliases /\ "r" \in Logs[req.alias].perm
          /\ req.start >= 0 /\ req.end <= IntMax /\ req.end - req.start \in 0 .. IntMax - 1
          /\ req.start < Len(t)
      BY <1>10, Zenon DEF Servable
    <2>2. /\ req.start \in 0 .. IntMax /\ req.end \in req.start .. IntMax
          /\ req.end - req.start + 1 # IntMax + 1
      BY <1>0, <2>1, IntMaxAssumption
    <2>3. range.count \in 1 .. IntMax
      BY <2>2, RangeCount, Zenon DEF range
    <2>4. ~(req.start > IntMax) /\ ~(req.end > IntMax) /\ ~GetEntriesInvalid(req)
      BY <1>0, <2>2, IntMaxAssumption DEF GetEntriesInvalid
    <2>5. ~(range.count <= 0) /\ ~(Len(t) <= req.start)
      BY <1>0, <2>1, <2>3, IntMaxAssumption
    <2>6. /\ ~r[1][1] /\ ~r[2][1] /\ ~r[3][1] /\ ~r[4][1] /\ ~r[5][1] /\ ~r[6][1]
          /\ ~r[7][1] /\ ~r[8][1]
      BY <1>2, <1>10, <2>1, <2>4, <2>5, Zenon DEF Aliases
    <2>7. ~r[9][1]
      BY <1>7, <2>6, Zenon
    <2>8. ASSUME NEW k \in 1 .. 9 PROVE ~r[k][1]
      BY <2>6, <2>7
    <2> QED
      BY <1>1, <2>8, Zenon DEF NoneApplies
  <1>11. /\ Succeeds(Answer(r, body)) => NoneApplies(r) /\ Answer(r, body).body = body
         /\ ClientFirst(r) => ~BlamesAgent(Answer(r, body))
         /\ NoneApplies(r) => Succeeds(Answer(r, body))
    BY <1>1, <1>6, AnswerCases, Zenon
  <1>12. Len(t) <= req.start => Unservable(req, t)
    BY Zenon DEF Unservable
  <1> QED
    BY <1>4, <1>5, <1>8, <1>9, <1>10, <1>11, <1>12, Zenon DEF ReadOK

\* GetSTH blames itself for an alias that is not decoded.
LEMMA STHAnswer ==
  ASSUME NEW req, NEW t, req.alias \notin NotJSON
  PROVE  ~BlamesAgent(GetSTH(req, t, "OK"))
  <1> DEFINE r == <<NotDecoded(req.alias), NoLog(req.alias), NotPermitted(req.alias, "r"),
                    <<"OK" # "OK", RPCErr("OK")>> >>
             body == [treeSize |-> Len(t), root |-> t]
  <1>1. DOMAIN r = 1 .. 4 /\ 4 \in 1 .. 9
    OBVIOUS
  <1>2. (r[1][1] <=> req.alias \in NotJSON) /\ ~r[4][1]
    BY Zenon DEF NotDecoded
  <1>3. r[1][2] = ErrInternal /\ r[2][2] = ErrNotFound /\ r[3][2] = Unauthorized /\ r[4][2] = RPCErr("OK")
    BY DEF NotDecoded, NoLog, NotPermitted
  <1>4. GetSTH(req, t, "OK") = Answer(r, body)
    BY DEF GetSTH
  <1> HIDE DEF r, body
  <1>5. AllErrors(r)
    <2>1. r[1][2] \in Errors /\ r[2][2] \in Errors /\ r[3][2] \in Errors /\ r[4][2] \in Errors
      BY <1>3, ErrorsAre, Zenon DEF RPCResults
    <2> QED
      BY <1>1, <2>1 DEF AllErrors
  <1>6. ClientFirst(r)
    <2>1. ASSUME NEW k \in 1 .. 4, r[k][1] PROVE r[k][2] \in ClientErrors
      <3>1. k # 1 /\ k # 4
        BY <2>1, <1>2, Zenon
      <3> QED
        BY <3>1, <1>3 DEF ClientErrors
    <2> QED
      BY <1>1, <2>1, Zenon DEF ClientFirst
  <1>7. ~BlamesAgent(Answer(r, body))
    BY <1>1, <1>5, <1>6, AnswerCases, Zenon
  <1> QED
    BY <1>4, <1>7, Zenon

\* So does GetIssuers.
LEMMA IssuersAnswer ==
  ASSUME NEW req, req.alias \notin NotJSON
  PROVE  ~BlamesAgent(GetIssuers(req))
  <1> DEFINE r == <<NotDecoded(req.alias), NoLog(req.alias), NotPermitted(req.alias, "r")>>
             body == [issuers |-> Logs[req.alias].issuers]
  <1>1. DOMAIN r = 1 .. 3 /\ 3 \in 1 .. 9
    OBVIOUS
  <1>2. r[1][1] <=> req.alias \in NotJSON
    BY Zenon DEF NotDecoded
  <1>3. r[1][2] = ErrInternal /\ r[2][2] = ErrNotFound /\ r[3][2] = Unauthorized
    BY DEF NotDecoded, NoLog, NotPermitted
  <1>4. GetIssuers(req) = Answer(r, body)
    BY DEF GetIssuers
  <1> HIDE DEF r, body
  <1>5. AllErrors(r)
    <2>1. r[1][2] \in Errors /\ r[2][2] \in Errors /\ r[3][2] \in Errors
      BY <1>3, ErrorsAre, Zenon
    <2> QED
      BY <1>1, <2>1 DEF AllErrors
  <1>6. ClientFirst(r)
    <2>1. ASSUME NEW k \in 1 .. 3, r[k][1] PROVE r[k][2] \in ClientErrors
      <3>1. k # 1
        BY <2>1, <1>2, Zenon
      <3> QED
        BY <3>1, <1>3 DEF ClientErrors
    <2> QED
      BY <1>1, <2>1, Zenon DEF ClientFirst
  <1>7. ~BlamesAgent(Answer(r, body))
    BY <1>1, <1>5, <1>6, AnswerCases, Zenon
  <1> QED
    BY <1>4, <1>7, Zenon

\* And Webfinger for the name of a ledger.
LEMMA WebfingerAnswer ==
  ASSUME NEW req, req.resource.ledger \notin NotJSON
  PROVE  ~BlamesAgent(Webfinger(req))
  <1> DEFINE r == <<NotDecoded(req.resource.ledger),
                    <<req.resource.host = NotAURI, ErrBadRequest>>,
                    <<req.resource.host # "self", ErrNotFound>>,
                    <<req.resource.ledger \notin DOMAIN Logs, ErrNotFound>> >>
             body == [subject |-> req.resource]
  <1>1. DOMAIN r = 1 .. 4 /\ 4 \in 1 .. 9
    OBVIOUS
  <1>2. r[1][1] <=> req.resource.ledger \in NotJSON
    BY Zenon DEF NotDecoded
  <1>3. r[1][2] = ErrInternal /\ r[2][2] = ErrBadRequest /\ r[3][2] = ErrNotFound /\ r[4][2] = ErrNotFound
    BY DEF NotDecoded
  <1>4. Webfinger(req) = Answer(r, body)
    BY DEF Webfinger
  <1> HIDE DEF r, body
  <1>5. AllErrors(r)
    <2>1. r[1][2] \in Errors /\ r[2][2] \in Errors /\ r[3][2] \in Errors /\ r[4][2] \in Errors
      BY <1>3, ErrorsAre, Zenon
    <2> QED
      BY <1>1, <2>1 DEF AllErrors
  <1>6. ClientFirst(r)
    <2>1. ASSUME NEW k \in 1 .. 4, r[k][1] PROVE r[k][2] \in ClientErrors
      <3>1. k # 1
        BY <2>1, <1>2, Zenon
      <3> QED
        BY <3>1, <1>3 DEF ClientErrors
    <2> QED
      BY <1>1, <2>1, Zenon DEF ClientFirst
  <1>7. ~BlamesAgent(Answer(r, body))
    BY <1>1, <1>5, <1>6, AnswerCases, Zenon
  <1> QED
    BY <1>4, <1>7, Zenon

\* When no call fails, the other reads blame nobody but the client.
LEMMA OtherAnswers ==
  ASSUME NEW req, NEW t
  PROVE  /\ ~BlamesAgent(GetSTHConsistency(req, t, "OK"))
         /\ ~BlamesAgent(HealthCheck(TRUE, TRUE))
  <1>1. ~BlamesAgent(GetSTHConsistency(req, t, "OK"))
    <2> DEFINE asked == req.first # 0
               r == <<NotANumber(req.first), NotANumber(req.second),
                      <<GetSTHConsistencyInvalid(req), ErrValidation>>,
                      NoLog(req.alias), NotPermitted(req.alias, "r"),
                      <<asked /\ "OK" # "OK", RPCErr("OK")>>,
                      <<asked /\ Len(t) < req.second, ErrValidation>> >>
               body == [hashes |-> IF asked THEN <<req.first, req.second>> ELSE <<>>]
    <2>1. DOMAIN r = 1 .. 7 /\ 7 \in 1 .. 9
      OBVIOUS
    <2>2. ~r[6][1]
      BY Zenon
    <2>3. /\ r[1][2] = ErrValidation /\ r[2][2] = ErrValidation /\ r[3][2] = ErrValidation
          /\ r[4][2] = ErrNotFound /\ r[5][2] = Unauthorized /\ r[6][2] = RPCErr("OK")
          /\ r[7][2] = ErrValidation
      BY DEF NotANumber, NoLog, NotPermitted
    <2>4. GetSTHConsistency(req, t, "OK") = Answer(r, body)
      BY DEF GetSTHConsistency
    <2> HIDE DEF r, body
    <2>5. AllErrors(r)
      <3>1. /\ r[1][2] \in Errors /\ r[2][2] \in Errors /\ r[3][2] \in Errors /\ r[4][2] \in Errors
            /\ r[5][2] \in Errors /\ r[6][2] \in Errors /\ r[7][2] \in Errors
        BY <2>3, ErrorsAre, Zenon DEF RPCResults
      <3> QED
        BY <2>1, <3>1 DEF AllErrors
    <2>6. ClientFirst(r)
      <3>1. ASSUME NEW k \in 1 .. 7, r[k][1] PROVE r[k][2] \in ClientErrors
        <4>1. k # 6
          BY <3>1, <2>2, Zenon
        <4> QED
          BY <4>1, <2>3 DEF ClientErrors
      <3> QED
        BY <2>1, <3>1, Zenon DEF ClientFirst
    <2>7. ~BlamesAgent(Answer(r, body))
      BY <2>1, <2>5, <2>6, AnswerCases, Zenon
    <2> QED
      BY <2>4, <2>7, Zenon
  <1>2. ~BlamesAgent(HealthCheck(TRUE, TRUE))
    <2> DEFINE r == << <<~TRUE \/ ~TRUE, ServiceUnavailable>> >>
    <2>1. DOMAIN r = 1 .. 1 /\ 1 \in 1 .. 9
      OBVIOUS
    <2>2. ~r[1][1] /\ r[1][2] = ServiceUnavailable
      BY Zenon
    <2>3. HealthCheck(TRUE, TRUE) = Answer(r, NoBody)
      BY DEF HealthCheck
    <2> HIDE DEF r
    <2>4. \A k \in DOMAIN r : k = 1
      BY <2>1
    <2>5. AllErrors(r) /\ ClientFirst(r)
      BY <2>2, <2>4, ErrorsAre, Zenon DEF AllErrors, ClientFirst
    <2>6. ~BlamesAgent(Answer(r, NoBody))
      BY <2>1, <2>5, AnswerCases, Zenon
    <2> QED
      BY <2>3, <2>6, Zenon
  <1> QED
    BY <1>1, <1>2, Zenon

\* AddVC goes on to queue a leaf only for a log that may be written, a credential
\* that parses and an issuer that is listed.  For a log of the agent it blames
\* itself only when a step fails for the credential: the log has a loader.
LEMMA AddVCChecks ==
  ASSUME NEW req
  PROVE  LET refused == Answer(AddVCReturns(req), NoBody) IN
         /\ Succeeds(refused) =>
              /\ req.alias \in Aliases /\ "w" \in Logs[req.alias].perm
              /\ "ParseCredential" \notin req.vc.fails /\ ~IssuerUnlisted(req.alias, req.vc)
         /\ BlamesAgent(refused) => {"CreateLeaf", "MarshalCanonical"} \cap req.vc.fails # {}
  <1> DEFINE r == AddVCReturns(req)
  <1>1. DOMAIN r = 1 .. 7 /\ 7 \in 1 .. 9
    BY DEF AddVCReturns
  <1>2. /\ r[1][1] <=> req.alias \notin DOMAIN Logs
        /\ r[2][1] <=> req.alias \in DOMAIN Logs /\ "w" \notin Logs[req.alias].perm
        /\ r[3][1] <=> req.alias \notin Loaders
        /\ r[4][1] <=> "ParseCredential" \in req.vc.fails
        /\ r[5][1] <=> req.alias \in DOMAIN Logs /\ IssuerUnlisted(req.alias, req.vc)
        /\ r[6][1] <=> "CreateLeaf" \in req.vc.fails
        /\ r[7][1] <=> "MarshalCanonical" \in req.vc.fails
    BY Zenon DEF AddVCReturns, NoLog, NotPermitted, Fails
  <1>3. /\ r[1][2] = ErrNotFound /\ r[2][2] = Unauthorized /\ r[3][2] = NoCode /\ r[4][2] = ErrBadRequest
        /\ r[5][2] = ErrBadRequest /\ r[6][2] = NoCode /\ r[7][2] = ErrInternal
    BY DEF AddVCReturns, NoLog, NotPermitted, Fails
  <1>4. NoCode = ErrInternal
    BY DEF NoCode, ErrInternal
  <1> HIDE DEF r
  <1>5. AllErrors(r)
    <2>1. /\ r[1][2] \in Errors /\ r[2][2] \in Errors /\ r[3][2] \in Errors /\ r[4][2] \in Errors
          /\ r[5][2] \in Errors /\ r[6][2] \in Errors /\ r[7][2] \in Errors
      BY <1>3, <1>4, ErrorsAre, Zenon
    <2> QED
      BY <1>1, <2>1 DEF AllErrors
  <1>6. ASSUME NoneApplies(r)
        PROVE  /\ req.alias \in Aliases /\ "w" \in Logs[req.alias].perm
               /\ "ParseCredential" \notin req.vc.fails /\ ~IssuerUnlisted(req.alias, req.vc)
    <2>1. ~r[1][1] /\ ~r[2][1] /\ ~r[4][1] /\ ~r[5][1]
      BY <1>1, <1>6 DEF NoneApplies
    <2> QED
      BY <1>2, <2>1, Zenon DEF Aliases
  <1>7. ASSUME {"CreateLeaf", "MarshalCanonical"} \cap req.vc.fails = {} PROVE ClientFirst(r)
    <2>1. ASSUME NEW k \in 1 .. 7, r[k][1], \A j \in 1 .. 7 : r[j][1] => k <= j
          PROVE  r[k][2] \in ClientErrors
      <3>1. ~r[6][1] /\ ~r[7][1]
        BY <1>2, <1>7, Zenon
      <3>2. r[3][1] => r[1][1]
        BY <1>2, LoadersAssumption, Zenon DEF Aliases
      <3>3. k # 3 /\ k # 6 /\ k # 7
        BY <2>1, <3>1, <3>2
      <3> QED
        BY <3>3, <1>3 DEF ClientErrors
    <2> QED
      BY <1>1, <2>1, Zenon DEF ClientFirst
  <1>8. /\ Succeeds(Answer(r, NoBody)) => NoneApplies(r)
        /\ ClientFirst(r) => ~BlamesAgent(Answer(r, NoBody))
    BY <1>1, <1>5, AnswerCases, Zenon
  <1> QED
    BY <1>6, <1>7, <1>8, Zenon DEF r

\* A signed timestamp is sent when QueueLeaf did not fail, and is that of the leaf.
LEMMA AddVCAnswers ==
  ASSUME NEW leaf, NEW rpc \in RPCResults
  PROVE  LET answer == AddVCAnswer(rpc, leaf) IN
         /\ Succeeds(answer) =>
              /\ rpc = "OK" /\ answer.body.timestamp = leaf.timestamp
              /\ answer.body.signature = [timestamp |-> leaf.timestamp, entry |-> leaf.entry]
         /\ rpc = "OK" => ~BlamesAgent(answer)
  <1> DEFINE r == << <<rpc # "OK", RPCErr(rpc)>> >>
             body == [timestamp |-> leaf.timestamp, signature |-> signV1VCTS(leaf)]
  <1>1. DOMAIN r = 1 .. 1 /\ 1 \in 1 .. 9
    OBVIOUS
  <1>2. (r[1][1] <=> rpc # "OK") /\ r[1][2] = RPCErr(rpc)
    BY Zenon
  <1>3. AddVCAnswer(rpc, leaf) = Answer(r, body)
    BY DEF AddVCAnswer
  <1>4. /\ body.timestamp = leaf.timestamp
        /\ body.signature = [timestamp |-> leaf.timestamp, entry |-> leaf.entry]
    BY DEF signV1VCTS, CreateVCTimestampSignature
  <1> HIDE DEF r, body
  <1>5. \A k \in DOMAIN r : k = 1
    BY <1>1
  <1>6. 1 \in DOMAIN r
    BY <1>1
  <1>7. AllErrors(r) /\ (rpc = "OK" => ClientFirst(r)) /\ (NoneApplies(r) => rpc = "OK")
    BY <1>2, <1>5, <1>6, ErrorsAre, Zenon DEF AllErrors, ClientFirst, NoneApplies
  <1>8. /\ Succeeds(Answer(r, body)) => NoneApplies(r) /\ Answer(r, body).body = body
        /\ ClientFirst(r) => ~BlamesAgent(Answer(r, body))
    BY <1>1, <1>7, AnswerCases, Zenon
  <1> QED
    BY <1>3, <1>4, <1>7, <1>8, Zenon

-----------------------------------------------------------------------------
(* The agent and its clients *)

Leaf == [timestamp : Nat, entry : Entries]

TypeOK ==
  /\ stored \in [Aliases -> [Entries -> Nat]]
  /\ tree \in [Aliases -> Seq(Leaf)]
  /\ call = [c \in Clients |-> call[c]]
  /\ svcts \in [Clients -> SUBSET (Aliases \X Credentials \X Nat)]
  /\ faults \in Nat

IsAdd(req) == req.op = "AddVC" /\ req.alias \in Aliases /\ req.vc \in Credentials

\* What AddVC has checked before a leaf is queued.
Permitted(a, vc) ==
  "w" \in Logs[a].perm /\ "ParseCredential" \notin vc.fails /\ ~IssuerUnlisted(a, vc)

StoredOK(a, e) ==
  stored[a][e] # NoTime =>
    /\ "w" \in Logs[a].perm
    /\ \E vc \in Credentials : vc.entry = e /\ "ParseCredential" \notin vc.fails /\ ~IssuerUnlisted(a, vc)

-----------------------------------------------------------------------------
(* What an answer says of the logs, st and tr being stored and tree.         *)

\* A signed timestamp of a credential, which is the one kept.
TimestampOf(body, vc, kept) ==
  VerifyVCTimestampSignature(body, vc) /\ body.timestamp \in Nat \ {NoTime} /\ kept = body.timestamp

AddOK(req, answer, st) ==
  req.op = "AddVC" /\ Succeeds(answer) => TimestampOf(answer.body, req.vc, st[req.alias][req.vc.entry])

ProofOK(req, answer, tr) ==
  req.op \in {"GetProofByHash", "GetEntryAndProof"} /\ Succeeds(answer) =>
    req.alias \in Aliases /\ ProofFrom(req, answer.body.proof, tr[req.alias])

EntriesOK(req, answer, tr) ==
  req.op = "GetEntries" /\ Succeeds(answer) =>
    req.alias \in Aliases /\ EntriesFrom(req, answer.body.entries, tr[req.alias])

AnswerOK(req, answer, st, tr) ==
  AddOK(req, answer, st) /\ ProofOK(req, answer, tr) /\ EntriesOK(req, answer, tr)

\* The states of a call.
SentOK(c) ==
  call[c].at = "sent" => IsAdd(call[c].req) \/ IsRead(call[c].req)

QueueOK(c) ==
  call[c].at = "queue" =>
    /\ IsAdd(call[c].req) /\ Permitted(call[c].req.alias, call[c].req.vc)
    /\ \E t \in Times : call[c].leaf = CreateLeaf(t, call[c].req.vc)

AnsweredOK(c) ==
  call[c].at = "answered" =>
    /\ IsAdd(call[c].req) \/ IsRead(call[c].req)
    /\ AnswerOK(call[c].req, call[c].answer, stored, tree)

CallOK(c) == SentOK(c) /\ QueueOK(c) /\ AnsweredOK(c)

IInv ==
  /\ TypeOK
  /\ \A a \in Aliases : Distinct(tree[a])
  /\ \A a \in Aliases, e \in Entries : StoredOK(a, e)
  /\ \A c \in Clients : CallOK(c)

-----------------------------------------------------------------------------
(* The logs only grow *)

\* A timestamp that is kept stays, and so does the place of a leaf.
Kept(st, tr, st2, tr2) ==
  /\ \A a \in Aliases, e \in Entries : st[a][e] # NoTime => st2[a][e] = st[a][e]
  /\ \A a \in Aliases :
       Len(tr[a]) <= Len(tr2[a]) /\ \A n \in 1 .. Len(tr[a]) : tr2[a][n] = tr[a][n]

\* The leaves of a log stay where they were.
LEMMA KeptLeaves ==
  ASSUME NEW st, NEW st2, NEW tr \in [Aliases -> Seq(Leaf)], NEW tr2 \in [Aliases -> Seq(Leaf)],
         Kept(st, tr, st2, tr2), NEW a \in Aliases
  PROVE  /\ Len(tr[a]) \in Nat /\ Len(tr2[a]) \in Nat /\ Len(tr[a]) <= Len(tr2[a])
         /\ \A n \in 1 .. Len(tr[a]) : tr2[a][n] = tr[a][n]
  BY DEF Kept

\* What an answer said stays true.
LEMMA AnswerKept ==
  ASSUME NEW req, NEW answer, NEW st, NEW st2, NEW tr \in [Aliases -> Seq(Leaf)],
         NEW tr2 \in [Aliases -> Seq(Leaf)],
         Kept(st, tr, st2, tr2), IsAdd(req) \/ IsRead(req), AnswerOK(req, answer, st, tr)
  PROVE  AnswerOK(req, answer, st2, tr2)
  <1>1. AddOK(req, answer, st2)
    <2> SUFFICES ASSUME req.op = "AddVC", Succeeds(answer)
                 PROVE  TimestampOf(answer.body, req.vc, st2[req.alias][req.vc.entry])
      BY DEF AddOK
    <2>1. IsAdd(req)
      BY DEF IsRead
    <2>2. req.alias \in Aliases /\ req.vc.entry \in Entries
      BY <2>1, Zenon DEF IsAdd, Entries
    <2>3. TimestampOf(answer.body, req.vc, st[req.alias][req.vc.entry])
      BY Zenon DEF AnswerOK, AddOK
    <2> QED
      BY <2>2, <2>3 DEF Kept, TimestampOf
  <1>2. ProofOK(req, answer, tr2)
    <2> SUFFICES ASSUME req.op \in {"GetProofByHash", "GetEntryAndProof"}, Succeeds(answer)
                 PROVE  req.alias \in Aliases /\ ProofFrom(req, answer.body.proof, tr2[req.alias])
      BY DEF ProofOK
    <2>1. req.alias \in Aliases /\ ProofFrom(req, answer.body.proof, tr[req.alias]) /\ req.size \in Int
      BY DEF AnswerOK, ProofOK, IsRead, IsAdd
    <2>2. /\ Len(tr[req.alias]) \in Nat /\ Len(tr2[req.alias]) \in Nat /\ Len(tr[req.alias]) <= Len(tr2[req.alias])
          /\ \A n \in 1 .. Len(tr[req.alias]) : tr2[req.alias][n] = tr[req.alias][n]
      BY <2>1, KeptLeaves, Zenon
    <2> DEFINE proof == answer.body.proof
    <2> HIDE DEF proof
    <2>3. /\ proof.index \in Nat /\ proof.size = req.size /\ proof.index < proof.size
          /\ proof.size <= Len(tr[req.alias])
          /\ req.op = "GetProofByHash" => tr[req.alias][proof.index + 1] = req.hash
      BY <2>1, Zenon DEF ProofFrom, proof
    <2>4. proof.index + 1 \in 1 .. Len(tr[req.alias]) /\ proof.size <= Len(tr2[req.alias])
      <3>1. proof.size \in Int
        BY <2>1, <2>3, Zenon
      <3> QED
        BY <2>2, <2>3, <3>1, IndexInTree, Zenon
    <2>5. tr2[req.alias][proof.index + 1] = tr[req.alias][proof.index + 1]
      BY <2>2, <2>4, Zenon
    <2> QED
      BY <2>1, <2>3, <2>4, <2>5, Zenon DEF ProofFrom, proof
  <1>3. EntriesOK(req, answer, tr2)
    <2> SUFFICES ASSUME req.op = "GetEntries", Succeeds(answer)
                 PROVE  req.alias \in Aliases /\ EntriesFrom(req, answer.body.entries, tr2[req.alias])
      BY DEF EntriesOK
    <2> DEFINE entries == answer.body.entries
    <2>1. req.alias \in Aliases /\ EntriesFrom(req, entries, tr[req.alias])
      BY Zenon DEF AnswerOK, EntriesOK
    <2>2. /\ Len(tr[req.alias]) \in Nat /\ Len(tr2[req.alias]) \in Nat /\ Len(tr[req.alias]) <= Len(tr2[req.alias])
          /\ \A n \in 1 .. Len(tr[req.alias]) : tr2[req.alias][n] = tr[req.alias][n]
      BY <2>1, KeptLeaves, Zenon
    <2> HIDE DEF entries
    <2>3. /\ req.start \in Nat /\ Len(entries) \in Nat /\ DOMAIN entries = 1 .. Len(entries)
          /\ req.start + Len(entries) <= Len(tr[req.alias])
          /\ \A n \in DOMAIN entries : entries[n] = tr[req.alias][req.start + n]
      BY <2>1, Zenon DEF EntriesFrom
    <2>4. /\ req.start + Len(entries) <= Len(tr2[req.alias])
          /\ \A n \in DOMAIN entries : req.start + n \in 1 .. Len(tr[req.alias])
      <3>1. ASSUME NEW s \in Nat, NEW k \in Nat, NEW l \in Nat, NEW l2 \in Nat, s + k <= l, l <= l2
            PROVE  s + k <= l2 /\ \A n \in 1 .. k : s + n \in 1 .. l
        BY <3>1
      <3> QED
        BY <2>2, <2>3, <3>1, Zenon
    <2>5. \A n \in DOMAIN entries : entries[n] = tr2[req.alias][req.start + n]
      BY <2>2, <2>3, <2>4, Zenon
    <2> QED
      BY <2>1, <2>4, <2>5, Zenon DEF EntriesFrom, entries
  <1> QED
    BY <1>1, <1>2, <1>3 DEF AnswerOK

\* A call that does not move stays right while the logs grow.
LEMMA OtherCall ==
  ASSUME IInv, TypeOK', Kept(stored, tree, stored', tree'),
         NEW d \in Clients, call'[d] = call[d]
  PROVE  CallOK(d)'
  <1>1. CallOK(d) /\ TypeOK
    BY Zenon DEF IInv
  <1>2. SentOK(d)'
    BY <1>1 DEF CallOK, SentOK
  <1>3. QueueOK(d)'
    BY <1>1 DEF CallOK, QueueOK
  <1>4. AnsweredOK(d)'
    <2> SUFFICES ASSUME call'[d].at = "answered" PROVE AnsweredOK(d)'
      BY DEF AnsweredOK
    <2>1. /\ IsAdd(call[d].req) \/ IsRead(call[d].req)
          /\ AnswerOK(call[d].req, call[d].answer, stored, tree)
      BY <1>1, Zenon DEF CallOK, AnsweredOK
    <2>2. tree \in [Aliases -> Seq(Leaf)] /\ tree' \in [Aliases -> Seq(Leaf)]
      BY <1>1 DEF TypeOK
    <2>3. AnswerOK(call[d].req, call[d].answer, stored', tree')
      BY <2>1, <2>2, AnswerKept, Zenon
    <2> QED
      BY <2>1, <2>3, Zenon DEF AnsweredOK
  <1> QED
    BY <1>2, <1>3, <1>4 DEF CallOK

\* What is left to show of a step that leaves the logs alone and moves the call of
\* one client.
LEMMA ClientStep ==
  ASSUME IInv, NEW c \in Clients, call' = [call EXCEPT ![c] = call'[c]], UNCHANGED <<stored, tree>>,
         svcts' \in [Clients -> SUBSET (Aliases \X Credentials \X Nat)],
         faults' \in Nat, CallOK(c)'
  PROVE  IInv'
  <1>1. TypeOK
    BY Zenon DEF IInv
  <1>2. TypeOK'
    <2>1. call' = [d \in Clients |-> call'[d]]
      BY <1>1 DEF TypeOK
    <2> QED
      BY <1>1, <2>1 DEF TypeOK
  <1>3. Kept(stored, tree, stored', tree')
    <2>1. \A a \in Aliases : Len(tree[a]) \in Nat
      BY <1>1 DEF TypeOK
    <2> QED
      BY <2>1 DEF Kept
  <1>4. ASSUME NEW d \in Clients PROVE CallOK(d)'
    <2>1. CASE d = c
      BY <2>1
    <2>2. CASE d # c
      <3>1. call'[d] = call[d]
        BY <1>1, <2>2 DEF TypeOK
      <3> QED
        BY <1>2, <1>3, <3>1, OtherCall, Zenon
    <2> QED
      BY <2>1, <2>2
  <1>5. /\ \A a \in Aliases, e \in Entries : StoredOK(a, e)'
        /\ \A a \in Aliases : Distinct(tree[a])'
    BY Zenon DEF IInv, StoredOK, Distinct
  <1> QED
    BY <1>2, <1>4, <1>5, Zenon DEF IInv

-----------------------------------------------------------------------------
(* The answers to reads *)

\* A read is answered from the log it names.
LEMMA ReadIsOK ==
  ASSUME IInv, NEW req, IsRead(req), NEW rpc \in RPCResults
  PROVE  ReadOK(req, Handle(req, rpc), TreeOf(req.alias), rpc)
  <1> DEFINE t == TreeOf(req.alias)
             answer == Handle(req, rpc)
  <1>1. t \in Seq(Leaf) /\ Distinct(t) /\ (req.alias \in Aliases => t = tree[req.alias])
    BY DEF IInv, TypeOK, TreeOf, Distinct
  <1>2. /\ req.op = "GetSTH" => answer = GetSTH(req, t, rpc)
        /\ req.op = "GetEntries" => answer = GetEntries(req, t, rpc)
        /\ req.op = "GetEntryAndProof" => answer = GetEntryAndProof(req, t, rpc)
        /\ req.op = "GetProofByHash" => answer = GetProofByHash(req, t, rpc)
        /\ req.op = "GetSTHConsistency" => answer = GetSTHConsistency(req, t, rpc)
        /\ req.op = "GetIssuers" => answer = GetIssuers(req)
        /\ req.op = "Webfinger" => answer = Webfinger(req)
        /\ req.op = "HealthCheck" => answer = HealthCheck(rpc \in {"OK", Signing}, rpc # Signing)
    BY DEF Handle
  <1> HIDE DEF answer, t
  <1>3. ASSUME req.op \in {"GetSTH", "GetSTHConsistency", "GetIssuers", "Webfinger", "HealthCheck"}
        PROVE  ReadOK(req, answer, t, rpc)
    <2>1. ASSUME rpc = "OK", ~Unservable(req, t) PROVE ~BlamesAgent(answer)
      <3>1. (rpc \in {"OK", Signing}) = TRUE /\ (rpc # Signing) = TRUE
        BY <2>1 DEF Signing
      <3>2. HealthCheck(rpc \in {"OK", Signing}, rpc # Signing) = HealthCheck(TRUE, TRUE)
        BY <3>1, Zenon
      <3>3. /\ req.op = "GetSTH" \/ req.op = "GetIssuers" => req.alias \notin NotJSON
            /\ req.op = "Webfinger" => req.resource.ledger \notin NotJSON
        BY <2>1, Zenon DEF Unservable
      <3> QED
        BY <1>2, <1>3, <2>1, <3>2, <3>3, STHAnswer, IssuersAnswer, WebfingerAnswer, OtherAnswers, Zenon
    <2>2. req.op \notin {"GetEntries", "GetEntryAndProof", "GetProofByHash"}
      BY <1>3
    <2>3. ~Servable(req, t)
      BY <2>2, OnlyRanges
    <2> QED
      BY <2>1, <2>2, <2>3, Zenon DEF ReadOK
  <1>4. ReadOK(req, answer, t, rpc)
    BY <1>1, <1>2, <1>3, EntriesAnswer, EntryAndProofAnswer, ProofByHashAnswer, Zenon DEF IsRead
  <1> QED
    BY <1>4, Zenon DEF answer, t

\* What it says holds there.
LEMMA ReadAnswer ==
  ASSUME IInv, NEW req, IsRead(req), NEW rpc \in RPCResults
  PROVE  AnswerOK(req, Handle(req, rpc), stored, tree)
  <1> DEFINE answer == Handle(req, rpc)
  <1>1. ReadOK(req, answer, TreeOf(req.alias), rpc)
    BY ReadIsOK, Zenon
  <1>2. req.alias \in Aliases => TreeOf(req.alias) = tree[req.alias]
    BY DEF TreeOf
  <1> HIDE DEF answer
  <1>3. AddOK(req, answer, stored)
    BY DEF AddOK, IsRead
  <1>4. ProofOK(req, answer, tree) /\ EntriesOK(req, answer, tree)
    BY <1>1, <1>2, Zenon DEF ReadOK, ProofOK, EntriesOK
  <1> QED
    BY <1>3, <1>4, Zenon DEF AnswerOK, answer

-----------------------------------------------------------------------------
(* The steps *)

\* What a call holds when it is sent.
LEMMA SentCall ==
  ASSUME TypeOK, NEW c \in Clients, NEW req, NEW token, Send(c, req, token)
  PROVE  /\ call'[c].at = "sent" /\ call'[c].req = req /\ call'[c].token = token
         /\ call' = [call EXCEPT ![c] = call'[c]]
  <1>1. call'[c] = [at |-> "sent", req |-> req, token |-> token]
    BY DEF Send, TypeOK
  <1>2. call'[c].at = "sent" /\ call'[c].req = req /\ call'[c].token = token
    BY <1>1
  <1> QED
    BY <1>1, <1>2, Zenon DEF Send

\* What a call holds when it is answered.
LEMMA AnsweredCall ==
  ASSUME NEW c, NEW req, NEW answer, call'[c] = [at |-> "answered", req |-> req, answer |-> answer]
  PROVE  call'[c].at = "answered" /\ call'[c].req = req /\ call'[c].answer = answer
  OBVIOUS

\* A client sends a submission or a read.
LEMMA SendIInv ==
  ASSUME IInv, NEW c \in Clients, NEW req, NEW token, Send(c, req, token),
         IsAdd(req) \/ IsRead(req), UNCHANGED <<stored, tree, svcts, faults>>
  PROVE  IInv'
  <1>1. TypeOK
    BY Zenon DEF IInv
  <1>2. /\ call'[c].at = "sent" /\ call'[c].req = req /\ call'[c].token = token
        /\ call' = [call EXCEPT ![c] = call'[c]]
    BY <1>1, SentCall, Zenon
  <1>3. CallOK(c)'
    BY <1>2, Zenon DEF CallOK, SentOK, QueueOK, AnsweredOK, IsRead
  <1>4. /\ svcts' \in [Clients -> SUBSET (Aliases \X Credentials \X Nat)]
        /\ faults' \in Nat
    BY <1>1 DEF TypeOK
  <1> QED
    BY <1>2, <1>3, <1>4, ClientStep, Zenon

\* The client's steps.
LEMMA AddVCIInv ==
  ASSUME IInv, NEW c \in Clients, AddVC(c)
  PROVE  IInv'
  <1>1. PICK a \in Aliases, vc \in Credentials :
          Send(c, [op |-> "AddVC", alias |-> a, uri |-> {addVCEndpoint}, vc |-> vc], Tokens[c].write)
    BY Zenon DEF AddVC
  <1> DEFINE req == [op |-> "AddVC", alias |-> a, uri |-> {addVCEndpoint}, vc |-> vc]
  <1>2. IsAdd(req)
    BY DEF IsAdd
  <1> HIDE DEF req
  <1>3. Send(c, req, Tokens[c].write)
    BY <1>1, Zenon DEF req
  <1> QED
    BY <1>2, <1>3, SendIInv DEF AddVC

\* A read of the client's choice.
LEMMA ReadIInv ==
  ASSUME IInv, NEW c \in Clients, Read(c)
  PROVE  IInv'
  <1>1. PICK req \in Reads : Send(c, req, Tokens[c].read)
    BY Zenon DEF Read
  <1>2. IsRead(req)
    BY ReadsAssumption, Zenon
  <1> QED
    BY <1>1, <1>2, SendIInv DEF Read

\* The agent answers a request with an answer that is right.
LEMMA ReplyIInv ==
  ASSUME IInv, NEW c \in Clients, NEW answer, Reply(c, answer),
         IsAdd(call[c].req) \/ IsRead(call[c].req), faults' \in Nat,
         AnswerOK(call[c].req, answer, stored, tree),
         UNCHANGED <<stored, tree, svcts>>
  PROVE  IInv'
  <1>1. TypeOK
    BY Zenon DEF IInv
  <1>2. call'[c] = [at |-> "answered", req |-> call[c].req, answer |-> answer]
    BY <1>1 DEF Reply, TypeOK
  <1>3. call'[c].at = "answered" /\ call'[c].req = call[c].req /\ call'[c].answer = answer
    BY <1>2, AnsweredCall, Zenon
  <1>4. CallOK(c)'
    <2>1. SentOK(c)' /\ QueueOK(c)'
      BY <1>3 DEF SentOK, QueueOK
    <2>2. AnsweredOK(c)'
      BY <1>3 DEF AnsweredOK
    <2> QED
      BY <2>1, <2>2 DEF CallOK
  <1>5. call' = [call EXCEPT ![c] = call'[c]]
    BY <1>2, Zenon DEF Reply
  <1>6. svcts' \in [Clients -> SUBSET (Aliases \X Credentials \X Nat)]
    BY <1>1 DEF TypeOK
  <1> QED
    BY <1>4, <1>5, <1>6, ClientStep, Zenon

\* An error says nothing of the logs.
LEMMA RefusalOK ==
  ASSUME NEW req, NEW answer, ~Succeeds(answer), NEW st, NEW tr
  PROVE  AnswerOK(req, answer, st, tr)
  BY Zenon DEF AnswerOK, AddOK, ProofOK, EntriesOK

\* What the middleware answers is the client's error.
LEMMA RefusedToken ==
  LET answer == Answer(<< <<TRUE, Unauthorized>> >>, NoBody) IN ~Succeeds(answer) /\ ~BlamesAgent(answer)
  <1> DEFINE r == << <<TRUE, Unauthorized>> >>
  <1>1. DOMAIN r = 1 .. 1 /\ 1 \in 1 .. 9 /\ 1 \in DOMAIN r /\ r[1][1] /\ r[1][2] = Unauthorized
    OBVIOUS
  <1> HIDE DEF r
  <1>2. \A k \in DOMAIN r : k = 1
    BY <1>1
  <1>3. AllErrors(r) /\ ClientFirst(r) /\ ~NoneApplies(r)
    <2>1. Unauthorized \in ClientErrors
      BY Zenon DEF ClientErrors
    <2> QED
      BY <1>1, <1>2, <2>1, ErrorsAre, Zenon DEF AllErrors, ClientFirst, NoneApplies
  <1>4. ~Succeeds(Answer(r, NoBody)) /\ ~BlamesAgent(Answer(r, NoBody))
    BY <1>1, <1>3, AnswerCases, Zenon
  <1> QED
    BY <1>4, Zenon DEF r

\* The middleware refuses a token.
LEMMA UnauthorisedIInv ==
  ASSUME IInv, NEW c \in Clients, Unauthorised(c)
  PROVE  IInv'
  <1> DEFINE answer == Answer(<< <<TRUE, Unauthorized>> >>, NoBody)
  <1>1. Reply(c, answer) /\ call[c].at = "sent" /\ UNCHANGED <<stored, tree, svcts, faults>>
    BY DEF Unauthorised
  <1>2. ~Succeeds(answer)
    BY RefusedToken, Zenon
  <1> HIDE DEF answer
  <1>3. AnswerOK(call[c].req, answer, stored, tree)
    BY <1>2, RefusalOK, Zenon
  <1>4. IsAdd(call[c].req) \/ IsRead(call[c].req)
    BY <1>1, Zenon DEF IInv, CallOK, SentOK
  <1>5. faults' \in Nat
    BY <1>1 DEF IInv, TypeOK
  <1> QED
    BY <1>1, <1>3, <1>4, <1>5, ReplyIInv

\* What a call that may fail does to the number of faults.
LEMMA FaultCounted ==
  ASSUME faults \in Nat, NEW rpc, RPC(rpc)
  PROVE  faults' \in Nat /\ (faults' = faults => rpc = "OK")
  BY DEF RPC, Fault

\* A read is answered.
LEMMA ServeReadIInv ==
  ASSUME IInv, NEW c \in Clients, ServeRead(c)
  PROVE  IInv'
  <1> DEFINE req == call[c].req
  <1>1. PICK rpc \in RPCResults : RPC(rpc) /\ Reply(c, Handle(req, rpc))
    BY Zenon DEF ServeRead
  <1>2. call[c].at = "sent" /\ req.op # "AddVC" /\ UNCHANGED <<stored, tree, svcts>>
    BY DEF ServeRead
  <1>3. IsRead(req)
    BY <1>2 DEF IInv, CallOK, SentOK, IsAdd
  <1>4. TypeOK /\ faults \in Nat
    BY DEF IInv, TypeOK
  <1>5. faults' \in Nat
    BY <1>1, <1>4, FaultCounted, Zenon
  <1>6. AnswerOK(req, Handle(req, rpc), stored, tree)
    BY <1>3, ReadAnswer, Zenon
  <1> DEFINE answer == Handle(req, rpc)
  <1>7. Reply(c, answer) /\ AnswerOK(req, answer, stored, tree)
    BY <1>1, <1>6
  <1> HIDE DEF answer
  <1> QED
    BY <1>2, <1>3, <1>5, <1>7, ReplyIInv

\* AddVC goes on only with a permission, a credential and an issuer that allow it.
LEMMA MakeLeafIInv ==
  ASSUME IInv, NEW c \in Clients, MakeLeaf(c)
  PROVE  IInv'
  <1> DEFINE req == call[c].req
             refused == Answer(AddVCReturns(req), NoBody)
  <1>1. call[c].at = "sent" /\ req.op = "AddVC" /\ UNCHANGED <<stored, tree, svcts, faults>>
    BY DEF MakeLeaf
  <1>2. /\ ~Succeeds(refused) => Reply(c, refused)
        /\ Succeeds(refused) =>
             \E t \in Times : call' = [call EXCEPT ![c] = [at |-> "queue", req |-> req, leaf |-> CreateLeaf(t, req.vc)]]
    BY DEF MakeLeaf, Succeeds
  <1>3. Succeeds(refused) => Permitted(req.alias, req.vc)
    BY AddVCChecks, Zenon DEF Permitted
  <1> HIDE DEF refused
  <1>4. IsAdd(req)
    BY <1>1, Zenon DEF IInv, CallOK, SentOK, IsRead
  <1>5. TypeOK /\ faults' \in Nat
    BY <1>1 DEF IInv, TypeOK
  <1>6. CASE ~Succeeds(refused)
    <2>1. AnswerOK(req, refused, stored, tree)
      BY <1>6, RefusalOK, Zenon
    <2>2. Reply(c, refused)
      BY <1>2, <1>6
    <2> QED
      BY <1>1, <1>4, <1>5, <2>1, <2>2, ReplyIInv
  <1>7. CASE Succeeds(refused)
    <2>1. PICK t \in Times : call' = [call EXCEPT ![c] = [at |-> "queue", req |-> req, leaf |-> CreateLeaf(t, req.vc)]]
      BY <1>2, <1>7, Zenon
    <2>2. call'[c] = [at |-> "queue", req |-> req, leaf |-> CreateLeaf(t, req.vc)]
      BY <1>5, <2>1 DEF TypeOK
    <2>3. call'[c].at = "queue" /\ call'[c].req = req /\ call'[c].leaf = CreateLeaf(t, req.vc)
      BY <2>2
    <2>5. Permitted(req.alias, req.vc)
      BY <1>3, <1>7, Zenon
    <2>6. SentOK(c)' /\ AnsweredOK(c)'
      BY <2>3 DEF SentOK, AnsweredOK
    <2>7. QueueOK(c)'
      BY <1>4, <2>3, <2>5 DEF QueueOK
    <2>8. CallOK(c)'
      BY <2>6, <2>7 DEF CallOK
    <2>9. call' = [call EXCEPT ![c] = call'[c]]
      BY <2>1, <2>2, Zenon
    <2>10. svcts' \in [Clients -> SUBSET (Aliases \X Credentials \X Nat)]
      BY <1>1, <1>5 DEF TypeOK
    <2> QED
      BY <1>1, <1>5, <2>8, <2>9, <2>10, ClientStep, Zenon
  <1> QED
    BY <1>6, <1>7

\* What QueueLeaf does to what the log keeps: at most the timestamp of the entry
\* of the leaf changes, and only when there was none.
LEMMA QueueLeafStores ==
  ASSUME IInv, NEW c \in Clients, QueueLeaf(c)
  PROVE  LET a == call[c].req.alias
             e == call[c].req.vc.entry IN
         \E kept \in Nat \ {NoTime}, rpc \in RPCResults :
           /\ RPC(rpc) /\ Reply(c, AddVCAnswer(rpc, [timestamp |-> kept, entry |-> e]))
           /\ stored[a][e] # NoTime => kept = stored[a][e]
           /\ stored' = [stored EXCEPT ![a][e] = kept] \/ (rpc # "OK" /\ stored' = stored)
  <1> DEFINE req == call[c].req
             a == req.alias
             e == req.vc.entry
             leaf == call[c].leaf
             kept == IF stored[a][leaf.entry] = NoTime THEN leaf.timestamp ELSE stored[a][leaf.entry]
  <1>1. PICK rpc \in RPCResults :
          /\ RPC(rpc)
          /\ \/ stored' = [stored EXCEPT ![a][leaf.entry] = kept]
             \/ rpc \in RPCCodes /\ UNCHANGED stored
          /\ Reply(c, AddVCAnswer(rpc, [timestamp |-> kept, entry |-> leaf.entry]))
    BY Zenon DEF QueueLeaf
  <1>2. CallOK(c) /\ call[c].at = "queue" /\ TypeOK
    BY Zenon DEF IInv, QueueLeaf
  <1>3. PICK t \in Times : leaf = CreateLeaf(t, req.vc)
    BY <1>2, Zenon DEF CallOK, QueueOK
  <1>4. IsAdd(req)
    BY <1>2, Zenon DEF CallOK, QueueOK
  <1>5. a \in Aliases /\ e \in Entries
    BY <1>4, Zenon DEF IsAdd, Entries
  <1>6. leaf.entry = e /\ leaf.timestamp = t /\ t \in Nat \ {NoTime}
    BY <1>3, TimesAssumption DEF CreateLeaf
  <1>7. stored[a][e] \in Nat
    BY <1>2, <1>5 DEF TypeOK
  <1>8. kept \in Nat \ {NoTime} /\ (stored[a][e] # NoTime => kept = stored[a][e])
    BY <1>6, <1>7, Zenon
  <1> HIDE DEF kept, leaf
  <1>9. rpc \in RPCCodes => rpc # "OK"
    BY RPCAssumption
  <1> QED
    BY <1>1, <1>6, <1>8, <1>9, Zenon

\* st2 is st with one timestamp set.
StoresOne(st, a, e, kept, st2) ==
  /\ st2 \in [Aliases -> [Entries -> Nat]]
  /\ st2[a][e] = kept
  /\ \A x \in Aliases, y \in Entries :
       st2[x][y] = st[x][y] \/ (x = a /\ y = e /\ st2[x][y] = kept)

\* Setting one timestamp.
LEMMA StoreOne ==
  ASSUME NEW st \in [Aliases -> [Entries -> Nat]], NEW a \in Aliases, NEW e \in Entries,
         NEW kept \in Nat
  PROVE  StoresOne(st, a, e, kept, [st EXCEPT ![a][e] = kept])
  <1> DEFINE st2 == [st EXCEPT ![a][e] = kept]
  <1>1. st2 = [st EXCEPT ![a] = [st[a] EXCEPT ![e] = kept]]
    OBVIOUS
  <1>2. st[a] \in [Entries -> Nat] /\ [st[a] EXCEPT ![e] = kept] \in [Entries -> Nat]
    OBVIOUS
  <1>3. st2 \in [Aliases -> [Entries -> Nat]]
    BY <1>1, <1>2
  <1>4. st2[a] = [st[a] EXCEPT ![e] = kept] /\ \A x \in Aliases \ {a} : st2[x] = st[x]
    BY <1>1
  <1> HIDE DEF st2
  <1>5. st2[a][e] = kept /\ \A y \in Entries \ {e} : st2[a][y] = st[a][y]
    BY <1>2, <1>4
  <1>6. StoresOne(st, a, e, kept, st2)
    BY <1>3, <1>4, <1>5 DEF StoresOne
  <1> QED
    BY <1>6, Zenon DEF st2

\* A leaf is queued or found, and its timestamp signed.
LEMMA QueueLeafIInv ==
  ASSUME IInv, NEW c \in Clients, QueueLeaf(c)
  PROVE  IInv' /\ Kept(stored, tree, stored', tree')
  <1> DEFINE req == call[c].req
             a == req.alias
             e == req.vc.entry
  <1>1. PICK kept \in Nat \ {NoTime}, rpc \in RPCResults :
           /\ RPC(rpc) /\ Reply(c, AddVCAnswer(rpc, [timestamp |-> kept, entry |-> e]))
           /\ stored[a][e] # NoTime => kept = stored[a][e]
           /\ stored' = [stored EXCEPT ![a][e] = kept] \/ (rpc # "OK" /\ stored' = stored)
    BY QueueLeafStores, Zenon
  <1>2. CallOK(c) /\ call[c].at = "queue" /\ TypeOK /\ UNCHANGED <<tree, svcts>>
    BY Zenon DEF IInv, QueueLeaf
  <1>3. IsAdd(req) /\ Permitted(a, req.vc)
    BY <1>2, Zenon DEF CallOK, QueueOK
  <1>4. a \in Aliases /\ req.vc \in Credentials /\ e \in Entries
    BY <1>3, Zenon DEF IsAdd, Entries
  <1>5. faults' \in Nat
    BY <1>1, <1>2, FaultCounted DEF TypeOK
  <1>6. /\ stored' \in [Aliases -> [Entries -> Nat]]
        /\ rpc = "OK" => stored'[a][e] = kept
        /\ \A x \in Aliases, y \in Entries :
             stored'[x][y] = stored[x][y] \/ (x = a /\ y = e /\ stored'[x][y] = kept)
    <2>1. stored \in [Aliases -> [Entries -> Nat]]
      BY <1>2, Zenon DEF TypeOK
    <2>2. CASE stored' = [stored EXCEPT ![a][e] = kept]
      <3>1. StoresOne(stored, a, e, kept, stored')
        BY <1>4, <2>1, <2>2, StoreOne, Zenon
      <3> QED
        BY <3>1, Zenon DEF StoresOne
    <2>3. CASE rpc # "OK" /\ stored' = stored
      BY <2>1, <2>3, Zenon
    <2> QED
      BY <1>1, <2>2, <2>3, Zenon
  <1>7. Kept(stored, tree, stored', tree')
    <2>1. \A x \in Aliases : Len(tree[x]) \in Nat
      BY <1>2 DEF TypeOK
    <2>2. \A x \in Aliases, y \in Entries : stored[x][y] # NoTime => stored'[x][y] = stored[x][y]
      BY <1>1, <1>6, Zenon
    <2> QED
      BY <1>2, <2>1, <2>2, NatLeqItself, Zenon DEF Kept
  <1>8. \A x \in Aliases, y \in Entries : StoredOK(x, y)'
    <2>1. ASSUME NEW x \in Aliases, NEW y \in Entries PROVE StoredOK(x, y)'
      <3>1. CASE stored'[x][y] = stored[x][y]
        BY <3>1, Zenon DEF IInv, StoredOK
      <3>2. CASE x = a /\ y = e
        BY <1>3, <1>4, <3>2, Zenon DEF StoredOK, Permitted
      <3> QED
        BY <1>6, <3>1, <3>2, Zenon
    <2> QED
      BY <2>1, Zenon
  <1> DEFINE leaf == [timestamp |-> kept, entry |-> e]
             answer == AddVCAnswer(rpc, leaf)
  <1>9. leaf.timestamp = kept /\ leaf.entry = e
    OBVIOUS
  <1>10. Reply(c, answer)
    BY <1>1, Zenon
  <1> HIDE DEF leaf
  <1>11. Succeeds(answer) =>
              /\ rpc = "OK" /\ answer.body.timestamp = leaf.timestamp
              /\ answer.body.signature = [timestamp |-> leaf.timestamp, entry |-> leaf.entry]
    BY AddVCAnswers, Zenon
  <1> HIDE DEF answer
  <1>12. AnswerOK(req, answer, stored', tree')
    <2>1. ASSUME Succeeds(answer) PROVE TimestampOf(answer.body, req.vc, stored'[a][e])
      <3>1. rpc = "OK" /\ answer.body.timestamp = kept /\ answer.body.signature = [timestamp |-> kept, entry |-> e]
        BY <1>9, <1>11, <2>1, Zenon
      <3>2. VerifyVCTimestampSignature(answer.body, req.vc)
        BY <3>1 DEF VerifyVCTimestampSignature, CreateVCTimestampSignature, CreateLeaf
      <3> QED
        BY <1>6, <3>1, <3>2, Zenon DEF TimestampOf
    <2>2. AddOK(req, answer, stored')
      BY <2>1, Zenon DEF AddOK
    <2>3. ProofOK(req, answer, tree') /\ EntriesOK(req, answer, tree')
      BY <1>3 DEF IsAdd, ProofOK, EntriesOK
    <2> QED
      BY <2>2, <2>3, Zenon DEF AnswerOK
  <1>13. call'[c] = [at |-> "answered", req |-> req, answer |-> answer]
    BY <1>2, <1>10 DEF Reply, TypeOK
  <1>14. call'[c].at = "answered" /\ call'[c].req = req /\ call'[c].answer = answer
    BY <1>13, AnsweredCall, Zenon
  <1>15. CallOK(c)'
    <2>1. SentOK(c)' /\ QueueOK(c)'
      BY <1>14 DEF SentOK, QueueOK
    <2>2. AnsweredOK(c)'
      BY <1>3, <1>12, <1>14 DEF AnsweredOK
    <2> QED
      BY <2>1, <2>2 DEF CallOK
  <1>16. TypeOK'
    <2>1. call' = [d \in Clients |-> call'[d]]
      BY <1>2, <1>10, Zenon DEF TypeOK, Reply
    <2> QED
      BY <1>2, <1>5, <1>6, <2>1 DEF TypeOK
  <1>17. ASSUME NEW d \in Clients, d # c PROVE CallOK(d)'
    <2>1. call'[d] = call[d]
      BY <1>2, <1>10, <1>17 DEF Reply, TypeOK
    <2> QED
      BY <1>7, <1>16, <2>1, OtherCall, Zenon
  <1>18. \A x \in Aliases : Distinct(tree[x])'
    BY <1>2, Zenon DEF IInv, Distinct
  <1> QED
    BY <1>7, <1>8, <1>15, <1>16, <1>17, <1>18, Zenon DEF IInv

\* The client's call ends.
LEMMA ReturnIInv ==
  ASSUME IInv, NEW c \in Clients, call' = [call EXCEPT ![c] = Idle], UNCHANGED <<stored, tree>>,
         svcts' \in [Clients -> SUBSET (Aliases \X Credentials \X Nat)],
         faults' \in Nat
  PROVE  IInv'
  <1>1. call'[c] = Idle
    BY DEF IInv, TypeOK
  <1>2. call'[c].at = "idle"
    BY <1>1 DEF Idle
  <1>3. CallOK(c)'
    BY <1>2 DEF CallOK, SentOK, QueueOK, AnsweredOK
  <1>4. call' = [call EXCEPT ![c] = call'[c]]
    BY <1>1, Zenon
  <1> QED
    BY <1>3, <1>4, ClientStep, Zenon

\* An answer reaches the client or is lost: what the client keeps of it is of
\* the log it asked.
LEMMA ReturnsIInv ==
  ASSUME IInv, NEW c \in Clients, Return(c) \/ LoseAnswer(c)
  PROVE  IInv'
  <1> DEFINE req == call[c].req
             answer == call[c].answer
  <1>1. /\ call[c].at = "answered" /\ call' = [call EXCEPT ![c] = Idle] /\ UNCHANGED <<stored, tree>>
        /\ faults' = faults \/ faults' = faults + 1
    BY Zenon DEF Return, ReturnAddVC, ReturnOther, LoseAnswer, Fault
  <1>2. svcts \in [Clients -> SUBSET (Aliases \X Credentials \X Nat)] /\ faults \in Nat
    BY Zenon DEF IInv, TypeOK
  <1>3. IsAdd(req) \/ IsRead(req)
    BY <1>1, Zenon DEF IInv, CallOK, AnsweredOK
  <1>4. AddOK(req, answer, stored)
    BY <1>1, Zenon DEF IInv, CallOK, AnsweredOK, AnswerOK
  <1>5. svcts' \in [Clients -> SUBSET (Aliases \X Credentials \X Nat)]
    <2>1. CASE ReturnAddVC(c)
      <3>1. CASE Succeeds(answer)
        <4>1. req.alias \in Aliases /\ req.vc \in Credentials
          BY <1>3, <2>1 DEF ReturnAddVC, IsRead, IsAdd
        <4>2. answer.body.timestamp \in Nat
          BY <1>4, <2>1, <3>1, Zenon DEF ReturnAddVC, AddOK, TimestampOf
        <4> DEFINE s == <<req.alias, req.vc, answer.body.timestamp>>
        <4>3. s \in Aliases \X Credentials \X Nat
          BY <4>1, <4>2
        <4>4. svcts' = svcts \/ svcts' = [svcts EXCEPT ![c] = @ \cup {s}]
          BY <2>1, Zenon DEF ReturnAddVC
        <4> HIDE DEF s
        <4> QED
          BY <1>2, <4>3, <4>4
      <3>2. CASE ~Succeeds(answer)
        BY <1>2, <2>1, <3>2 DEF ReturnAddVC, Succeeds
      <3> QED
        BY <3>1, <3>2
    <2>2. CASE ~ReturnAddVC(c)
      <3>1. UNCHANGED svcts
        BY <2>2 DEF Return, ReturnOther, LoseAnswer
      <3> QED
        BY <1>2, <3>1
    <2> QED
      BY <2>1, <2>2
  <1>6. faults' \in Nat
    BY <1>1, <1>2
  <1> QED
    BY <1>1, <1>5, <1>6, ReturnIInv, Zenon

\* Appending to a sequence.
LEMMA AppendKeeps ==
  ASSUME NEW S, NEW s \in Seq(S), NEW u \in Seq(S)
  PROVE  s \o u \in Seq(S) /\ Len(s) <= Len(s \o u) /\ \A n \in 1 .. Len(s) : (s \o u)[n] = s[n]
  OBVIOUS

\* A batch that AppendOnlyLog allows adds entries that have no place yet.
LEMMA IntegrateUnique ==
  ASSUME IInv, NEW a \in Aliases, Integrate(a), tree' \in [Aliases -> Seq(Leaf)]
  PROVE  Distinct(tree'[a])
  <1> SUFFICES ASSUME NEW m \in DOMAIN tree'[a], NEW n \in DOMAIN tree'[a],
                      tree'[a][m].entry = tree'[a][n].entry
               PROVE  m = n
    BY Zenon DEF Distinct
  <1> DEFINE log == RowsOf(tree[a])
             size == Len(tree[a])
             waiting == {e \in Entries : stored[a][e] # NoTime} \ {r.id : r \in log}
  <1>1. Log(a)!Integrate /\ \A i, j \in DOMAIN tree[a] : tree[a][i].entry = tree[a][j].entry => i = j
    BY Zenon DEF Integrate, IInv, Distinct
  <1>2. PICK k \in 1 .. MaxBatch : \E batch \in [1 .. k -> waiting] :
          /\ \A i, j \in 1 .. k : i # j => batch[i] # batch[j]
          /\ RowsOf(tree'[a]) = log \cup BatchAfter(tree[a], k, batch)
    BY <1>1, Zenon DEF Log!Integrate, Log!Waiting, RowsOf, BatchAfter
  <1>3. PICK batch \in [1 .. k -> waiting] :
          /\ \A i, j \in 1 .. k : i # j => batch[i] # batch[j]
          /\ RowsOf(tree'[a]) = log \cup BatchAfter(tree[a], k, batch)
    BY <1>2, Zenon
  <1>4. tree[a] \in Seq(Leaf) /\ tree'[a] \in Seq(Leaf)
    BY Zenon DEF IInv, TypeOK
  <1>5. ASSUME NEW p \in DOMAIN tree'[a]
        PROVE  \/ p \in DOMAIN tree[a] /\ tree'[a][p].entry = tree[a][p].entry
               \/ \E i \in 1 .. k : p = size + i /\ tree'[a][p].entry = batch[i]
    <2>1. RowsOf(tree'[a]) = RowsOf(tree[a]) \cup BatchAfter(tree[a], k, batch)
      BY <1>3, Zenon
    <2> HIDE DEF log, waiting
    <2>2. OldOrOfBatch(tree[a], tree'[a], k, batch, p)
      BY <1>4, <2>1, BatchEntries, Zenon
    <2> QED
      BY <2>2, Zenon DEF OldOrOfBatch
  <1>6. ASSUME NEW p \in DOMAIN tree[a], NEW i \in 1 .. k PROVE tree[a][p].entry # batch[i]
    <2>1. [seq |-> p - 1, id |-> tree[a][p].entry] \in log
      BY Zenon DEF RowsOf
    <2>2. [seq |-> p - 1, id |-> tree[a][p].entry].id = tree[a][p].entry
      OBVIOUS
    <2>3. tree[a][p].entry \in {r.id : r \in log}
      BY <2>1, <2>2, Zenon
    <2>4. batch[i] \notin {r.id : r \in log}
      <3> HIDE DEF log
      <3> QED
        OBVIOUS
    <2> QED
      BY <2>3, <2>4, Zenon
  <1> HIDE DEF waiting, log
  <1>7. CASE m \in DOMAIN tree[a] /\ tree'[a][m].entry = tree[a][m].entry
    <2>1. CASE n \in DOMAIN tree[a] /\ tree'[a][n].entry = tree[a][n].entry
      BY <1>1, <1>7, <2>1, Zenon
    <2>2. CASE \E i \in 1 .. k : n = size + i /\ tree'[a][n].entry = batch[i]
      BY <1>6, <1>7, <2>2, Zenon
    <2> QED
      BY <1>5, <2>1, <2>2, Zenon
  <1>8. CASE \E i \in 1 .. k : m = size + i /\ tree'[a][m].entry = batch[i]
    <2>1. CASE n \in DOMAIN tree[a] /\ tree'[a][n].entry = tree[a][n].entry
      BY <1>6, <1>8, <2>1, Zenon
    <2>2. CASE \E i \in 1 .. k : n = size + i /\ tree'[a][n].entry = batch[i]
      BY <1>3, <1>8, <2>2, Zenon
    <2> QED
      BY <1>5, <2>1, <2>2, Zenon
  <1> QED
    BY <1>5, <1>7, <1>8, Zenon

\* A signer appends leaves.
LEMMA IntegrateIInv ==
  ASSUME IInv, NEW a \in Aliases, Integrate(a)
  PROVE  IInv' /\ Kept(stored, tree, stored', tree')
  <1>1. TypeOK
    BY Zenon DEF IInv
  <1>0. PICK n \in 1 .. MaxBatch : \E batch \in [1 .. n -> {e \in Entries : stored[a][e] # NoTime}] :
          tree' = [tree EXCEPT ![a] = @ \o [i \in 1 .. n |-> [timestamp |-> stored[a][batch[i]], entry |-> batch[i]]]]
    BY Zenon DEF Integrate
  <1>2. PICK batch \in [1 .. n -> {e \in Entries : stored[a][e] # NoTime}] :
          tree' = [tree EXCEPT ![a] = @ \o [i \in 1 .. n |-> [timestamp |-> stored[a][batch[i]], entry |-> batch[i]]]]
    BY <1>0, Zenon
  <1>3. UNCHANGED <<stored, call, svcts, faults>>
    BY DEF Integrate
  <1> DEFINE u == [i \in 1 .. n |-> [timestamp |-> stored[a][batch[i]], entry |-> batch[i]]]
  <1>4. u \in Seq(Leaf)
    <2>1. n \in Nat
      BY MaxBatchAssumption
    <2>2. ASSUME NEW i \in 1 .. n PROVE [timestamp |-> stored[a][batch[i]], entry |-> batch[i]] \in Leaf
      <3>1. batch[i] \in Entries
        OBVIOUS
      <3>2. stored[a][batch[i]] \in Nat
        BY <1>1, <3>1 DEF TypeOK
      <3> QED
        BY <3>1, <3>2 DEF Leaf
    <2> QED
      BY <2>1, <2>2
  <1> HIDE DEF u
  <1>5. tree \in [Aliases -> Seq(Leaf)] /\ tree' = [tree EXCEPT ![a] = tree[a] \o u]
    BY <1>1, <1>2 DEF TypeOK, u
  <1>6. /\ tree[a] \o u \in Seq(Leaf) /\ Len(tree[a]) <= Len(tree[a] \o u)
        /\ \A k \in 1 .. Len(tree[a]) : (tree[a] \o u)[k] = tree[a][k]
    <2>1. tree[a] \in Seq(Leaf)
      BY <1>5
    <2> QED
      BY <1>4, <2>1, AppendKeeps, Zenon
  <1> DEFINE v == tree[a] \o u
  <1> HIDE DEF v
  <1>7. tree' \in [Aliases -> Seq(Leaf)] /\ tree'[a] = v /\ \A x \in Aliases \ {a} : tree'[x] = tree[x]
    BY <1>5, <1>6 DEF v
  <1>8. TypeOK'
    BY <1>1, <1>3, <1>7 DEF TypeOK
  <1>9. Kept(stored, tree, stored', tree')
    <2>1. ASSUME NEW x \in Aliases
          PROVE  Len(tree[x]) <= Len(tree'[x]) /\ \A k \in 1 .. Len(tree[x]) : tree'[x][k] = tree[x][k]
      <3>1. CASE x = a
        BY <1>6, <1>7, <3>1 DEF v
      <3>2. CASE x # a
        <4>1. tree'[x] = tree[x] /\ Len(tree[x]) \in Nat
          BY <1>5, <1>7, <3>2
        <4> QED
          BY <4>1
      <3> QED
        BY <3>1, <3>2
    <2> QED
      BY <1>3, <2>1, Zenon DEF Kept
  <1>10. ASSUME NEW d \in Clients PROVE CallOK(d)'
    <2>1. call'[d] = call[d]
      BY <1>3
    <2> QED
      BY <1>8, <1>9, <2>1, OtherCall, Zenon
  <1>11. \A x \in Aliases, e \in Entries : StoredOK(x, e)'
    BY <1>3, Zenon DEF IInv, StoredOK
  <1>12. \A x \in Aliases : Distinct(tree'[x])
    <2>1. Distinct(tree'[a])
      BY <1>7, IntegrateUnique, Zenon
    <2> QED
      BY <1>7, <2>1, Zenon DEF IInv
  <1> QED
    BY <1>8, <1>9, <1>10, <1>11, <1>12, Zenon DEF IInv

-----------------------------------------------------------------------------
(* The invariant *)

\* There is no log entry and no call at first.
LEMMA InitIInv == Init => IInv
  <1> SUFFICES ASSUME Init PROVE IInv
    OBVIOUS
  <1>1. TypeOK
    BY DEF Init, TypeOK, NoTime
  <1>2. \A a \in Aliases, e \in Entries : StoredOK(a, e)
    BY Zenon DEF Init, StoredOK
  <1>3. \A c \in Clients : call[c].at = "idle"
    BY DEF Init, Idle
  <1>4. \A c \in Clients : CallOK(c)
    BY <1>3 DEF CallOK, SentOK, QueueOK, AnsweredOK
  <1>5. \A a \in Aliases : Distinct(tree[a])
    BY EmptyIsDistinct, Zenon DEF Init
  <1> QED
    BY <1>1, <1>2, <1>4, <1>5, Zenon DEF IInv

\* Every step keeps the invariant, and the logs.
LEMMA NextIInv ==
  ASSUME IInv, [Next]_vars
  PROVE  IInv' /\ Kept(stored, tree, stored', tree')
  <1>1. \A a \in Aliases : Len(tree[a]) \in Nat
    BY DEF IInv, TypeOK
  <1>2. UNCHANGED <<stored, tree>> => Kept(stored, tree, stored', tree')
    BY <1>1 DEF Kept
  <1>3. ASSUME NEW c \in Clients, AddVC(c) \/ Read(c)
        PROVE  IInv' /\ UNCHANGED <<stored, tree>>
    <2>1. UNCHANGED <<stored, tree>>
      BY <1>3, Zenon DEF AddVC, Read
    <2> QED
      BY <1>3, <2>1, AddVCIInv, ReadIInv, Zenon
  <1>4. ASSUME NEW c \in Clients, Unauthorised(c) \/ ServeRead(c) \/ MakeLeaf(c)
        PROVE  IInv' /\ UNCHANGED <<stored, tree>>
    <2>1. UNCHANGED <<stored, tree>>
      BY <1>4 DEF Unauthorised, ServeRead, MakeLeaf
    <2> QED
      BY <1>4, <2>1, UnauthorisedIInv, ServeReadIInv, MakeLeafIInv, Zenon
  <1>5. ASSUME NEW c \in Clients, Return(c) \/ LoseAnswer(c)
        PROVE  IInv' /\ UNCHANGED <<stored, tree>>
    <2>1. UNCHANGED <<stored, tree>>
      BY <1>5, Zenon DEF Return, ReturnAddVC, ReturnOther, LoseAnswer
    <2> QED
      BY <1>5, <2>1, ReturnsIInv, Zenon
  <1>6. CASE UNCHANGED vars
    BY <1>2, <1>6, Zenon DEF vars, IInv, TypeOK, Distinct, StoredOK, CallOK, SentOK, QueueOK, AnsweredOK
  <1> QED
    BY <1>2, <1>3, <1>4, <1>5, <1>6, QueueLeafIInv, IntegrateIInv, Zenon DEF Next, Serve, Done

\* The inductive invariant holds of every behaviour of clients, agents and logs.
THEOREM Invariance == Spec => []IInv
  <1>1. IInv /\ [Next]_vars => IInv'
    BY NextIInv, Zenon
  <1> QED
    BY InitIInv, <1>1, PTL DEF Spec

\* Whatever calls fail and whoever submits the entry first, a signed timestamp
\* that AddVC sends verifies against the credential and is of the leaf kept.
THEOREM TimestampsAreLogged == Spec => []TimestampIsOfTheLoggedLeaf
  <1>1. IInv => TimestampIsOfTheLoggedLeaf
    BY Zenon DEF IInv, CallOK, AnsweredOK, AnswerOK, AddOK, TimestampOf, Succeeds, TimestampIsOfTheLoggedLeaf
  <1> QED
    BY Invariance, <1>1, PTL

\* hasPermissions, ParseCredential and the issuer list guard every entry of every log.
THEOREM OnlyPermittedIsLogged == Spec => []LoggedIsPermitted
  <1>1. IInv => LoggedIsPermitted
    BY Zenon DEF IInv, StoredOK, LoggedIsPermitted
  <1> QED
    BY Invariance, <1>1, PTL

\* GetProofByHash and GetEntryAndProof send a proof of the requested tree size
\* or none.
THEOREM ProofsVerify == Spec => []ProofsAreOfTheRequestedTree
  <1>1. IInv => ProofsAreOfTheRequestedTree
    BY Zenon DEF IInv, CallOK, AnsweredOK, AnswerOK, ProofOK, ProofFrom, Succeeds, ProofsAreOfTheRequestedTree
  <1> QED
    BY Invariance, <1>1, PTL

\* The range of GetEntries is within what was asked for any int64 parameters,
\* those whose difference overflows included.
THEOREM RangesAreAsked == Spec => []EntriesAreTheRange
  <1>1. IInv => EntriesAreTheRange
    BY Zenon DEF IInv, CallOK, AnsweredOK, AnswerOK, EntriesOK, EntriesFrom, Succeeds, EntriesAreTheRange
  <1> QED
    BY Invariance, <1>1, PTL

\* Only the agent answers a call, and only its own client's.
LEMMA AnswersAreServed ==
  ASSUME IInv, Next, NEW c \in Clients, call[c].at \in {"sent", "queue"}, call'[c].at = "answered"
  PROVE  Serve(c)
  <1>1. call = [d \in Clients |-> call[d]] /\ call[c].at # "answered"
    BY DEF IInv, TypeOK
  <1>2. ASSUME NEW d \in Clients, NEW v, call' = [call EXCEPT ![d] = v] PROVE d = c /\ v.at = "answered"
    BY <1>1, <1>2
  <1>3. call' # call
    BY <1>1
  <1>4. ASSUME NEW d \in Clients, AddVC(d) \/ Read(d) PROVE FALSE
    <2>1. PICK req, token : Send(d, req, token)
      BY <1>4, Zenon DEF AddVC, Read
    <2> DEFINE v == [at |-> "sent", req |-> req, token |-> token]
    <2>2. v.at # "answered"
      OBVIOUS
    <2>3. call' = [call EXCEPT ![d] = v]
      BY <2>1, Zenon DEF Send
    <2> HIDE DEF v
    <2> QED
      BY <1>2, <2>2, <2>3, Zenon
  <1>5. ASSUME NEW d \in Clients, Return(d) \/ LoseAnswer(d) PROVE FALSE
    <2>1. call' = [call EXCEPT ![d] = Idle]
      BY <1>5, Zenon DEF Return, ReturnAddVC, ReturnOther, LoseAnswer
    <2>2. Idle.at # "answered"
      BY DEF Idle
    <2> QED
      BY <1>2, <2>1, <2>2, Zenon
  <1>6. ASSUME NEW d \in Clients, Serve(d) PROVE d = c
    <2>1. PICK v : call' = [call EXCEPT ![d] = v]
      BY <1>6, Zenon DEF Serve, Unauthorised, ServeRead, MakeLeaf, QueueLeaf, Reply
    <2> QED
      BY <1>2, <2>1, Zenon
  <1>7. (\E a \in Aliases : Integrate(a)) \/ Done => call' = call
    BY DEF Integrate, Done, vars
  <1> QED
    BY <1>3, <1>4, <1>5, <1>6, <1>7, Zenon DEF Next

\* What the agent says to a request when no call fails.
Reasonable(req, answer, token) ==
  /\ BlamesAgent(answer) => Unservable(req, TreeOf(req.alias))
  /\ Servable(req, TreeOf(req.alias)) /\ Authorized(req, token) => Succeeds(answer)

\* Every handler that answers without a fault has a reason.
LEMMA ServedWithReason ==
  ASSUME IInv, NEW c \in Clients, Serve(c), call'[c].at = "answered", faults' = faults
  PROVE  Reasonable(call[c].req, call'[c].answer, call[c].token)
  <1> DEFINE req == call[c].req
             t == TreeOf(req.alias)
  <1>1. TypeOK /\ faults \in Nat /\ CallOK(c)
    BY DEF IInv, TypeOK
  <1>2. ASSUME NEW answer, Reply(c, answer) PROVE call'[c].answer = answer
    <2>1. call'[c] = [at |-> "answered", req |-> call[c].req, answer |-> answer]
      BY <1>1, <1>2 DEF Reply, TypeOK
    <2> QED
      BY <2>1
  <1>3. CASE Unauthorised(c)
    <2> DEFINE answer == Answer(<< <<TRUE, Unauthorized>> >>, NoBody)
    <2>1. ~Authorized(req, call[c].token) /\ Reply(c, answer)
      BY <1>3 DEF Unauthorised
    <2>2. ~BlamesAgent(answer)
      BY RefusedToken, Zenon
    <2> HIDE DEF answer
    <2> QED
      BY <1>2, <2>1, <2>2, Zenon DEF Reasonable
  <1>4. CASE ServeRead(c)
    <2>1. PICK rpc \in RPCResults : RPC(rpc) /\ Reply(c, Handle(req, rpc))
      BY <1>4, Zenon DEF ServeRead
    <2>2. rpc = "OK"
      BY <1>1, <2>1, FaultCounted, Zenon
    <2>3. IsRead(req)
      BY <1>1, <1>4 DEF ServeRead, CallOK, SentOK, IsAdd
    <2>4. ReadOK(req, Handle(req, rpc), t, rpc)
      BY <2>3, ReadIsOK, Zenon
    <2>5. call'[c].answer = Handle(req, rpc)
      BY <1>2, <2>1, Zenon
    <2> QED
      BY <2>2, <2>4, <2>5, Zenon DEF ReadOK, Reasonable
  <1>5. CASE MakeLeaf(c)
    <2> DEFINE refused == Answer(AddVCReturns(req), NoBody)
    <2>1. req.op = "AddVC" /\ (~Succeeds(refused) => Reply(c, refused))
      BY <1>5 DEF MakeLeaf, Succeeds
    <2>2. BlamesAgent(refused) => {"CreateLeaf", "MarshalCanonical"} \cap req.vc.fails # {}
      BY AddVCChecks, Zenon
    <2>3. ~Succeeds(refused)
      <3>1. SUFFICES ASSUME Succeeds(refused) PROVE FALSE
        OBVIOUS
      <3>2. PICK time \in Times :
              call' = [call EXCEPT ![c] = [at |-> "queue", req |-> req, leaf |-> CreateLeaf(time, req.vc)]]
        BY <1>5, <3>1 DEF MakeLeaf, Succeeds
      <3>3. call'[c] = [at |-> "queue", req |-> req, leaf |-> CreateLeaf(time, req.vc)]
        BY <1>1, <3>2 DEF TypeOK
      <3> QED
        BY <3>3
    <2> HIDE DEF refused
    <2>4. call'[c].answer = refused
      BY <1>2, <2>1, <2>3, Zenon
    <2>5. ~Servable(req, t)
      BY <2>1, OnlyRanges
    <2>6. {"CreateLeaf", "MarshalCanonical"} \cap req.vc.fails # {} => Unservable(req, t)
      BY <2>1, Zenon DEF Unservable
    <2> QED
      BY <2>2, <2>4, <2>5, <2>6, Zenon DEF Reasonable
  <1>6. CASE QueueLeaf(c)
    <2>1. PICK kept \in Nat \ {NoTime}, rpc \in RPCResults :
            RPC(rpc) /\ Reply(c, AddVCAnswer(rpc, [timestamp |-> kept, entry |-> req.vc.entry]))
      BY <1>6, QueueLeafStores, Zenon
    <2> DEFINE answer == AddVCAnswer(rpc, [timestamp |-> kept, entry |-> req.vc.entry])
    <2>2. rpc = "OK"
      BY <1>1, <2>1, FaultCounted, Zenon
    <2>3. ~BlamesAgent(answer)
      BY <2>2, AddVCAnswers, Zenon
    <2>4. call'[c].answer = answer
      BY <1>2, <2>1, Zenon
    <2>5. IsAdd(req)
      BY <1>1, <1>6, Zenon DEF CallOK, QueueOK, QueueLeaf
    <2>6. ~Servable(req, t)
      BY <2>5, OnlyRanges DEF IsAdd
    <2> HIDE DEF answer
    <2> QED
      BY <2>3, <2>4, <2>6, Zenon DEF Reasonable
  <1> QED
    BY <1>3, <1>4, <1>5, <1>6, Zenon DEF Serve

\* The agent blames itself only after a failed call or for what it cannot serve,
\* and sends the entries of every range that starts inside the log and whose
\* length is an int64, whatever overflows on the way.
THEOREM ErrorsHaveReasons == Spec => NoErrorWithoutReason
  <1> DEFINE Step == \A c \in Clients :
               call[c].at \in {"sent", "queue"} /\ call'[c].at = "answered" /\ faults' = faults =>
                 LET req == call[c].req
                     status == call'[c].answer.status IN
                 /\ status >= 500 => Unservable(req, TreeOf(req.alias))
                 /\ Servable(req, TreeOf(req.alias)) /\ Authorized(req, call[c].token) => status = 200
  <1>1. ASSUME IInv, Next PROVE Step
    <2> SUFFICES ASSUME NEW c \in Clients, call[c].at \in {"sent", "queue"},
                        call'[c].at = "answered", faults' = faults
                 PROVE  Reasonable(call[c].req, call'[c].answer, call[c].token)
      BY Zenon DEF Reasonable, BlamesAgent, Succeeds
    <2>1. Serve(c)
      BY <1>1, AnswersAreServed, Zenon
    <2> QED
      BY <1>1, <2>1, ServedWithReason, Zenon
  <1> HIDE DEF Step
  <1>2. IInv /\ [Next]_vars => [Step]_vars
    BY <1>1, Zenon
  <1>3. Spec => [][Step]_vars
    BY <1>2, Invariance, PTL DEF Spec
  <1> QED
    BY <1>3 DEF NoErrorWithoutReason, Step

\* The timestamp an entry was logged with, and the place of a leaf, never change.
THEOREM LogsAreKept == Spec => [][Kept(stored, tree, stored', tree')]_vars
  <1>1. IInv /\ [Next]_vars => [Kept(stored, tree, stored', tree')]_vars
    BY NextIInv, Zenon
  <1> QED
    BY Invariance, <1>1, PTL DEF Spec

-----------------------------------------------------------------------------
(* What a client was promised *)

\* A leaf of a tree carries the timestamp that the log keeps for its entry, and
\* so does a signed timestamp that the client's check let through.
LeafOK(a, n) ==
  tree[a][n].timestamp # NoTime /\ tree[a][n].timestamp = stored[a][tree[a][n].entry]

PromiseOK(c, s) == s[3] # NoTime /\ stored[s[1]][s[2].entry] = s[3]

PInv ==
  /\ \A a \in Aliases : \A n \in DOMAIN tree[a] : LeafOK(a, n)
  /\ \A c \in Clients : \A s \in svcts[c] : PromiseOK(c, s)

\* While a log keeps its timestamps, a leaf stays right that stays in its place.
LEMMA LeafStays ==
  ASSUME IInv, PInv, Kept(stored, tree, stored', tree'),
         NEW a \in Aliases, NEW n \in DOMAIN tree[a], tree'[a][n] = tree[a][n]
  PROVE  LeafOK(a, n)'
  <1>1. tree[a][n].entry \in Entries
    <2>1. tree[a][n] \in Leaf
      BY DEF IInv, TypeOK
    <2> QED
      BY <2>1 DEF Leaf
  <1>2. LeafOK(a, n)
    BY Zenon DEF PInv
  <1>3. stored[a][tree[a][n].entry] # NoTime => stored'[a][tree[a][n].entry] = stored[a][tree[a][n].entry]
    BY <1>1, Zenon DEF Kept
  <1> QED
    BY <1>2, <1>3, Zenon DEF LeafOK

\* And so does what a client was promised.
LEMMA PromiseStays ==
  ASSUME IInv, PInv, Kept(stored, tree, stored', tree'), NEW c \in Clients, NEW s \in svcts[c]
  PROVE  PromiseOK(c, s)'
  <1>1. s \in Aliases \X Credentials \X Nat
    BY DEF IInv, TypeOK
  <1>2. s[1] \in Aliases /\ s[2].entry \in Entries
    BY <1>1 DEF Entries
  <1>3. PromiseOK(c, s)
    BY Zenon DEF PInv
  <1>4. stored[s[1]][s[2].entry] # NoTime => stored'[s[1]][s[2].entry] = stored[s[1]][s[2].entry]
    BY <1>2, Zenon DEF Kept
  <1> QED
    BY <1>3, <1>4 DEF PromiseOK

\* The leaves a signer appends are those the log keeps.
LEMMA IntegratePInv ==
  ASSUME IInv, PInv, NEW a \in Aliases, Integrate(a)
  PROVE  PInv'
  <1>1. TypeOK /\ Kept(stored, tree, stored', tree')
    BY IntegrateIInv, Zenon DEF IInv
  <1>2. UNCHANGED <<stored, svcts>>
    BY DEF Integrate
  <1>3. PICK n \in 1 .. MaxBatch : \E batch \in [1 .. n -> {e \in Entries : stored[a][e] # NoTime}] :
          tree' = [tree EXCEPT ![a] = @ \o [i \in 1 .. n |-> [timestamp |-> stored[a][batch[i]], entry |-> batch[i]]]]
    BY Zenon DEF Integrate
  <1>4. PICK batch \in [1 .. n -> {e \in Entries : stored[a][e] # NoTime}] :
          tree' = [tree EXCEPT ![a] = @ \o [i \in 1 .. n |-> [timestamp |-> stored[a][batch[i]], entry |-> batch[i]]]]
    BY <1>3, Zenon
  <1> DEFINE u == [i \in 1 .. n |-> [timestamp |-> stored[a][batch[i]], entry |-> batch[i]]]
  <1>5. /\ u \in Seq(Leaf) /\ Len(u) = n /\ n \in Nat
        /\ \A i \in 1 .. n : u[i].timestamp # NoTime /\ u[i].timestamp = stored[a][u[i].entry]
    <2>1. n \in Nat
      BY MaxBatchAssumption
    <2>2. ASSUME NEW i \in 1 .. n
          PROVE  /\ [timestamp |-> stored[a][batch[i]], entry |-> batch[i]] \in Leaf
                 /\ stored[a][batch[i]] # NoTime
      <3>1. batch[i] \in Entries /\ stored[a][batch[i]] # NoTime
        OBVIOUS
      <3>2. stored[a][batch[i]] \in Nat
        BY <1>1, <3>1 DEF TypeOK
      <3> QED
        BY <3>1, <3>2 DEF Leaf
    <2>3. ASSUME NEW S, NEW m \in Nat, NEW v \in [1 .. m -> S] PROVE v \in Seq(S) /\ Len(v) = m
      BY <2>3
    <2>4. u \in [1 .. n -> Leaf]
      BY <2>2, Zenon
    <2>5. u \in Seq(Leaf) /\ Len(u) = n
      BY <2>1, <2>3, <2>4, Zenon
    <2> QED
      BY <2>1, <2>2, <2>5, Zenon
  <1> HIDE DEF u
  <1>6. /\ tree[a] \in Seq(Leaf) /\ tree'[a] = tree[a] \o u
        /\ \A x \in Aliases \ {a} : tree'[x] = tree[x]
    BY <1>1, <1>4 DEF TypeOK, u
  <1>7. ASSUME NEW x \in Aliases, NEW k \in DOMAIN tree'[x] PROVE LeafOK(x, k)'
    <2>1. CASE k \in DOMAIN tree[x]
      <3>1. k \in 1 .. Len(tree[x])
        BY <1>1, <2>1 DEF TypeOK
      <3>2. tree'[x][k] = tree[x][k]
        BY <1>1, <3>1, Zenon DEF Kept
      <3> QED
        BY <1>1, <2>1, <3>2, LeafStays, Zenon
    <2>2. CASE k \notin DOMAIN tree[x]
      <3>1. x = a
        BY <1>6, <2>2
      <3>2. k \in DOMAIN (tree[a] \o u) /\ k \notin DOMAIN tree[a]
        BY <1>6, <2>2, <3>1
      <3>3. k - Len(tree[a]) \in 1 .. n /\ (tree[a] \o u)[k] = u[k - Len(tree[a])]
        <4>1. ASSUME NEW t \in Seq(Leaf), NEW v \in Seq(Leaf), NEW i \in DOMAIN (t \o v), i \notin DOMAIN t
              PROVE  i - Len(t) \in 1 .. Len(v) /\ (t \o v)[i] = v[i - Len(t)]
          BY <4>1
        <4> QED
          BY <1>5, <1>6, <3>2, <4>1, Zenon
      <3>4. tree'[x][k] = u[k - Len(tree[a])]
        BY <1>6, <3>1, <3>3
      <3> QED
        BY <1>2, <1>5, <3>1, <3>3, <3>4 DEF LeafOK
    <2> QED
      BY <2>1, <2>2
  <1>8. ASSUME NEW c \in Clients, NEW s \in svcts'[c] PROVE PromiseOK(c, s)'
    <2>1. s \in svcts[c]
      BY <1>2
    <2> QED
      BY <1>1, <2>1, PromiseStays, Zenon
  <1> QED
    BY <1>7, <1>8, Zenon DEF PInv

\* The client's check of an answer lets only a timestamp through that is kept.
LEMMA ReturnAddVCPInv ==
  ASSUME IInv, PInv, NEW c \in Clients, ReturnAddVC(c)
  PROVE  PInv'
  <1> DEFINE req == call[c].req
             answer == call[c].answer
             p == <<req.alias, req.vc, answer.body.timestamp>>
  <1>1. call[c].at = "answered" /\ req.op = "AddVC" /\ UNCHANGED <<stored, tree>>
    BY DEF ReturnAddVC
  <1>2. svcts' = svcts \/ (Succeeds(answer) /\ svcts' = [svcts EXCEPT ![c] = @ \cup {p}])
    BY DEF ReturnAddVC, Succeeds
  <1>3. Succeeds(answer) => TimestampOf(answer.body, req.vc, stored[req.alias][req.vc.entry])
    BY <1>1, Zenon DEF IInv, CallOK, AnsweredOK, AnswerOK, AddOK
  <1>4. Succeeds(answer) => PromiseOK(c, p)
    BY <1>3 DEF PromiseOK, TimestampOf
  <1> HIDE DEF p
  <1>5. ASSUME NEW d \in Clients, NEW s \in svcts'[d] PROVE PromiseOK(d, s)'
    <2>1. s \in svcts[d] \/ (s = p /\ Succeeds(answer))
      <3>1. svcts = [x \in Clients |-> svcts[x]]
        BY DEF IInv, TypeOK
      <3> QED
        BY <1>2, <3>1
    <2>2. PromiseOK(d, s)
      BY <1>4, <2>1, Zenon DEF PInv, PromiseOK
    <2> QED
      BY <1>1, <2>2 DEF PromiseOK
  <1>6. \A a \in Aliases : \A n \in DOMAIN tree'[a] : LeafOK(a, n)'
    BY <1>1, Zenon DEF PInv, LeafOK
  <1> QED
    BY <1>5, <1>6, Zenon DEF PInv

\* Every step keeps both.
LEMMA NextPInv ==
  ASSUME IInv, PInv, [Next]_vars
  PROVE  PInv'
  <1>1. Kept(stored, tree, stored', tree')
    BY NextIInv, Zenon
  <1>2. ASSUME UNCHANGED <<tree, svcts>> PROVE PInv'
    <2>1. \A a \in Aliases : \A n \in DOMAIN tree'[a] : LeafOK(a, n)'
      BY <1>1, <1>2, LeafStays, Zenon
    <2>2. \A c \in Clients : \A s \in svcts'[c] : PromiseOK(c, s)'
      BY <1>1, <1>2, PromiseStays, Zenon
    <2> QED
      BY <2>1, <2>2, Zenon DEF PInv
  <1>3. ASSUME NEW c \in Clients, AddVC(c) \/ Read(c) \/ Serve(c) \/ LoseAnswer(c)
        PROVE  UNCHANGED <<tree, svcts>>
    BY <1>3, Zenon DEF AddVC, Read, Serve, Unauthorised, ServeRead, MakeLeaf, QueueLeaf, LoseAnswer
  <1>4. ASSUME NEW c \in Clients, ReturnOther(c)
        PROVE  UNCHANGED <<tree, svcts>>
    BY <1>4 DEF ReturnOther
  <1>5. UNCHANGED vars => UNCHANGED <<tree, svcts>>
    BY DEF vars
  <1> QED
    BY <1>2, <1>3, <1>4, <1>5, ReturnAddVCPInv, IntegratePInv, Zenon DEF Next, Return, Done

\* When the credential of a signed timestamp that the client holds is integrated,
\* the leaf in the tree is the one whose hash the client calculates.
PromisedIsIntegrated ==
  \A c \in Clients : \A s \in svcts[c] : \A n \in DOMAIN tree[s[1]] :
    tree[s[1]][n].entry = s[2].entry => tree[s[1]][n] = CalculateLeafHash(s[3], s[2])

\* The inclusion proof that AwaitInclusion asks for, by that hash, is of the leaf
\* the credential has in the log, also when another client submitted it first, an
\* answer was lost or a call failed after the leaf was queued.
THEOREM PromisesAreKept == Spec => []PromisedIsIntegrated
  <1>1. Init => PInv
    <2> SUFFICES ASSUME Init PROVE PInv
      OBVIOUS
    <2>1. \A a \in Aliases : DOMAIN tree[a] = {}
      BY DEF Init
    <2>2. \A c \in Clients : svcts[c] = {}
      BY DEF Init
    <2> QED
      BY <2>1, <2>2 DEF PInv
  <1>2. IInv /\ PInv /\ [Next]_vars => PInv'
    BY NextPInv, Zenon
  <1>3. IInv /\ PInv => PromisedIsIntegrated
    <2> SUFFICES ASSUME IInv, PInv, NEW c \in Clients, NEW s \in svcts[c], NEW n \in DOMAIN tree[s[1]],
                        tree[s[1]][n].entry = s[2].entry
                 PROVE  tree[s[1]][n] = CalculateLeafHash(s[3], s[2])
      BY Zenon DEF PromisedIsIntegrated
    <2>1. s[1] \in Aliases
      BY DEF IInv, TypeOK
    <2>2. tree[s[1]][n] \in Leaf
      BY <2>1 DEF IInv, TypeOK
    <2>3. LeafOK(s[1], n) /\ PromiseOK(c, s)
      BY <2>1, Zenon DEF PInv
    <2>4. tree[s[1]][n].timestamp = s[3]
      BY <2>3 DEF LeafOK, PromiseOK
    <2> QED
      BY <2>2, <2>4 DEF Leaf, CalculateLeafHash, CreateLeaf
  <1> QED
    BY <1>1, <1>2, <1>3, Invariance, PTL DEF Spec

-----------------------------------------------------------------------------
\* An entry has one place in a tree.
OneLeafPerEntry == \A a \in Aliases : Distinct(tree[a])

\* Agents and clients that retry never get an entry into a tree twice, so the
\* position that GetProofByHash finds is the only one.
THEOREM EntriesAreUnique == Spec => []OneLeafPerEntry
  <1>1. IInv => OneLeafPerEntry
    BY Zenon DEF IInv, OneLeafPerEntry
  <1> QED
    BY Invariance, <1>1, PTL
=============================================================================
