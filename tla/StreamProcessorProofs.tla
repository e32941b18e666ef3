----------------------- MODULE StreamProcessorProofs -----------------------
(***************************************************************************)
(* Proofs about StreamProcessor, for any connections, texts,               *)
(* configurations and bounds that satisfy StreamAssumption.                *)
(*                                                                         *)
(* The first half is type correctness, without a further hypothesis: what  *)
(* the server computes for a batch is a recursion over its statements      *)
(* (ExecuteType), each handler of the processor has a lemma that says what *)
(* it leaves of a connection's state, and each action one that says what   *)
(* it leaves of StreamInv:                                                 *)
(*   AllFormed      what the server is given to run is a text;             *)
(*   CopySentAlone  a COPY under way is the only command under way.        *)
(*                                                                         *)
(* The properties of a connection are about it alone, and a step is a step *)
(* of one connection (Step, Others).  Their invariants are stated for one  *)
(* connection.  The first holds also for clients that send ahead, the      *)
(* others for clients that wait for each answer, Depth = 1:                *)
(*   CopyTracked  until it is answered, a COPY's buffer has what was sent; *)
(*   Tracks       between two commands the processor has the source's      *)
(*                status, and a command under way was judged in it;        *)
(*   Recorded     a recorded statement is its owner's and has the server's *)
(*                text, and no timer runs between two commands.            *)
(***************************************************************************)
EXTENDS StreamProcessor, FiniteSetTheorems, SequenceTheorems, WellFoundedInduction, TLAPS

----------------------------------------------------------------------------
\* Induction over the natural numbers, for the members of a set.
LessThan == {ss \in Nat \X Nat : ss[1] < ss[2]}

LEMMA LessThanWellFounded == IsWellFoundedOn(LessThan, Nat)
  <1>1. LessThan = OpToRel(<, Nat)
    BY Zenon DEF LessThan, OpToRel
  <1> QED BY <1>1, NatLessThanWellFounded, Zenon

\* A set of natural numbers that is not empty has a least member.
LEMMA LeastMember ==
    ASSUME NEW T, T \subseteq Nat, T # {}
    PROVE  \E x \in T : \A y \in T : x <= y
  <1>1. PICK x \in T : \A y \in T : ~(<<y, x>> \in LessThan)
    BY LessThanWellFounded, WFMin
  <1>2. ASSUME NEW y \in T PROVE x <= y
    <2>1. x \in Nat /\ y \in Nat
      OBVIOUS
    <2>2. y < x => <<y, x>> \in LessThan
      BY <2>1 DEF LessThan
    <2> QED BY <1>1, <2>1, <2>2
  <1> QED BY <1>2

LEMMA SetInduction ==
    ASSUME NEW S, 0 \in S, \A n \in Nat : n \in S => n + 1 \in S
    PROVE  Nat \subseteq S
  <1> DEFINE T == Nat \ S
  <1>1. SUFFICES ASSUME T # {} PROVE FALSE
    OBVIOUS
  <1>2. PICK x \in T : \A y \in T : x <= y
    <2> HIDE DEF T
    <2>1. T \subseteq Nat
      BY DEF T
    <2> QED BY <1>1, <2>1, LeastMember
  <1>3. x # 0 /\ x - 1 \in Nat
    BY <1>2
  <1>4. x - 1 \in T
    BY <1>3
  <1> QED BY <1>2, <1>3, <1>4

----------------------------------------------------------------------------
\* The server's run of a batch, statement by statement.
Outcomes == [status : Status, halted : BOOLEAN]

Running(run, n, sql, status, e) ==
    run = [i \in 0..n |-> IF i = 0 THEN [status |-> status, halted |-> FALSE]
                          ELSE Statement(sql[i], i = e, run[i - 1])]

LEMMA StatementType ==
    ASSUME NEW kind, NEW fails \in BOOLEAN, NEW run \in Outcomes
    PROVE  Statement(kind, fails, run) \in Outcomes
  <1>1. run.status \in Status /\ run.halted \in BOOLEAN
    BY DEF Outcomes
  <1>2. Fail(run.status) \in Status /\ After(kind, run.status) \in Status
    BY <1>1 DEF Fail, After, Status
  <1>3. \A s \in Status : [status |-> s, halted |-> TRUE] \in Outcomes /\ [status |-> s, halted |-> FALSE] \in Outcomes
    BY DEF Outcomes
  <1>4. (IF kind = "commit" THEN "Idle" ELSE Fail(run.status)) \in Status
    BY <1>2 DEF Status
  <1> QED BY <1>2, <1>3, <1>4, Zenon DEF Statement

LEMMA RunningExists ==
    ASSUME NEW sql, NEW status, NEW e
    PROVE  \A n \in Nat : \E run : Running(run, n, sql, status, e)
  <1> DEFINE S == {n \in Nat : \E run : Running(run, n, sql, status, e)}
             start == [status |-> status, halted |-> FALSE]
  <1>1. 0 \in S
    <2>1. Running([i \in 0..0 |-> start], 0, sql, status, e)
      BY DEF Running
    <2> QED BY <2>1
  <1>2. ASSUME NEW n \in Nat, n \in S PROVE n + 1 \in S
    <2>1. PICK g : Running(g, n, sql, status, e)
      BY <1>2
    <2> DEFINE g2 == [i \in 0..n + 1 |-> IF i = n + 1 THEN Statement(sql[n + 1], n + 1 = e, g[n]) ELSE g[i]]
               body == [i \in 0..n + 1 |-> IF i = 0 THEN start ELSE Statement(sql[i], i = e, g2[i - 1])]
    <2>2. ASSUME NEW i \in 0..n + 1 PROVE g2[i] = body[i]
      <3> HIDE DEF start
      <3>1. CASE i = n + 1
        <4>1. i - 1 = n /\ n \in 0..n + 1 /\ n # n + 1 /\ i # 0
          BY <3>1
        <4>2. g2[i - 1] = g[n]
          BY <4>1
        <4>3. g2[i] = Statement(sql[n + 1], n + 1 = e, g[n]) /\ body[i] = Statement(sql[i], i = e, g2[i - 1])
          BY <3>1, <4>1
        <4> QED BY <3>1, <4>2, <4>3
      <3>2. CASE i # n + 1
        <4>1. i \in 0..n /\ g2[i] = g[i]
          BY <3>2
        <4>2. g[i] = IF i = 0 THEN start ELSE Statement(sql[i], i = e, g[i - 1])
          BY <2>1, <4>1 DEF Running, start
        <4>3. i # 0 => g2[i - 1] = g[i - 1]
          <5>1. i # 0 => i - 1 \in 0..n + 1 /\ i - 1 # n + 1
            BY <4>1
          <5> QED BY <5>1
        <4>4. body[i] = IF i = 0 THEN start ELSE Statement(sql[i], i = e, g2[i - 1])
          OBVIOUS
        <4> QED BY <4>1, <4>2, <4>3, <4>4
      <3> QED BY <3>1, <3>2
    <2>3. g2 = body
      <3> HIDE <2>2
      <3>1. DOMAIN g2 = 0..n + 1 /\ DOMAIN body = 0..n + 1
        OBVIOUS
      <3> QED BY <2>2, <3>1, Zenon
    <2>4. Running(g2, n + 1, sql, status, e)
      BY <2>3, Zenon DEF Running
    <2> QED BY <2>4
  <1>3. Nat \subseteq S
    <2> HIDE DEF S
    <2> QED BY <1>1, <1>2, SetInduction
  <1> QED BY <1>3

LEMMA ExecuteSteps ==
    ASSUME NEW sql, NEW status, NEW e, Len(sql) \in Nat
    PROVE  \E run : /\ Running(run, Len(sql), sql, status, e)
                    /\ Execute(sql, status, e) = run[Len(sql)]
  <1> DEFINE g == CHOOSE g : g = [i \in 0..Len(sql) |-> IF i = 0 THEN [status |-> status, halted |-> FALSE]
                                                        ELSE Statement(sql[i], i = e, g[i - 1])]
  <1>1. Execute(sql, status, e) = g[Len(sql)]
    BY DEF Execute
  <1>2. \E f : f = [i \in 0..Len(sql) |-> IF i = 0 THEN [status |-> status, halted |-> FALSE]
                                          ELSE Statement(sql[i], i = e, f[i - 1])]
    <2>1. PICK f : Running(f, Len(sql), sql, status, e)
      BY RunningExists
    <2> QED BY <2>1, Zenon DEF Running
  <1>3. Running(g, Len(sql), sql, status, e)
    BY <1>2, Zenon DEF Running
  <1> QED BY <1>1, <1>3, Zenon

LEMMA ExecuteType ==
    ASSUME NEW sql, NEW status \in Status, NEW e, Len(sql) \in Nat
    PROVE  Execute(sql, status, e) \in Outcomes
  <1>1. PICK run : /\ Running(run, Len(sql), sql, status, e)
                   /\ Execute(sql, status, e) = run[Len(sql)]
    BY ExecuteSteps
  <1> DEFINE S == {n \in Nat : n <= Len(sql) => run[n] \in Outcomes}
  <1>2. 0 \in S
    <2>1. 0 \in 0..Len(sql)
      OBVIOUS
    <2>2. run[0] = [status |-> status, halted |-> FALSE]
      BY <1>1, <2>1 DEF Running
    <2>3. run[0] \in Outcomes
      BY <2>2 DEF Outcomes
    <2> QED BY <2>3
  <1>3. ASSUME NEW n \in Nat, n \in S PROVE n + 1 \in S
    <2>1. SUFFICES ASSUME n + 1 <= Len(sql) PROVE run[n + 1] \in Outcomes
      OBVIOUS
    <2>2. run[n] \in Outcomes
      BY <1>3, <2>1
    <2>3. n + 1 \in 0..Len(sql) /\ n + 1 # 0 /\ (n + 1) - 1 = n
      BY <2>1
    <2>4. run[n + 1] = Statement(sql[n + 1], n + 1 = e, run[n])
      BY <1>1, <2>3 DEF Running
    <2> QED BY <2>2, <2>4, StatementType
  <1>4. Nat \subseteq S
    <2> HIDE DEF S
    <2> QED BY <1>2, <1>3, SetInduction
  <1> QED BY <1>1, <1>4

----------------------------------------------------------------------------
\* The handlers on the state of one connection: its type, and what they keep.
LEMMA TextFacts ==
    ASSUME NEW sql \in Texts
    PROVE  sql \in Seq(Kinds) /\ sql # <<>> /\ Len(sql) \in Nat
  BY StreamAssumption

LEMMA ReleasedType == Released \in ConnStates
  <1>1. NoStatements \in [Names -> ParseInfos \union {None}]
    BY DEF NoStatements
  <1> QED BY <1>1 DEF Released, ConnStates, SQLOrNone, Status

LEMMA ParsersFacts ==
    ASSUME NEW p \in ConnStates
    PROVE  LET q == parsersFor(p)
           IN  /\ q \in ConnStates
               /\ q.client = IF p.client = "none" THEN "startup" ELSE p.client
               /\ q.server = IF p.client = "none" THEN "typed" ELSE p.server
               /\ q.sm = p.sm /\ q.txid = p.txid /\ q.seq = p.seq /\ q.parsed = p.parsed
               /\ q.copy = p.copy /\ q.timing = p.timing /\ q.lastSQL = p.lastSQL
  BY DEF parsersFor, ConnStates

LEMMA FeedFacts ==
    ASSUME NEW p \in ConnStates
    PROVE  LET q == Feed(p)
           IN  /\ q \in ConnStates
               /\ q.client = IF p.client = "typed" THEN "typed" ELSE "stuck"
               /\ q.server = p.server
               /\ q.sm = p.sm /\ q.txid = p.txid /\ q.seq = p.seq /\ q.parsed = p.parsed
               /\ q.copy = p.copy /\ q.timing = p.timing /\ q.lastSQL = p.lastSQL
  BY DEF Feed, ConnStates

\* What a handler of a client message finds.
LEMMA ObservedFacts ==
    ASSUME NEW p \in ConnStates
    PROVE  LET q == Feed(parsersFor(p))
           IN  /\ q \in ConnStates
               /\ q.client = IF p.client = "typed" THEN "typed" ELSE "stuck"
               /\ q.server = IF p.client = "none" THEN "typed" ELSE p.server
               /\ q.sm = p.sm /\ q.txid = p.txid /\ q.seq = p.seq /\ q.parsed = p.parsed
               /\ q.copy = p.copy /\ q.timing = p.timing /\ q.lastSQL = p.lastSQL
  <1> DEFINE m == parsersFor(p)
  <1>1. /\ m \in ConnStates
        /\ m.client = IF p.client = "none" THEN "startup" ELSE p.client
        /\ m.server = IF p.client = "none" THEN "typed" ELSE p.server
        /\ m.sm = p.sm /\ m.txid = p.txid /\ m.seq = p.seq /\ m.parsed = p.parsed
        /\ m.copy = p.copy /\ m.timing = p.timing /\ m.lastSQL = p.lastSQL
    BY ParsersFacts
  <1> HIDE DEF m
  <1>2. Feed(m) = Feed(parsersFor(p))
    BY DEF m
  <1> QED BY <1>1, <1>2, FeedFacts

LEMMA ClassifyType == \A sql : Classify(sql) \in Classes
  <1>1. \A kind : classifySingle(kind) \in Classes
    BY DEF classifySingle, Classes, RuleClasses
  <1> QED BY <1>1 DEF Classify

LEMMA OnStatementType ==
    ASSUME NEW status \in Status, NEW class
    PROVE  OnStatement(status, class) \in Status
  BY DEF OnStatement, Status

\* A text that dispatch takes for the pooler's reset.
Resets(sql) == cfg.pooler /\ Classify(sql) = "Utility" /\ isPoolerResetQuery(sql)

LEMMA DispatchFacts ==
    ASSUME NEW p \in ConnStates, NEW sql \in Texts, counter \in Nat
    PROVE  LET d == dispatch(p, sql)
           IN  /\ d \in ConnStates
               /\ d.client = p.client /\ d.server = p.server
               /\ d.sm = OnStatement(p.sm, Classify(sql))
               /\ d.lastSQL = sql
               /\ Resets(sql) => d.parsed = NoStatements /\ d.copy = None /\ d.timing = FALSE /\ d.txid = 0
               /\ ~Resets(sql) => /\ d.parsed = p.parsed /\ d.copy = p.copy /\ d.timing = p.timing
                                  /\ d.txid = IF Classify(sql) = "CommitRollback" THEN 0 ELSE TxIDFor(p, sql)
  <1> DEFINE class == Classify(sql)
             s == OnStatement(p.sm, class)
             x == IF class = "CommitRollback" THEN 0 ELSE TxIDFor(p, sql)
             k == p.seq + 1
             q == [p EXCEPT !.seq = @ + 1, !.lastSQL = sql, !.sm = OnStatement(@, class), !.txid = x]
  <1>1. s \in Status
    BY OnStatementType DEF ConnStates
  <1>2. x \in Nat /\ k \in Nat
    BY DEF TxIDFor, ConnStates
  <1>3. q = [p EXCEPT !.seq = k, !.lastSQL = sql, !.sm = s, !.txid = x]
    BY DEF ConnStates
  <1>4. dispatch(p, sql) = IF Resets(sql) THEN resetPoolerSession(q) ELSE q
    BY Zenon DEF dispatch, Resets
  <1>5. sql \in SQLOrNone
    BY DEF SQLOrNone
  <1> HIDE DEF s, x, k
  <1>6. /\ q \in ConnStates
        /\ q.client = p.client /\ q.server = p.server /\ q.sm = s /\ q.txid = x
        /\ q.lastSQL = sql /\ q.parsed = p.parsed /\ q.copy = p.copy /\ q.timing = p.timing
    <2> DEFINE w == [p EXCEPT !.seq = k, !.lastSQL = sql, !.sm = s, !.txid = x]
    <2>1. /\ w \in ConnStates
          /\ w.client = p.client /\ w.server = p.server /\ w.sm = s /\ w.txid = x
          /\ w.lastSQL = sql /\ w.parsed = p.parsed /\ w.copy = p.copy /\ w.timing = p.timing
      BY <1>1, <1>2, <1>5 DEF ConnStates
    <2>2. q = w
      BY <1>3, Zenon
    <2> HIDE DEF w, q
    <2> QED BY <2>1, <2>2
  <1>7. NoStatements \in [Names -> ParseInfos \union {None}]
    BY DEF NoStatements
  <1> HIDE DEF q
  <1>8. LET r == resetPoolerSession(q)
        IN  /\ r \in ConnStates
            /\ r.client = q.client /\ r.server = q.server /\ r.sm = q.sm /\ r.txid = 0
            /\ r.lastSQL = q.lastSQL /\ r.parsed = NoStatements /\ r.copy = None /\ r.timing = FALSE
    BY <1>6, <1>7 DEF resetPoolerSession, ConnStates
  <1>9. CASE Resets(sql)
    <2>1. dispatch(p, sql) = resetPoolerSession(q)
      BY <1>4, <1>9
    <2> QED BY <1>6, <1>8, <1>9, <2>1 DEF s
  <1>10. CASE ~Resets(sql)
    <2>1. dispatch(p, sql) = q
      BY <1>4, <1>10
    <2> QED BY <1>6, <1>10, <2>1 DEF s, x
  <1> QED BY <1>9, <1>10

LEMMA TimerFacts ==
    ASSUME NEW p \in ConnStates
    PROVE  LET q == OnClientQuery(p)
           IN  /\ q \in ConnStates /\ q.timing = TRUE
               /\ q.client = p.client /\ q.server = p.server /\ q.sm = p.sm /\ q.txid = p.txid
               /\ q.parsed = p.parsed /\ q.copy = p.copy /\ q.lastSQL = p.lastSQL
  BY DEF OnClientQuery, ConnStates

LEMMA CopyStartFacts ==
    ASSUME NEW p \in ConnStates, NEW sql \in Texts
    PROVE  LET q == CopyStart(p, sql)
           IN  /\ q \in ConnStates
               /\ q.copy = [sql |-> sql, data |-> 0, overflow |-> FALSE]
               /\ q.client = p.client /\ q.server = p.server /\ q.sm = p.sm /\ q.txid = p.txid
               /\ q.parsed = p.parsed /\ q.timing = p.timing /\ q.lastSQL = p.lastSQL
  <1>1. [sql |-> sql, data |-> 0, overflow |-> FALSE] \in CopyBuffers
    BY StreamAssumption DEF CopyBuffers
  <1> QED BY <1>1 DEF CopyStart, ConnStates

LEMMA CopyAppendType ==
    ASSUME NEW copy \in CopyBuffers \union {None}
    PROVE  CopyAppend(copy) \in CopyBuffers \union {None}
  <1>1. CASE copy = None \/ copy.overflow
    BY <1>1 DEF CopyAppend
  <1>2. CASE copy # None /\ ~copy.overflow
    <2>1. copy \in CopyBuffers /\ MaxCopy \in Nat
      BY <1>2, StreamAssumption
    <2>2. CASE copy.data + 1 > MaxCopy
      <3>1. CopyAppend(copy) = [copy EXCEPT !.overflow = TRUE, !.data = 0]
        BY <1>2, <2>2 DEF CopyAppend
      <3>2. 0 \in 0..MaxCopy
        BY <2>1
      <3> QED BY <2>1, <3>1, <3>2 DEF CopyBuffers
    <2>3. CASE ~(copy.data + 1 > MaxCopy)
      <3>1. CopyAppend(copy) = [copy EXCEPT !.data = copy.data + 1]
        BY <1>2, <2>3 DEF CopyAppend
      <3> QED BY <2>1, <2>3, <3>1 DEF CopyBuffers
    <2> QED BY <2>2, <2>3
  <1> QED BY <1>1, <1>2

\* A change of the COPY buffer alone.
LEMMA CopyUpdateFacts ==
    ASSUME NEW p \in ConnStates, NEW k \in CopyBuffers \union {None}
    PROVE  LET q == [p EXCEPT !.copy = k]
           IN  /\ q \in ConnStates /\ q.copy = k
               /\ q.client = p.client /\ q.server = p.server /\ q.sm = p.sm /\ q.txid = p.txid
               /\ q.parsed = p.parsed /\ q.timing = p.timing /\ q.lastSQL = p.lastSQL
  BY DEF ConnStates

LEMMA ParseFacts ==
    ASSUME NEW p \in ConnStates, NEW n \in Names, NEW sql \in Texts, NEW owner \in Nat
    PROVE  LET q == onParse(p, n, sql, owner)
           IN  /\ q \in ConnStates
               /\ q.client = p.client /\ q.server = p.server /\ q.sm = p.sm /\ q.txid = p.txid
               /\ q.copy = p.copy /\ q.timing = p.timing /\ q.lastSQL = p.lastSQL
               /\ \A m \in Names : m # n => q.parsed[m] = p.parsed[m]
               /\ q.parsed[n] = IF cfg.extended /\ sql \notin Oversized
                                THEN [sql |-> sql, owner |-> owner] ELSE p.parsed[n]
  <1>1. [sql |-> sql, owner |-> owner] \in ParseInfos
    BY DEF ParseInfos
  <1>2. CASE cfg.extended /\ sql \notin Oversized
    <2> DEFINE x == [sql |-> sql, owner |-> owner]
    <2>1. onParse(p, n, sql, owner) = [p EXCEPT !.parsed[n] = x]
      BY <1>2 DEF onParse
    <2> HIDE DEF x
    <2>2. x \in ParseInfos
      BY <1>1 DEF x
    <2>3. p.parsed \in [Names -> ParseInfos \union {None}]
      BY DEF ConnStates
    <2>4. [p.parsed EXCEPT ![n] = x] \in [Names -> ParseInfos \union {None}]
      BY <2>2, <2>3
    <2>5. LET q == [p EXCEPT !.parsed[n] = x]
          IN  /\ q \in ConnStates
              /\ q.client = p.client /\ q.server = p.server /\ q.sm = p.sm /\ q.txid = p.txid
              /\ q.copy = p.copy /\ q.timing = p.timing /\ q.lastSQL = p.lastSQL
              /\ q.parsed = [p.parsed EXCEPT ![n] = x]
      BY <2>4 DEF ConnStates
    <2> QED BY <1>2, <2>1, <2>3, <2>5 DEF x
  <1>3. CASE ~(cfg.extended /\ sql \notin Oversized)
    BY <1>3 DEF onParse
  <1> QED BY <1>2, <1>3

LEMMA ReadyFacts ==
    ASSUME NEW p \in ConnStates, NEW status \in Status
    PROVE  LET q == onReady(p, status)
           IN  /\ q \in ConnStates
               /\ q.client = p.client /\ q.server = p.server /\ q.txid = p.txid
               /\ q.parsed = p.parsed /\ q.copy = p.copy /\ q.lastSQL = p.lastSQL
               /\ q.sm = IF p.server = "typed" THEN status ELSE p.sm
               /\ q.timing = IF p.server = "typed" THEN FALSE ELSE p.timing
  BY DEF onReady, ConnStates

\* What a Simple_Query does to the connection's state.
LEMMA QueryFacts ==
    ASSUME NEW p \in ConnStates, NEW sql \in Texts, counter \in Nat
    PROVE  LET q == onQuery(p, sql)
           IN  /\ q \in ConnStates
               /\ q.client = p.client /\ q.server = p.server
               /\ sql \in Oversized => q = p
               /\ sql \notin Oversized => q.timing = TRUE
               /\ sql \notin Oversized /\ Classify(sql) = "CopyFrom"
                     => /\ q.sm = p.sm /\ q.txid = p.txid /\ q.parsed = p.parsed /\ q.lastSQL = p.lastSQL
                        /\ q.copy = [sql |-> sql, data |-> 0, overflow |-> FALSE]
               /\ Dispatches(sql)
                     => /\ q.sm = OnStatement(p.sm, Classify(sql)) /\ q.lastSQL = sql
                        /\ q.txid = dispatch(p, sql).txid
                        /\ q.parsed = IF Resets(sql) THEN NoStatements ELSE p.parsed
                        /\ q.copy = IF Resets(sql) THEN None ELSE p.copy
  <1>1. CASE sql \in Oversized
    <2>1. onQuery(p, sql) = p /\ ~Dispatches(sql)
      BY <1>1 DEF onQuery, Dispatches
    <2> QED BY <1>1, <2>1
  <1>2. CASE sql \notin Oversized /\ Classify(sql) = "CopyFrom"
    <2>1. onQuery(p, sql) = OnClientQuery(CopyStart(p, sql))
      BY <1>2 DEF onQuery
    <2>2. ~Dispatches(sql)
      BY <1>2 DEF Dispatches
    <2> DEFINE k == CopyStart(p, sql)
    <2>3. /\ k \in ConnStates
          /\ k.copy = [sql |-> sql, data |-> 0, overflow |-> FALSE]
          /\ k.client = p.client /\ k.server = p.server /\ k.sm = p.sm /\ k.txid = p.txid
          /\ k.parsed = p.parsed /\ k.timing = p.timing /\ k.lastSQL = p.lastSQL
      BY CopyStartFacts
    <2>4. onQuery(p, sql) = OnClientQuery(k)
      BY <2>1
    <2> HIDE DEF k
    <2> QED BY <1>2, <2>2, <2>3, <2>4, TimerFacts
  <1>3. CASE Dispatches(sql)
    <2>1. onQuery(p, sql) = OnClientQuery(dispatch(p, sql))
      BY <1>3 DEF onQuery, Dispatches
    <2> DEFINE k == dispatch(p, sql)
    <2>2. /\ k \in ConnStates
          /\ k.client = p.client /\ k.server = p.server
          /\ k.sm = OnStatement(p.sm, Classify(sql))
          /\ k.lastSQL = sql
          /\ k.parsed = IF Resets(sql) THEN NoStatements ELSE p.parsed
          /\ k.copy = IF Resets(sql) THEN None ELSE p.copy
      BY DispatchFacts
    <2>3. onQuery(p, sql) = OnClientQuery(k) /\ dispatch(p, sql) = k
      BY <2>1
    <2>4. sql \notin Oversized /\ Classify(sql) # "CopyFrom"
      BY <1>3 DEF Dispatches
    <2> HIDE DEF k
    <2> DEFINE q == OnClientQuery(k)
    <2>5. /\ q \in ConnStates /\ q.timing = TRUE
          /\ q.client = k.client /\ q.server = k.server /\ q.sm = k.sm /\ q.txid = k.txid
          /\ q.parsed = k.parsed /\ q.copy = k.copy /\ q.lastSQL = k.lastSQL
      BY <2>2, TimerFacts
    <2>6. onQuery(p, sql) = q
      BY <2>3
    <2> HIDE DEF q
    <2> QED BY <2>2, <2>3, <2>4, <2>5, <2>6
  <1> QED BY <1>1, <1>2, <1>3 DEF Dispatches

LEMMA CommandFacts ==
    ASSUME NEW kind, NEW n, NEW sql, NEW p, NEW seen \in BOOLEAN, NEW owner
    PROVE  LET cmd == Command(kind, n, sql, p, seen, owner)
           IN  /\ cmd.kind = kind /\ cmd.name = n /\ cmd.sql = sql /\ cmd.owner = owner
               /\ cmd.seen <=> seen
               /\ cmd.judged = p.sm
               /\ cmd.duplex <=> p.server = "typed"
               /\ ~cmd.ended
               /\ cmd.sent = 0 /\ cmd.data = 0
               /\ cmd.event = IF seen THEN sql ELSE None
               /\ cmd.txid = IF seen THEN TxIDFor(p, sql) ELSE 0
               /\ cmd.kept <=> seen /\ Decide(cfg.mode, sql, p.sm) = Keep
  <1> DEFINE cmd == Command(kind, n, sql, p, seen, owner)
  <1>1. /\ cmd.kind = kind /\ cmd.name = n /\ cmd.sql = sql /\ cmd.owner = owner
        /\ cmd.judged = p.sm /\ cmd.sent = 0 /\ cmd.data = 0
        /\ cmd.event = IF seen THEN sql ELSE None
        /\ cmd.txid = IF seen THEN TxIDFor(p, sql) ELSE 0
    BY DEF Command
  <1>2. cmd.seen = seen /\ cmd.ended = FALSE
    BY DEF Command
  <1>3. cmd.duplex = (p.server = "typed")
    BY DEF Command
  <1>4. (cmd.seen <=> seen) /\ ~cmd.ended
    BY <1>2
  <1>5. cmd.duplex <=> p.server = "typed"
    BY <1>3
  <1>6. cmd.kept = (seen /\ Decide(cfg.mode, sql, p.sm) = Keep)
    BY DEF Command
  <1> HIDE DEF cmd
  <1>7. cmd.kept <=> seen /\ Decide(cfg.mode, sql, p.sm) = Keep
    BY <1>6
  <1> QED BY <1>1, <1>4, <1>5, <1>7, Zenon DEF cmd

----------------------------------------------------------------------------
\* Commands as the actions make them: what the server will be given to run is a text.
Formed == {cmd \in Commands : /\ cmd.kind # "bind" \/ cmd.seen => cmd.sql \in Texts
                              /\ cmd.kind \in {"parse", "bind"} => cmd.name \in Names
                              /\ cmd.kept => cmd.seen
                              /\ cmd.seen => cmd.event \in Texts}
AllFormed == sending \in [Conns -> Seq(Formed)]

\* A COPY the server has not answered is the only command on its way.
CopySentAlone ==
    \A c \in Conns : copyIn[c] # None /\ sending[c] # <<>>
        => Len(sending[c]) = 1 /\ sending[c][1].kind \in {"query", "reset"} /\ Streams(sending[c][1].sql)

StreamInv == TypeOK /\ AllFormed /\ CopySentAlone

\* An action on one connection leaves the others alone.
Others(c) == \A d \in Conns \ {c} :
    /\ sp'[d] = sp[d] /\ tcp'[d] = tcp[d] /\ srv'[d] = srv[d] /\ sending'[d] = sending[d]
    /\ copyIn'[d] = copyIn[d] /\ believes'[d] = believes[d] /\ reparsed'[d] = reparsed[d]

LEMMA NewCommand ==
    ASSUME NEW kind \in {"query", "reset", "parse", "bind"}, NEW n \in Names \union {None},
           NEW sql \in SQLOrNone, NEW p \in ConnStates, NEW seen \in BOOLEAN, NEW owner \in Nat,
           counter \in Nat, kind # "bind" \/ seen => sql \in Texts,
           kind \in {"parse", "bind"} => n \in Names
    PROVE  Command(kind, n, sql, p, seen, owner) \in Formed
  <1> DEFINE k == seen /\ Decide(cfg.mode, sql, p.sm) = Keep
             x == IF seen THEN TxIDFor(p, sql) ELSE 0
             d == p.server = "typed"
             v == IF seen THEN sql ELSE None
             cmd == [kind |-> kind, name |-> n, sql |-> sql, owner |-> owner, seen |-> seen, judged |-> p.sm,
                     duplex |-> d, kept |-> k, txid |-> x, event |-> v, ended |-> FALSE, sent |-> 0, data |-> 0]
  <1>1. k \in BOOLEAN /\ d \in BOOLEAN /\ (k => seen)
    BY Zenon
  <1>2. x \in Nat
    BY DEF TxIDFor, ConnStates
  <1>3. p.sm \in Status
    BY DEF ConnStates
  <1>4. Command(kind, n, sql, p, seen, owner) = cmd
    BY DEF Command
  <1>v. v \in SQLOrNone /\ (seen => v \in Texts)
    BY DEF SQLOrNone
  <1> HIDE DEF k, x, d, v
  <1>5. cmd \in Commands
    BY <1>1, <1>2, <1>3, <1>v DEF Commands
  <1>6. cmd.kind = kind /\ cmd.name = n /\ cmd.sql = sql /\ cmd.event = v
    OBVIOUS
  <1>7. cmd.seen = seen /\ cmd.kept = k
    OBVIOUS
  <1> HIDE DEF cmd
  <1>8. cmd.kept => cmd.seen
    BY <1>1, <1>7
  <1>9. cmd.kind # "bind" \/ cmd.seen => cmd.sql \in Texts
    BY <1>6, <1>7
  <1>e. cmd.seen => cmd.event \in Texts
    BY <1>v, <1>6, <1>7
  <1>10. cmd \in Formed
    BY <1>5, <1>6, <1>8, <1>9, <1>e DEF Formed
  <1> QED BY <1>4, <1>10

LEMMA TypeFacts ==
    ASSUME TypeOK, NEW c \in Conns
    PROVE  /\ sp[c] \in ConnStates /\ sp \in [Conns -> ConnStates]
           /\ srv[c] \in Sessions /\ srv[c].status \in Status /\ srv[c].owner \in Nat
           /\ srv[c].prep \in [Names -> SQLOrNone]
           /\ sending[c] \in Seq(Commands) /\ counter \in Nat /\ messages \in 0..MaxMessages
           /\ copyIn[c] \in 0..MaxSegments \union {None}
           /\ MaxMessages \in Nat /\ MaxSegments \in Nat
  BY StreamAssumption DEF TypeOK, Sessions

LEMMA InitStream == Init => StreamInv
  <1> SUFFICES ASSUME Init PROVE StreamInv
    OBVIOUS
  <1>1. sp \in [Conns -> ConnStates]
    BY ReleasedType DEF Init
  <1>2. Session(0) \in Sessions
    BY DEF Session, Sessions, NoStatements, SQLOrNone, Status
  <1>3. srv \in [Conns -> Sessions]
    BY <1>2 DEF Init
  <1>4. /\ cfg \in Configs /\ counter \in Nat /\ sending \in [Conns -> Seq(Commands)] /\ AllFormed
        /\ copyIn \in [Conns -> 0..MaxSegments \union {None}]
        /\ believes \in [Conns -> SUBSET Names]
    BY DEF Init, AllFormed
  <1>5. tcp \in [Conns -> {"closed", "startup", "cancelling", "ready"}] /\ messages \in 0..MaxMessages
    BY StreamAssumption DEF Init
  <1>6. /\ shadow \in [Conns -> Status] /\ blocks \in [Conns -> SUBSET Nat] /\ past \subseteq Nat
        /\ strayed \in [Conns -> BOOLEAN] /\ reparsed \in [Conns -> SUBSET Names]
    BY DEF Init, Status
  <1>7. CopySentAlone
    BY DEF Init, CopySentAlone
  <1> QED BY <1>1, <1>3, <1>4, <1>5, <1>6, <1>7 DEF StreamInv, TypeOK

----------------------------------------------------------------------------
\* What each action does to the connection it is about.
LEMMA ConnectStep ==
    ASSUME StreamInv, NEW c \in Conns, Connect(c)
    PROVE  /\ StreamInv' /\ Others(c)
           /\ tcp[c] = "closed" /\ tcp'[c] = "startup"
           /\ UNCHANGED <<cfg, counter, sp, srv, sending, copyIn, believes, reparsed>>
  <1>1. /\ UNCHANGED <<cfg, counter, sp, srv, sending, copyIn, believes, messages, shadow, blocks, past, strayed, reparsed>>
        /\ tcp[c] = "closed" /\ tcp' = [tcp EXCEPT ![c] = "startup"]
    BY DEF Connect, Open, hist
  <1>2. tcp' \in [Conns -> {"closed", "startup", "cancelling", "ready"}] /\ tcp'[c] = "startup"
    BY <1>1 DEF StreamInv, TypeOK
  <1>3. Others(c)
    BY <1>1 DEF Others, StreamInv, TypeOK
  <1>4. StreamInv'
    BY <1>1, <1>2 DEF StreamInv, TypeOK, AllFormed, CopySentAlone
  <1> QED BY <1>1, <1>2, <1>3, <1>4

LEMMA RefuseSSLStep ==
    ASSUME StreamInv, NEW c \in Conns, RefuseSSL(c)
    PROVE  /\ StreamInv' /\ Others(c)
           /\ tcp[c] = "startup"
           /\ sp'[c] = [parsersFor(sp[c]) EXCEPT !.server = "stuck"]
           /\ UNCHANGED <<cfg, counter, tcp, srv, sending, copyIn, believes, reparsed>>
  <1> DEFINE v == [parsersFor(sp[c]) EXCEPT !.server = "stuck"]
  <1>1. /\ UNCHANGED <<cfg, counter, tcp, srv, sending, copyIn, believes, messages, shadow, blocks, past, strayed, reparsed>>
        /\ tcp[c] = "startup" /\ sp' = [sp EXCEPT ![c] = v]
    BY DEF RefuseSSL, env, hist
  <1>2. v \in ConnStates
    <2>1. parsersFor(sp[c]) \in ConnStates
      BY TypeFacts, ParsersFacts DEF StreamInv
    <2> QED BY <2>1 DEF ConnStates
  <1> HIDE DEF v
  <1>3. sp' \in [Conns -> ConnStates] /\ sp'[c] = v
    BY <1>1, <1>2 DEF StreamInv, TypeOK
  <1>4. Others(c)
    BY <1>1 DEF Others, StreamInv, TypeOK
  <1>5. StreamInv'
    BY <1>1, <1>3 DEF StreamInv, TypeOK, AllFormed, CopySentAlone
  <1> QED BY <1>1, <1>3, <1>4, <1>5 DEF v

LEMMA CancelStep ==
    ASSUME StreamInv, NEW c \in Conns, Cancel(c)
    PROVE  /\ StreamInv' /\ Others(c)
           /\ tcp[c] = "startup" /\ tcp'[c] = "cancelling"
           /\ sp'[c] = parsersFor(sp[c])
           /\ UNCHANGED <<cfg, counter, srv, sending, copyIn, believes, reparsed>>
  <1> DEFINE v == parsersFor(sp[c])
  <1>1. /\ UNCHANGED <<cfg, counter, srv, sending, copyIn, believes, messages, shadow, blocks, past, strayed, reparsed>>
        /\ tcp[c] = "startup" /\ tcp' = [tcp EXCEPT ![c] = "cancelling"] /\ sp' = [sp EXCEPT ![c] = v]
    BY DEF Cancel, Open, hist
  <1>2. v \in ConnStates
    BY TypeFacts, ParsersFacts DEF StreamInv
  <1> HIDE DEF v
  <1>3. sp' \in [Conns -> ConnStates] /\ sp'[c] = v
    BY <1>1, <1>2 DEF StreamInv, TypeOK
  <1>4. tcp' \in [Conns -> {"closed", "startup", "cancelling", "ready"}] /\ tcp'[c] = "cancelling"
    BY <1>1 DEF StreamInv, TypeOK
  <1>5. Others(c)
    BY <1>1 DEF Others, StreamInv, TypeOK
  <1>6. StreamInv'
    BY <1>1, <1>3, <1>4 DEF StreamInv, TypeOK, AllFormed, CopySentAlone
  <1> QED BY <1>1, <1>3, <1>4, <1>5, <1>6 DEF v

LEMMA StartupStep ==
    ASSUME StreamInv, NEW c \in Conns, Startup(c)
    PROVE  /\ StreamInv' /\ Others(c)
           /\ tcp[c] = "startup" /\ tcp'[c] = "ready"
           /\ sp'[c] = onReady([parsersFor(sp[c]) EXCEPT !.client = "typed"], "Idle")
           /\ UNCHANGED <<cfg, counter, srv, sending, copyIn, believes, reparsed>>
  <1> DEFINE v == onReady([parsersFor(sp[c]) EXCEPT !.client = "typed"], "Idle")
  <1>1. /\ UNCHANGED <<cfg, counter, srv, sending, copyIn, believes, messages, shadow, blocks, past, strayed, reparsed>>
        /\ tcp[c] = "startup" /\ tcp' = [tcp EXCEPT ![c] = "ready"] /\ sp' = [sp EXCEPT ![c] = v]
    BY DEF Startup, Open, hist
  <1>2. v \in ConnStates
    <2>1. parsersFor(sp[c]) \in ConnStates
      BY TypeFacts, ParsersFacts DEF StreamInv
    <2>2. [parsersFor(sp[c]) EXCEPT !.client = "typed"] \in ConnStates
      BY <2>1 DEF ConnStates
    <2>3. "Idle" \in Status
      BY DEF Status
    <2> QED BY <2>2, <2>3, ReadyFacts
  <1> HIDE DEF v
  <1>3. sp' \in [Conns -> ConnStates] /\ sp'[c] = v
    BY <1>1, <1>2 DEF StreamInv, TypeOK
  <1>4. tcp' \in [Conns -> {"closed", "startup", "cancelling", "ready"}] /\ tcp'[c] = "ready"
    BY <1>1 DEF StreamInv, TypeOK
  <1>5. Others(c)
    BY <1>1 DEF Others, StreamInv, TypeOK
  <1>6. StreamInv'
    BY <1>1, <1>3, <1>4 DEF StreamInv, TypeOK, AllFormed, CopySentAlone
  <1> QED BY <1>1, <1>3, <1>4, <1>5, <1>6 DEF v

LEMMA FinStep ==
    ASSUME StreamInv, NEW c \in Conns, Fin(c)
    PROVE  /\ StreamInv' /\ Others(c)
           /\ tcp'[c] = "closed" /\ sp'[c] = Released /\ srv'[c] = Session(0)
           /\ sending'[c] = <<>> /\ copyIn'[c] = None /\ believes'[c] = {} /\ reparsed'[c] = {}
           /\ UNCHANGED <<cfg, counter>>
  <1>1. Session(0) \in Sessions
    BY DEF Session, Sessions, NoStatements, SQLOrNone, Status
  <1>2. /\ sp' \in [Conns -> ConnStates] /\ sp'[c] = Released
        /\ srv' \in [Conns -> Sessions] /\ srv'[c] = Session(0)
    BY <1>1, ReleasedType DEF Fin, StreamInv, TypeOK
  <1>3. /\ tcp' \in [Conns -> {"closed", "startup", "cancelling", "ready"}] /\ tcp'[c] = "closed"
        /\ sending' \in [Conns -> Seq(Commands)] /\ sending' \in [Conns -> Seq(Formed)] /\ sending'[c] = <<>>
        /\ copyIn' \in [Conns -> 0..MaxSegments \union {None}] /\ copyIn'[c] = None
        /\ believes' \in [Conns -> SUBSET Names] /\ believes'[c] = {}
    BY DEF Fin, StreamInv, TypeOK, AllFormed
  <1>4. /\ shadow' \in [Conns -> Status] /\ blocks' \in [Conns -> SUBSET Nat] /\ past' \subseteq Nat
        /\ strayed' \in [Conns -> BOOLEAN] /\ reparsed' \in [Conns -> SUBSET Names] /\ reparsed'[c] = {}
    BY DEF Fin, StreamInv, TypeOK, Status
  <1>5. UNCHANGED <<cfg, counter, messages>>
    BY DEF Fin
  <1>6. Others(c)
    BY DEF Others, Fin, StreamInv, TypeOK
  <1>7. TypeOK' /\ AllFormed'
    BY <1>2, <1>3, <1>4, <1>5 DEF StreamInv, TypeOK, AllFormed
  <1>8. CopySentAlone'
    BY <1>3, <1>6 DEF StreamInv, CopySentAlone, Others
  <1> QED BY <1>2, <1>3, <1>4, <1>5, <1>6, <1>7, <1>8 DEF StreamInv

LEMMA ReleaseStep ==
    ASSUME StreamInv, NEW c \in Conns, Release(c)
    PROVE  /\ StreamInv' /\ Others(c)
           /\ sp'[c] = Released /\ reparsed'[c] = {}
           /\ UNCHANGED <<cfg, counter, tcp, srv, sending, copyIn, believes>>
  <1>1. sp' \in [Conns -> ConnStates] /\ sp'[c] = Released
    BY ReleasedType DEF Release, StreamInv, TypeOK
  <1>2. reparsed' \in [Conns -> SUBSET Names] /\ reparsed'[c] = {}
    BY DEF Release, StreamInv, TypeOK
  <1>3. UNCHANGED <<cfg, counter, tcp, srv, sending, copyIn, believes, messages, shadow, blocks, past, strayed>>
    BY DEF Release, env
  <1>4. Others(c)
    BY <1>3 DEF Others, Release, StreamInv, TypeOK
  <1>5. StreamInv'
    BY <1>1, <1>2, <1>3 DEF StreamInv, TypeOK, AllFormed, CopySentAlone
  <1> QED BY <1>1, <1>2, <1>3, <1>4, <1>5
\* A command that is sent is the only one on its way when it is a COPY.
LEMMA SendFacts ==
    ASSUME StreamInv, NEW c \in Conns, NEW sql, MaySend(c, sql), NEW cmd \in Formed, Send(c, cmd)
    PROVE  /\ sending' \in [Conns -> Seq(Formed)] /\ sending' \in [Conns -> Seq(Commands)]
           /\ sending'[c] = Append(sending[c], cmd)
           /\ \A d \in Conns \ {c} : sending'[d] = sending[d]
           /\ messages' \in 0..MaxMessages
           /\ tcp[c] = "ready" /\ copyIn[c] = None
           /\ Len(sending[c]) < Depth
           /\ Streams(sql) => sending[c] = <<>>
  <1>1. /\ sending \in [Conns -> Seq(Formed)] /\ sending \in [Conns -> Seq(Commands)]
        /\ messages \in 0..MaxMessages /\ cmd \in Commands
    BY DEF StreamInv, AllFormed, TypeOK, Formed
  <1>2. sending' = [sending EXCEPT ![c] = Append(sending[c], cmd)] /\ messages' = messages + 1
    BY DEF Send
  <1>3. Append(sending[c], cmd) \in Seq(Formed) /\ Append(sending[c], cmd) \in Seq(Commands)
    BY <1>1
  <1>4. tcp[c] = "ready" /\ copyIn[c] = None /\ messages < MaxMessages /\ Len(sending[c]) < Depth
        /\ (Streams(sql) => sending[c] = <<>>)
    BY DEF MaySend
  <1> QED BY <1>1, <1>2, <1>3, <1>4, StreamAssumption

LEMMA SimpleQueryStep ==
    ASSUME StreamInv, NEW c \in Conns, NEW kind \in {"query", "reset"}, NEW sql \in Texts,
           SimpleQuery(c, kind, sql)
    PROVE  /\ StreamInv' /\ Others(c)
           /\ tcp[c] = "ready" /\ copyIn[c] = None /\ Len(sending[c]) < Depth
           /\ sp'[c] = LET p == Observed(c) IN IF p.client = "typed" THEN onQuery(p, sql) ELSE p
           /\ sending'[c] = Append(sending[c], LET p == Observed(c) IN
                 Command(kind, None, sql, p, p.client = "typed" /\ Dispatches(sql), srv[c].owner))
           /\ copyIn'[c] \in {0, None} /\ (copyIn'[c] # None => Streams(sql))
           /\ UNCHANGED <<cfg, tcp, srv, believes, reparsed>>
  <1> DEFINE p == Observed(c)
             seen == p.client = "typed" /\ Dispatches(sql)
             v == IF p.client = "typed" THEN onQuery(p, sql) ELSE p
             cmd == Command(kind, None, sql, p, seen, srv[c].owner)
             k == IF Streams(sql) /\ srv[c].status # "Failed" THEN 0 ELSE None
  <1>1. /\ MaySend(c, sql) /\ Send(c, cmd)
        /\ sp' = [sp EXCEPT ![c] = v]
        /\ counter' \in {counter, counter + 1}
        /\ copyIn' = [copyIn EXCEPT ![c] = k]
        /\ UNCHANGED <<cfg, tcp, srv, believes, shadow, blocks, past, strayed, reparsed>>
    BY DEF SimpleQuery, hist
  <1>2. /\ p \in ConnStates /\ counter \in Nat /\ srv[c].owner \in Nat
    BY TypeFacts, ObservedFacts DEF Observed, StreamInv
  <1>3. seen \in BOOLEAN
    BY Zenon
  <1>4. v \in ConnStates
    <2>1. onQuery(p, sql) \in ConnStates
      <3> HIDE DEF p
      <3> QED BY <1>2, QueryFacts
    <2> QED BY <1>2, <2>1
  <1>5. cmd \in Formed
    <2> HIDE DEF p, seen
    <2>1. sql \in SQLOrNone /\ None \in Names \union {None}
      BY DEF SQLOrNone
    <2> QED BY <1>2, <1>3, <2>1, NewCommand
  <1> HIDE DEF p, seen, v, cmd
  <1>6. /\ sending' \in [Conns -> Seq(Formed)] /\ sending' \in [Conns -> Seq(Commands)]
        /\ sending'[c] = Append(sending[c], cmd)
        /\ \A d \in Conns \ {c} : sending'[d] = sending[d]
        /\ messages' \in 0..MaxMessages
        /\ tcp[c] = "ready" /\ copyIn[c] = None
        /\ Len(sending[c]) < Depth
        /\ Streams(sql) => sending[c] = <<>>
    BY <1>1, <1>5, SendFacts
  <1>7. sp' \in [Conns -> ConnStates] /\ sp'[c] = v
    BY <1>1, <1>4 DEF StreamInv, TypeOK
  <1>8. /\ copyIn' \in [Conns -> 0..MaxSegments \union {None}]
        /\ copyIn'[c] \in {0, None} /\ (copyIn'[c] # None => Streams(sql))
    BY <1>1, StreamAssumption DEF StreamInv, TypeOK
  <1>9. Others(c)
    BY <1>1, <1>6 DEF Others, StreamInv, TypeOK
  <1>10. TypeOK' /\ AllFormed'
    BY <1>1, <1>2, <1>6, <1>7, <1>8 DEF StreamInv, TypeOK, AllFormed
  <1>11. CopySentAlone'
    <2>1. ASSUME copyIn'[c] # None
          PROVE  Len(sending'[c]) = 1 /\ sending'[c][1].kind \in {"query", "reset"} /\ Streams(sending'[c][1].sql)
      <3>1. sending'[c] = Append(<<>>, cmd)
        BY <1>6, <1>8, <2>1
      <3>2. cmd.kind = kind /\ cmd.sql = sql
        BY DEF cmd, Command
      <3> QED BY <1>8, <2>1, <3>1, <3>2
    <2> QED BY <1>9, <2>1 DEF StreamInv, CopySentAlone, Others
  <1>12. v = LET q == Observed(c) IN IF q.client = "typed" THEN onQuery(q, sql) ELSE q
    BY DEF v, p
  <1>13. cmd = LET q == Observed(c) IN Command(kind, None, sql, q, q.client = "typed" /\ Dispatches(sql), srv[c].owner)
    BY DEF cmd, p, seen
  <1> QED BY <1>1, <1>6, <1>7, <1>8, <1>9, <1>10, <1>11, <1>12, <1>13 DEF StreamInv

LEMMA ParseStep ==
    ASSUME StreamInv, NEW c \in Conns, NEW n \in Names, NEW sql \in Texts, Parse(c, n, sql)
    PROVE  /\ StreamInv' /\ Others(c)
           /\ tcp[c] = "ready" /\ copyIn[c] = None /\ Len(sending[c]) < Depth
           /\ n = Unnamed \/ srv[c].prep[n] = None
           /\ sp'[c] = LET p == Observed(c) IN IF p.client = "typed" THEN onParse(p, n, sql, srv[c].owner) ELSE p
           /\ sending'[c] = Append(sending[c], Command("parse", n, sql, Observed(c), FALSE, srv[c].owner))
           /\ reparsed'[c] = IF cfg.extended /\ sql \notin Oversized THEN reparsed[c] \union {n} ELSE reparsed[c] \ {n}
           /\ UNCHANGED <<cfg, counter, tcp, srv, believes, copyIn>>
  <1> DEFINE p == Observed(c)
             v == IF p.client = "typed" THEN onParse(p, n, sql, srv[c].owner) ELSE p
             cmd == Command("parse", n, sql, p, FALSE, srv[c].owner)
             r == IF cfg.extended /\ sql \notin Oversized THEN reparsed[c] \union {n} ELSE reparsed[c] \ {n}
  <1>1. /\ MaySend(c, sql) /\ Send(c, cmd)
        /\ n = Unnamed \/ srv[c].prep[n] = None
        /\ sp' = [sp EXCEPT ![c] = v]
        /\ reparsed' = [reparsed EXCEPT ![c] = r]
        /\ UNCHANGED <<cfg, counter, tcp, srv, copyIn, believes, shadow, blocks, past, strayed>>
    BY DEF Parse
  <1>2. /\ p \in ConnStates /\ counter \in Nat /\ srv[c].owner \in Nat
    BY TypeFacts, ObservedFacts DEF Observed, StreamInv
  <1>4. v \in ConnStates
    <2>1. onParse(p, n, sql, srv[c].owner) \in ConnStates
      <3> HIDE DEF p
      <3> QED BY <1>2, ParseFacts
    <2> QED BY <1>2, <2>1
  <1>5. cmd \in Formed
    <2> HIDE DEF p
    <2>1. sql \in SQLOrNone
      BY DEF SQLOrNone
    <2> QED BY <1>2, <2>1, NewCommand
  <1> HIDE DEF p, v, cmd
  <1>6. /\ sending' \in [Conns -> Seq(Formed)] /\ sending' \in [Conns -> Seq(Commands)]
        /\ sending'[c] = Append(sending[c], cmd)
        /\ \A d \in Conns \ {c} : sending'[d] = sending[d]
        /\ messages' \in 0..MaxMessages
        /\ tcp[c] = "ready" /\ copyIn[c] = None
        /\ Len(sending[c]) < Depth
    BY <1>1, <1>5, SendFacts
  <1>7. sp' \in [Conns -> ConnStates] /\ sp'[c] = v
    BY <1>1, <1>4 DEF StreamInv, TypeOK
  <1>8. reparsed' \in [Conns -> SUBSET Names] /\ reparsed'[c] = r
    BY <1>1 DEF StreamInv, TypeOK
  <1>9. Others(c)
    BY <1>1, <1>6 DEF Others, StreamInv, TypeOK
  <1>10. TypeOK' /\ AllFormed'
    BY <1>1, <1>2, <1>6, <1>7, <1>8 DEF StreamInv, TypeOK, AllFormed
  <1>11. CopySentAlone'
    BY <1>1, <1>6, <1>9 DEF StreamInv, CopySentAlone, Others
  <1> QED BY <1>1, <1>6, <1>7, <1>8, <1>9, <1>10, <1>11 DEF StreamInv, v, cmd, p

LEMMA BindStep ==
    ASSUME StreamInv, NEW c \in Conns, NEW n \in Names, Bind(c, n)
    PROVE  LET p    == Observed(c)
               info == p.parsed[n]
               seen == p.client = "typed" /\ info # None
           IN  /\ StreamInv' /\ Others(c)
               /\ tcp[c] = "ready" /\ copyIn[c] = None /\ Len(sending[c]) < Depth
               /\ seen => info \in ParseInfos
               /\ sp'[c] = IF seen THEN OnClientQuery(dispatch(p, info.sql)) ELSE p
               /\ sending'[c] = Append(sending[c], IF seen THEN Command("bind", n, info.sql, p, TRUE, info.owner)
                                                   ELSE Command("bind", n, None, p, FALSE, srv[c].owner))
               /\ UNCHANGED <<cfg, tcp, srv, believes, copyIn, reparsed>>
  <1> DEFINE p    == Observed(c)
             info == p.parsed[n]
             seen == p.client = "typed" /\ info # None
             v == IF seen THEN OnClientQuery(dispatch(p, info.sql)) ELSE p
             cmd == IF seen THEN Command("bind", n, info.sql, p, TRUE, info.owner)
                    ELSE Command("bind", n, None, p, FALSE, srv[c].owner)
             text == IF srv[c].prep[n] = None THEN <<>> ELSE srv[c].prep[n]
  <1>1. /\ MaySend(c, text) /\ Send(c, cmd)
        /\ sp' = [sp EXCEPT ![c] = v]
        /\ counter' \in {counter, counter + 1}
        /\ UNCHANGED <<cfg, tcp, srv, copyIn, believes, shadow, blocks, past, strayed, reparsed>>
    BY DEF Bind, OnBind, hist
  <1>2. /\ p \in ConnStates /\ counter \in Nat /\ srv[c].owner \in Nat
    BY TypeFacts, ObservedFacts DEF Observed, StreamInv
  <1>3. seen => info \in ParseInfos
    BY <1>2 DEF ConnStates
  <1> HIDE DEF p, info
  <1>4. v \in ConnStates /\ cmd \in Formed
    <2>1. CASE seen
      <3>1. info.sql \in Texts /\ info.owner \in Nat /\ info.sql \in SQLOrNone
        BY <1>3, <2>1 DEF ParseInfos, SQLOrNone
      <3>2. dispatch(p, info.sql) \in ConnStates
        BY <1>2, <3>1, DispatchFacts
      <3>3. v \in ConnStates
        BY <2>1, <3>2, TimerFacts
      <3>4. Command("bind", n, info.sql, p, TRUE, info.owner) \in Formed
        BY <1>2, <3>1, NewCommand
      <3> QED BY <2>1, <3>3, <3>4
    <2>2. CASE ~seen
      <3>1. None \in SQLOrNone
        BY DEF SQLOrNone
      <3>2. Command("bind", n, None, p, FALSE, srv[c].owner) \in Formed
        BY <1>2, <3>1, NewCommand
      <3> QED BY <1>2, <2>2, <3>2
    <2> QED BY <2>1, <2>2
  <1> HIDE DEF seen, v, cmd, text
  <1>6. /\ sending' \in [Conns -> Seq(Formed)] /\ sending' \in [Conns -> Seq(Commands)]
        /\ sending'[c] = Append(sending[c], cmd)
        /\ \A d \in Conns \ {c} : sending'[d] = sending[d]
        /\ messages' \in 0..MaxMessages
        /\ tcp[c] = "ready" /\ copyIn[c] = None
        /\ Len(sending[c]) < Depth
    BY <1>1, <1>4, SendFacts
  <1>7. sp' \in [Conns -> ConnStates] /\ sp'[c] = v
    BY <1>1, <1>4 DEF StreamInv, TypeOK
  <1>9. Others(c)
    BY <1>1, <1>6 DEF Others, StreamInv, TypeOK
  <1>10. TypeOK' /\ AllFormed'
    BY <1>1, <1>2, <1>6, <1>7 DEF StreamInv, TypeOK, AllFormed
  <1>11. CopySentAlone'
    BY <1>1, <1>6, <1>9 DEF StreamInv, CopySentAlone, Others
  <1> QED BY <1>1, <1>3, <1>6, <1>7, <1>9, <1>10, <1>11 DEF StreamInv, v, cmd, seen, info, p
LEMMA CopyDataStep ==
    ASSUME StreamInv, NEW c \in Conns, CopyData(c)
    PROVE  /\ StreamInv' /\ Others(c)
           /\ copyIn[c] # None /\ copyIn[c] \in Nat /\ copyIn'[c] = copyIn[c] + 1
           /\ sp'[c] = LET p == Observed(c)
                       IN  IF p.client = "typed" THEN [p EXCEPT !.copy = CopyAppend(p.copy)] ELSE p
           /\ UNCHANGED <<cfg, counter, tcp, srv, sending, believes, reparsed>>
  <1> DEFINE p == Observed(c)
             k == CopyAppend(p.copy)
             v == IF p.client = "typed" THEN [p EXCEPT !.copy = k] ELSE p
  <1>1. /\ copyIn[c] # None /\ copyIn[c] < MaxSegments
        /\ copyIn' = [copyIn EXCEPT ![c] = @ + 1]
        /\ UNCHANGED <<cfg, counter, tcp, srv, sending, believes, messages, shadow, blocks, past, strayed, reparsed>>
    BY DEF CopyData, hist
  <1>2. p \in ConnStates
    BY TypeFacts, ObservedFacts DEF Observed, StreamInv
  <1>3. sp' = [sp EXCEPT ![c] = v]
    <2>1. sp' = [sp EXCEPT ![c] = IF p.client = "typed" THEN [p EXCEPT !.copy = CopyAppend(@)] ELSE p]
      BY DEF CopyData
    <2>2. [p EXCEPT !.copy = CopyAppend(@)] = [p EXCEPT !.copy = k]
      <3> HIDE DEF p
      <3> QED BY <1>2 DEF ConnStates
    <2> QED BY <2>1, <2>2
  <1>4. v \in ConnStates
    <2> HIDE DEF p
    <2>1. p.copy \in CopyBuffers \union {None}
      BY <1>2 DEF ConnStates
    <2>2. k \in CopyBuffers \union {None}
      BY <2>1, CopyAppendType
    <2> HIDE DEF k
    <2> QED BY <1>2, <2>2, CopyUpdateFacts
  <1>5. copyIn[c] \in Nat
    BY <1>1, StreamAssumption DEF StreamInv, TypeOK
  <1> HIDE DEF v, p, k
  <1>6. sp' \in [Conns -> ConnStates] /\ sp'[c] = v
    BY <1>3, <1>4 DEF StreamInv, TypeOK
  <1>7. copyIn' \in [Conns -> 0..MaxSegments \union {None}] /\ copyIn'[c] = copyIn[c] + 1
    BY <1>1, <1>5, StreamAssumption DEF StreamInv, TypeOK
  <1>8. Others(c)
    BY <1>1, <1>3 DEF Others, StreamInv, TypeOK
  <1>9. TypeOK' /\ AllFormed'
    BY <1>1, <1>6, <1>7 DEF StreamInv, TypeOK, AllFormed
  <1>10. CopySentAlone'
    BY <1>1, <1>8 DEF StreamInv, CopySentAlone, Others
  <1> QED BY <1>1, <1>5, <1>6, <1>7, <1>8, <1>9, <1>10 DEF StreamInv, v, p, k

LEMMA CopyFailStep ==
    ASSUME StreamInv, NEW c \in Conns, CopyFail(c)
    PROVE  /\ StreamInv' /\ Others(c)
           /\ copyIn[c] # None /\ copyIn'[c] = None
           /\ sp'[c] = LET p == Observed(c) IN IF p.client = "typed" THEN [p EXCEPT !.copy = None] ELSE p
           /\ UNCHANGED <<cfg, counter, tcp, srv, sending, believes, reparsed>>
  <1> DEFINE p == Observed(c)
             v == IF p.client = "typed" THEN [p EXCEPT !.copy = None] ELSE p
  <1>1. /\ copyIn[c] # None
        /\ copyIn' = [copyIn EXCEPT ![c] = None]
        /\ sp' = [sp EXCEPT ![c] = v]
        /\ UNCHANGED <<cfg, counter, tcp, srv, sending, believes, messages, shadow, blocks, past, strayed, reparsed>>
    BY DEF CopyFail, hist
  <1>2. p \in ConnStates
    BY TypeFacts, ObservedFacts DEF Observed, StreamInv
  <1>4. v \in ConnStates
    <2> HIDE DEF p
    <2> QED BY <1>2, CopyUpdateFacts
  <1> HIDE DEF v, p
  <1>6. sp' \in [Conns -> ConnStates] /\ sp'[c] = v
    BY <1>1, <1>4 DEF StreamInv, TypeOK
  <1>7. copyIn' \in [Conns -> 0..MaxSegments \union {None}] /\ copyIn'[c] = None
    BY <1>1 DEF StreamInv, TypeOK
  <1>8. Others(c)
    BY <1>1 DEF Others, StreamInv, TypeOK
  <1>9. TypeOK' /\ AllFormed'
    BY <1>1, <1>6, <1>7 DEF StreamInv, TypeOK, AllFormed
  <1>10. CopySentAlone'
    BY <1>1, <1>7, <1>8 DEF StreamInv, CopySentAlone, Others
  <1> QED BY <1>1, <1>6, <1>7, <1>8, <1>9, <1>10 DEF StreamInv, v, p

LEMMA CopyStopStep ==
    ASSUME StreamInv, NEW c \in Conns, CopyStop(c)
    PROVE  /\ StreamInv' /\ Others(c)
           /\ sending[c] = <<>> /\ copyIn'[c] = None
           /\ UNCHANGED <<cfg, counter, sp, tcp, srv, sending, believes, reparsed>>
  <1>1. /\ copyIn' = [copyIn EXCEPT ![c] = None] /\ sending[c] = <<>>
        /\ UNCHANGED <<cfg, sp, counter, tcp, srv, sending, believes, messages, shadow, blocks, past, strayed, reparsed>>
    BY DEF CopyStop, hist
  <1>7. copyIn' \in [Conns -> 0..MaxSegments \union {None}] /\ copyIn'[c] = None
    BY <1>1 DEF StreamInv, TypeOK
  <1>8. Others(c)
    BY <1>1 DEF Others, StreamInv, TypeOK
  <1>9. TypeOK' /\ AllFormed'
    BY <1>1, <1>7 DEF StreamInv, TypeOK, AllFormed
  <1>10. CopySentAlone'
    BY <1>1, <1>7, <1>8 DEF StreamInv, CopySentAlone, Others
  <1> QED BY <1>1, <1>7, <1>8, <1>9, <1>10 DEF StreamInv

\* The command as CopyDone marks it.
LEMMA EndedFacts ==
    ASSUME NEW cmd \in Formed, NEW s \in Nat, NEW d \in Nat, NEW sql \in Texts
    PROVE  /\ [cmd EXCEPT !.ended = TRUE] \in Formed
           /\ [cmd EXCEPT !.sql = sql, !.ended = TRUE, !.sent = s, !.data = d] \in Formed
  <1>1. cmd \in Commands
    BY DEF Formed
  <1>s. sql \in SQLOrNone
    BY DEF SQLOrNone
  <1> DEFINE a == [cmd EXCEPT !.ended = TRUE]
             b == [cmd EXCEPT !.sql = sql, !.ended = TRUE, !.sent = s, !.data = d]
  <1>2. /\ a \in Commands /\ a.kind = cmd.kind /\ a.sql = cmd.sql /\ a.name = cmd.name
        /\ a.seen = cmd.seen /\ a.kept = cmd.kept /\ a.event = cmd.event
    BY <1>1 DEF Commands
  <1>3. /\ b \in Commands /\ b.kind = cmd.kind /\ b.sql = sql /\ b.name = cmd.name
        /\ b.seen = cmd.seen /\ b.kept = cmd.kept /\ b.event = cmd.event
    BY <1>1, <1>s DEF Commands
  <1> HIDE DEF a, b
  <1>4. a \in Formed /\ b \in Formed
    BY <1>2, <1>3 DEF Formed
  <1> QED BY <1>4 DEF a, b

LEMMA CopyDoneStep ==
    ASSUME StreamInv, NEW c \in Conns, CopyDone(c)
    PROVE  LET p    == Observed(c)
               done == p.client = "typed" /\ CopyComplete(p.copy)
               q    == [p EXCEPT !.copy = None]
               cmd  == Command(sending[c][1].kind, None, p.copy.sql, q, TRUE, srv[c].owner)
           IN  /\ StreamInv' /\ Others(c)
               /\ copyIn[c] # None /\ copyIn[c] \in Nat /\ copyIn'[c] = None
               /\ done => p.copy \in CopyBuffers
               /\ sp'[c] = IF p.client # "typed" THEN p ELSE IF done THEN dispatch(q, p.copy.sql) ELSE q
               /\ sending[c] = <<>> => sending'[c] = <<>>
               /\ sending[c] # <<>> =>
                     /\ sending[c][1] \in Formed /\ sending[c][1].kind \in {"query", "reset"}
                     /\ Len(sending[c]) = 1 /\ Streams(sending[c][1].sql)
                     /\ sending'[c] = IF done THEN <<[cmd EXCEPT !.sql = sending[c][1].sql, !.ended = TRUE,
                                                                 !.sent = copyIn[c], !.data = p.copy.data]>>
                                      ELSE <<[sending[c][1] EXCEPT !.ended = TRUE]>>
               /\ UNCHANGED <<cfg, tcp, srv, believes, reparsed>>
  <1> DEFINE p    == Observed(c)
             done == p.client = "typed" /\ CopyComplete(p.copy)
             q    == [p EXCEPT !.copy = None]
             cmd  == Command(sending[c][1].kind, None, p.copy.sql, q, TRUE, srv[c].owner)
             v == IF p.client # "typed" THEN p ELSE IF done THEN dispatch(q, p.copy.sql) ELSE q
             e1 == [cmd EXCEPT !.sql = sending[c][1].sql, !.ended = TRUE,
                               !.sent = copyIn[c], !.data = p.copy.data]
             e2 == [sending[c][1] EXCEPT !.ended = TRUE]
             w == IF sending[c] = <<>> THEN sending[c] ELSE IF done THEN <<e1>> ELSE <<e2>>
  <1>1. /\ copyIn[c] # None
        /\ copyIn' = [copyIn EXCEPT ![c] = None]
        /\ sp' = [sp EXCEPT ![c] = v]
        /\ counter' \in {counter, counter + 1}
        /\ UNCHANGED <<cfg, tcp, srv, believes, messages, shadow, blocks, past, strayed, reparsed>>
    BY DEF CopyDone, hist
  <1>2. sending' = [sending EXCEPT ![c] = w]
    <2>1. sending' = [sending EXCEPT ![c] = IF @ = <<>> THEN @ ELSE IF done THEN <<e1>>
                                            ELSE <<[@[1] EXCEPT !.ended = TRUE]>>]
      BY DEF CopyDone
    <2>2. c \in DOMAIN sending
      BY DEF StreamInv, TypeOK
    <2> HIDE DEF done, e1
    <2> QED BY <2>1, <2>2, Zenon DEF w
  <1>3. p \in ConnStates /\ counter \in Nat /\ srv[c].owner \in Nat /\ copyIn[c] \in Nat
    <2>1. p \in ConnStates /\ counter \in Nat /\ srv[c].owner \in Nat
      BY TypeFacts, ObservedFacts DEF Observed, StreamInv
    <2>2. copyIn[c] \in Nat
      BY <1>1, TypeFacts DEF StreamInv
    <2> QED BY <2>1, <2>2
  <1> HIDE DEF p
  <1>4. done => p.copy \in CopyBuffers
    BY <1>3 DEF CopyComplete, ConnStates
  <1>5. q \in ConnStates
    BY <1>3, CopyUpdateFacts
  <1>6. done => p.copy.sql \in Texts /\ p.copy.data \in Nat /\ p.copy.sql \in SQLOrNone
    BY <1>4, StreamAssumption DEF CopyBuffers, SQLOrNone
  <1> HIDE DEF done, q
  <1>7. v \in ConnStates
    <2>1. done => dispatch(q, p.copy.sql) \in ConnStates
      BY <1>3, <1>5, <1>6, DispatchFacts
    <2> QED BY <1>3, <1>5, <2>1
  <1>8. sending[c] # <<>> =>
           /\ sending[c][1] \in Formed /\ sending[c][1].kind \in {"query", "reset"} /\ Len(sending[c]) = 1
           /\ Streams(sending[c][1].sql) /\ sending[c][1].sql \in Texts
    <2>1. sending[c] \in Seq(Formed)
      BY DEF StreamInv, AllFormed
    <2> QED BY <1>1, <2>1 DEF StreamInv, CopySentAlone, Formed
  <1>9. w \in Seq(Formed)
    <2>1. CASE sending[c] = <<>>
      BY <2>1
    <2>2. CASE sending[c] # <<>> /\ done
      <3>1. cmd \in Formed
        BY <1>3, <1>5, <1>6, <1>8, <2>2, NewCommand
      <3> HIDE DEF cmd
      <3>2. e1 \in Formed
        BY <1>3, <1>6, <1>8, <2>2, <3>1, EndedFacts
      <3> HIDE DEF e1
      <3> QED BY <2>2, <3>2
    <2>3. CASE sending[c] # <<>> /\ ~done
      <3>1. e2 \in Formed
        BY <1>8, <2>3, EndedFacts
      <3> HIDE DEF e2
      <3> QED BY <2>3, <3>1
    <2> QED BY <2>1, <2>2, <2>3
  <1>10. w # <<>> => sending[c] # <<>> /\ Len(w) = 1 /\ w[1].kind \in {"query", "reset"}
    <2> SUFFICES ASSUME w # <<>> PROVE sending[c] # <<>> /\ Len(w) = 1 /\ w[1].kind \in {"query", "reset"}
      OBVIOUS
    <2>1. sending[c] # <<>>
      OBVIOUS
    <2>2. CASE done
      <3>1. e1.kind = sending[c][1].kind
        BY DEF Command
      <3> HIDE DEF e1
      <3> QED BY <1>8, <2>1, <2>2, <3>1
    <2>3. CASE ~done
      <3>1. e2.kind = sending[c][1].kind
        BY <1>8, <2>1 DEF Formed, Commands
      <3> HIDE DEF e2
      <3> QED BY <1>8, <2>1, <2>3, <3>1
    <2> QED BY <2>2, <2>3
  <1>11. (sending[c] = <<>> => w = <<>>)
         /\ (sending[c] # <<>> => w = IF done THEN <<e1>> ELSE <<e2>>)
    OBVIOUS
  <1> HIDE DEF v, w, e1, e2, cmd
  <1>12. sp' \in [Conns -> ConnStates] /\ sp'[c] = v
    BY <1>1, <1>7 DEF StreamInv, TypeOK
  <1>13. copyIn' \in [Conns -> 0..MaxSegments \union {None}] /\ copyIn'[c] = None
    BY <1>1 DEF StreamInv, TypeOK
  <1>14. sending' \in [Conns -> Seq(Formed)] /\ sending' \in [Conns -> Seq(Commands)] /\ sending'[c] = w
    <2>1. Formed \subseteq Commands
      BY DEF Formed
    <2>2. w \in Seq(Commands)
      BY <1>9, <2>1
    <2> QED BY <1>2, <1>9, <2>2 DEF StreamInv, TypeOK, AllFormed
  <1>15. Others(c)
    BY <1>1, <1>2 DEF Others, StreamInv, TypeOK
  <1>16. TypeOK' /\ AllFormed'
    BY <1>1, <1>3, <1>12, <1>13, <1>14 DEF StreamInv, TypeOK, AllFormed
  <1>17. CopySentAlone'
    BY <1>13, <1>15 DEF StreamInv, CopySentAlone, Others
  <1>19. /\ sp'[c] = IF p.client # "typed" THEN p ELSE IF done THEN dispatch(q, p.copy.sql) ELSE q
    BY <1>12 DEF v
  <1>20. sending[c] # <<>> =>
           sending'[c] = IF done THEN <<[cmd EXCEPT !.sql = sending[c][1].sql, !.ended = TRUE,
                                                    !.sent = copyIn[c], !.data = p.copy.data]>>
                         ELSE <<[sending[c][1] EXCEPT !.ended = TRUE]>>
    BY <1>11, <1>14 DEF e1, e2
  <1>21. sending[c] = <<>> => sending'[c] = <<>>
    BY <1>11, <1>14
  <1>22. StreamInv'
    BY <1>16, <1>17 DEF StreamInv
  <1>23. /\ copyIn[c] # None /\ copyIn[c] \in Nat /\ copyIn'[c] = None
         /\ UNCHANGED <<cfg, tcp, srv, believes, reparsed>>
    BY <1>1, <1>3, <1>13
  <1> QED BY <1>4, <1>8, <1>15, <1>19, <1>20, <1>21, <1>22, <1>23, Zenon DEF p, done, q, cmd
LEMMA RunsType ==
    ASSUME NEW cmd \in Formed, NEW s \in Sessions, NEW e
    PROVE  Runs(cmd, s, e) \in Outcomes
  <1>1. s.status \in Status /\ s.prep \in [Names -> SQLOrNone]
    BY DEF Sessions
  <1>2. Fail(s.status) \in Status
    BY <1>1 DEF Fail, Status
  <1>3. \A x \in Status : [status |-> x, halted |-> TRUE] \in Outcomes /\ [status |-> x, halted |-> FALSE] \in Outcomes
    BY DEF Outcomes
  <1>4. CASE cmd.kind = "parse"
    <2>1. Runs(cmd, s, e) = IF e # 0 \/ s.status = "Failed" THEN [status |-> Fail(s.status), halted |-> TRUE]
                            ELSE [status |-> s.status, halted |-> FALSE]
      BY <1>4 DEF Runs
    <2> QED BY <1>1, <1>2, <1>3, <2>1
  <1>5. CASE cmd.kind = "bind"
    <2>1. Runs(cmd, s, e) = IF s.prep[cmd.name] = None THEN [status |-> Fail(s.status), halted |-> TRUE]
                            ELSE Execute(s.prep[cmd.name], s.status, e)
      BY <1>5 DEF Runs
    <2>2. s.prep[cmd.name] # None => s.prep[cmd.name] \in Texts
      BY <1>1, <1>5 DEF Formed, SQLOrNone
    <2>3. s.prep[cmd.name] # None => Execute(s.prep[cmd.name], s.status, e) \in Outcomes
      BY <1>1, <2>2, TextFacts, ExecuteType
    <2> QED BY <1>2, <1>3, <2>1, <2>3
  <1>6. CASE cmd.kind \notin {"parse", "bind"}
    <2>1. Runs(cmd, s, e) = Execute(cmd.sql, s.status, e)
      BY <1>6 DEF Runs
    <2>2. cmd.sql \in Texts
      BY <1>6 DEF Formed
    <2> QED BY <1>1, <2>1, <2>2, TextFacts, ExecuteType
  <1> QED BY <1>4, <1>5, <1>6

LEMMA PrepAfterType ==
    ASSUME NEW cmd \in Formed, NEW s \in Sessions, NEW run \in Outcomes
    PROVE  PrepAfter(cmd, s, run) \in [Names -> SQLOrNone]
  <1>1. s.prep \in [Names -> SQLOrNone] /\ run.halted \in BOOLEAN /\ NoStatements \in [Names -> SQLOrNone]
        /\ Unnamed \in Names /\ None \in SQLOrNone
    BY StreamAssumption DEF Sessions, Outcomes, NoStatements, SQLOrNone
  <1>2. CASE cmd.kind = "parse"
    <2>1. cmd.sql \in SQLOrNone
      BY DEF Formed, Commands
    <2>2. CASE ~run.halted
      <3>1. PrepAfter(cmd, s, run) = [s.prep EXCEPT ![cmd.name] = cmd.sql]
        BY <1>2, <2>2 DEF PrepAfter
      <3> QED BY <1>1, <2>1, <3>1
    <2>3. CASE run.halted
      <3>1. PrepAfter(cmd, s, run) = [s.prep EXCEPT ![Unnamed] = IF cmd.name = Unnamed THEN None ELSE @]
        BY <1>2, <2>3 DEF PrepAfter
      <3> QED BY <1>1, <3>1
    <2> QED BY <1>1, <2>2, <2>3
  <1>3. CASE cmd.kind # "parse"
    <2>1. PrepAfter(cmd, s, run) \in {NoStatements, s.prep}
      BY <1>3 DEF PrepAfter
    <2> QED BY <1>1, <2>1
  <1> QED BY <1>2, <1>3

LEMMA ReplyStep ==
    ASSUME StreamInv, NEW c \in Conns, NEW e, Reply(c, e)
    PROVE  LET cmd  == Head(sending[c])
               s    == srv[c]
               run  == Runs(cmd, s, e)
               prep == PrepAfter(cmd, s, run)
           IN  /\ StreamInv' /\ Others(c)
               /\ sending[c] # <<>> /\ cmd \in Formed /\ run \in Outcomes /\ prep \in [Names -> SQLOrNone]
               /\ cmd.kind = "reset" => ~run.halted
               /\ sending'[c] = Tail(sending[c])
               /\ srv'[c].status = run.status /\ srv'[c].prep = prep
               /\ srv'[c].owner = IF cmd.kind = "reset" THEN s.owner + 1 ELSE s.owner
               /\ sp'[c] = onReady(parsersFor(sp[c]), run.status)
               /\ reparsed'[c] = IF cmd.kind = "reset" THEN {} ELSE reparsed[c]
               /\ UNCHANGED <<cfg, counter, tcp, copyIn>>
  <1> DEFINE cmd  == Head(sending[c])
             s    == srv[c]
             run  == Runs(cmd, s, e)
             prep == PrepAfter(cmd, s, run)
             used == blocks[c] \union (IF cmd.kept THEN {cmd.txid} ELSE {})
             o == IF cmd.kind = "reset" THEN s.owner + 1 ELSE s.owner
             b == IF cmd.kind = "reset" THEN Names
                  ELSE IF prep # s.prep \/ cmd.kind = "parse" THEN {n \in Names : prep[n] # None} ELSE believes[c]
             v == onReady(parsersFor(sp[c]), run.status)
             sh == IF cmd.kept THEN Execute(cmd.event, shadow[c], e).status ELSE shadow[c]
             st == strayed[c] \/ (~cmd.kept /\ run.halted)
             bl == IF s.status = "Idle" /\ run.status = "Idle" THEN blocks[c]
                   ELSE IF run.status = "Idle" THEN {} ELSE used
             rp == IF cmd.kind = "reset" THEN {} ELSE reparsed[c]
  <1>1. /\ sending[c] # <<>>
        /\ cmd.kind = "reset" => ~run.halted
        /\ sending' = [sending EXCEPT ![c] = Tail(sending[c])]
        /\ srv' = [srv EXCEPT ![c] = [status |-> run.status, prep |-> prep, owner |-> o]]
        /\ UNCHANGED <<cfg, counter, tcp, copyIn, messages>>
    BY DEF Reply
  <1>2. /\ believes' = [believes EXCEPT ![c] = b]
        /\ sp' = [sp EXCEPT ![c] = v]
        /\ reparsed' = [reparsed EXCEPT ![c] = rp]
    BY DEF Reply, StreamInv, TypeOK
  <1>3. /\ shadow' = [shadow EXCEPT ![c] = sh]
        /\ strayed' = [strayed EXCEPT ![c] = st]
        /\ blocks' = [blocks EXCEPT ![c] = bl]
        /\ past' \in {past, past \union used}
    <2>1. /\ shadow' = [shadow EXCEPT ![c] = sh]
          /\ blocks' = [blocks EXCEPT ![c] = bl]
          /\ past' \in {past, past \union used}
      BY DEF Reply, StreamInv, TypeOK
    <2>2. strayed' = [strayed EXCEPT ![c] = st]
      BY DEF Reply, StreamInv, TypeOK
    <2> QED BY <2>1, <2>2
  <1>4. cmd \in Formed /\ sending[c] \in Seq(Formed) /\ Tail(sending[c]) \in Seq(Formed) /\ cmd = sending[c][1]
    <2>1. sending[c] \in Seq(Formed)
      BY DEF StreamInv, AllFormed
    <2> QED BY <1>1, <2>1
  <1>5. s \in Sessions /\ s.owner \in Nat /\ sp[c] \in ConnStates
    BY TypeFacts DEF StreamInv
  <1> HIDE DEF cmd
  <1>6. run \in Outcomes /\ run.status \in Status
    <2>1. run \in Outcomes
      BY <1>4, <1>5, RunsType
    <2> HIDE DEF run
    <2> QED BY <2>1 DEF Outcomes
  <1> HIDE DEF run
  <1>7. prep \in [Names -> SQLOrNone]
    BY <1>4, <1>5, <1>6, PrepAfterType
  <1> HIDE DEF prep
  <1>8. v \in ConnStates
    <2>1. parsersFor(sp[c]) \in ConnStates
      BY <1>5, ParsersFacts
    <2> QED BY <1>6, <2>1, ReadyFacts
  <1>9. sh \in Status
    <2>1. shadow[c] \in Status
      BY DEF StreamInv, TypeOK
    <2>2. cmd.kept => Execute(cmd.event, shadow[c], e) \in Outcomes
      BY <1>4, <2>1, TextFacts, ExecuteType DEF Formed
    <2> QED BY <2>1, <2>2 DEF Outcomes
  <1>10. st \in BOOLEAN
    BY Zenon
  <1>11. used \subseteq Nat /\ bl \subseteq Nat /\ past' \subseteq Nat
    <2>1. cmd.txid \in Nat
      BY <1>4 DEF Formed, Commands
    <2>2. blocks[c] \subseteq Nat /\ past \subseteq Nat
      BY DEF StreamInv, TypeOK
    <2>3. used \subseteq Nat
      BY <2>1, <2>2
    <2> HIDE DEF used
    <2> QED BY <1>3, <2>2, <2>3
  <1>12. o \in Nat
    BY <1>5
  <1>13. b \subseteq Names /\ rp \subseteq Names
    BY DEF StreamInv, TypeOK
  <1> HIDE DEF s, o, b, v, sh, st, bl, rp, used
  <1>14. sp' \in [Conns -> ConnStates] /\ sp'[c] = v
    BY <1>2, <1>8 DEF StreamInv, TypeOK
  <1>15. srv' \in [Conns -> Sessions] /\ srv'[c].status = run.status /\ srv'[c].prep = prep /\ srv'[c].owner = o
    <2>1. [status |-> run.status, prep |-> prep, owner |-> o] \in Sessions
      BY <1>6, <1>7, <1>12 DEF Sessions
    <2> QED BY <1>1, <2>1 DEF StreamInv, TypeOK
  <1>16. sending' \in [Conns -> Seq(Formed)] /\ sending' \in [Conns -> Seq(Commands)]
         /\ sending'[c] = Tail(sending[c])
    <2>1. Formed \subseteq Commands
      BY DEF Formed
    <2>2. Tail(sending[c]) \in Seq(Commands)
      BY <1>4, <2>1
    <2> QED BY <1>1, <1>4, <2>2 DEF StreamInv, TypeOK, AllFormed
  <1>17. /\ believes' \in [Conns -> SUBSET Names]
         /\ reparsed' \in [Conns -> SUBSET Names] /\ reparsed'[c] = rp
    BY <1>2, <1>13 DEF StreamInv, TypeOK
  <1>18. shadow' \in [Conns -> Status] /\ blocks' \in [Conns -> SUBSET Nat]
    BY <1>3, <1>9, <1>11 DEF StreamInv, TypeOK
  <1>19. strayed' \in [Conns -> BOOLEAN]
    BY <1>3, <1>10 DEF StreamInv, TypeOK
  <1>20. Others(c)
    BY <1>1, <1>2 DEF Others, StreamInv, TypeOK
  <1>21. TypeOK' /\ AllFormed'
    BY <1>1, <1>11, <1>14, <1>15, <1>16, <1>17, <1>18, <1>19 DEF StreamInv, TypeOK, AllFormed
  <1>22. CopySentAlone'
    <2>1. ASSUME copyIn[c] # None PROVE Tail(sending[c]) = <<>>
      <3>1. Len(sending[c]) = 1
        BY <1>1, <2>1 DEF StreamInv, CopySentAlone
      <3>2. Len(Tail(sending[c])) = 0
        BY <1>4, <3>1
      <3> QED BY <1>4, <3>2, EmptySeq
    <2> QED BY <1>1, <1>16, <1>20, <2>1 DEF StreamInv, CopySentAlone, Others
  <1>23. StreamInv'
    BY <1>21, <1>22 DEF StreamInv
  <1>24. /\ v = onReady(parsersFor(sp[c]), run.status)
         /\ o = IF cmd.kind = "reset" THEN s.owner + 1 ELSE s.owner
         /\ rp = IF cmd.kind = "reset" THEN {} ELSE reparsed[c]
    BY DEF v, o, rp
  <1> QED BY <1>1, <1>4, <1>6, <1>7, <1>14, <1>15, <1>16, <1>17, <1>20, <1>23, <1>24 DEF cmd, s, run, prep

----------------------------------------------------------------------------
\* A step of the specification is a step of one connection.
Step(c) ==
    \/ Connect(c) \/ RefuseSSL(c) \/ Cancel(c) \/ Startup(c) \/ Fin(c) \/ Release(c)
    \/ \E sql \in Queries : Query(c, sql)
    \/ \E sql \in ResetQueries : PoolerReset(c, sql)
    \/ \E n \in Names, sql \in Prepared : Parse(c, n, sql)
    \/ \E n \in Names : Bind(c, n)
    \/ CopyData(c) \/ CopyDone(c) \/ CopyFail(c) \/ CopyStop(c)
    \/ \E e \in 0..MaxBatch : Reply(c, e)

LEMMA StepFrame ==
    ASSUME StreamInv, NEW c \in Conns, Step(c)
    PROVE  StreamInv' /\ Others(c) /\ UNCHANGED cfg
  <1>1. Queries \subseteq Texts /\ ResetQueries \subseteq Texts /\ Prepared \subseteq Texts
    BY DEF Texts
  <1> DEFINE G == StreamInv' /\ Others(c) /\ UNCHANGED cfg
  <1>2. ASSUME NEW sql \in Queries, Query(c, sql) PROVE G
    BY <1>1, <1>2, SimpleQueryStep DEF Query
  <1>3. ASSUME NEW sql \in ResetQueries, PoolerReset(c, sql) PROVE G
    BY <1>1, <1>3, SimpleQueryStep DEF PoolerReset
  <1>4. ASSUME NEW n \in Names, NEW sql \in Prepared, Parse(c, n, sql) PROVE G
    BY <1>1, <1>4, ParseStep
  <1>5. ASSUME NEW n \in Names, Bind(c, n) PROVE G
    BY <1>5, BindStep
  <1>6. ASSUME NEW e \in 0..MaxBatch, Reply(c, e) PROVE G
    BY <1>6, ReplyStep
  <1>7. ASSUME Connect(c) \/ RefuseSSL(c) \/ Cancel(c) \/ Startup(c) \/ Fin(c) \/ Release(c) PROVE G
    BY <1>7, ConnectStep, RefuseSSLStep, CancelStep, StartupStep, FinStep, ReleaseStep
  <1>8. ASSUME CopyData(c) \/ CopyDone(c) \/ CopyFail(c) \/ CopyStop(c) PROVE G
    BY <1>8, CopyDataStep, CopyDoneStep, CopyFailStep, CopyStopStep
  <1> HIDE DEF G
  <1>9. G
    BY <1>2, <1>3, <1>4, <1>5, <1>6, <1>7, <1>8 DEF Step
  <1> QED BY <1>9 DEF G

LEMMA NextStream == StreamInv /\ [Next]_vars => StreamInv'
  <1> SUFFICES ASSUME StreamInv, [Next]_vars PROVE StreamInv'
    OBVIOUS
  <1>1. CASE UNCHANGED vars
    BY <1>1 DEF vars, env, hist, StreamInv, TypeOK, AllFormed, CopySentAlone
  <1>2. CASE Next
    <2>1. PICK c \in Conns : Step(c)
      BY <1>2 DEF Next, Step
    <2> QED BY <2>1, StepFrame
  <1> QED BY <1>1, <1>2

\* Whatever the clients, the pooler and the server do, and however many
\* commands are under way, the state that StreamProcessor and its collaborators
\* keep for a connection stays well formed: the COPY buffer within its limit,
\* the correlator's entries texts that clients send, the phases of the two
\* parsers and the inferred status among those the code knows.
THEOREM StreamTypeCorrect == Spec => []TypeOK
  <1>1. StreamInv => TypeOK
    BY DEF StreamInv
  <1> QED BY <1>1, InitStream, NextStream, PTL DEF Spec

----------------------------------------------------------------------------
(***************************************************************************)
(* The buffer of a COPY.                                                   *)
(***************************************************************************)
\* Every text that streams is a COPY that the processor takes for one.
CopiesRecognised == \A sql \in Texts : Streams(sql) => Classify(sql) = "CopyFrom" /\ sql \notin Oversized

\* Until the server answers, the buffer has what the client has sent.
BufferedAll(c) ==
    /\ sp[c].client = "typed" /\ sp[c].copy # None /\ copyIn[c] # None /\ sending[c] # <<>>
    /\ ~sp[c].copy.overflow
    => sp[c].copy.data = copyIn[c]
Measured(c) == \A i \in 1..Len(sending[c]) : sending[c][i].data = sending[c][i].sent
NothingSent(c) == tcp[c] # "ready" => sending[c] = <<>> /\ copyIn[c] = None

CopyTracked(c) == BufferedAll(c) /\ Measured(c) /\ NothingSent(c)

LEMMA CopyTrackedFrame ==
    ASSUME NEW c \in Conns, Others(c), NEW d \in Conns, d # c, CopyTracked(d)
    PROVE  CopyTracked(d)'
  BY DEF Others, CopyTracked, BufferedAll, Measured, NothingSent

LEMMA CopyTrackedConnections ==
    ASSUME StreamInv, NEW c \in Conns, CopyTracked(c),
           Connect(c) \/ RefuseSSL(c) \/ Cancel(c) \/ Startup(c) \/ Fin(c) \/ Release(c)
    PROVE  CopyTracked(c)'
  <1>1. ASSUME tcp[c] # "ready", UNCHANGED <<sending, copyIn>> PROVE CopyTracked(c)'
    BY <1>1 DEF CopyTracked, BufferedAll, Measured, NothingSent
  <1>2. CASE Connect(c)
    BY <1>1, <1>2, ConnectStep
  <1>3. CASE RefuseSSL(c)
    BY <1>1, <1>3, RefuseSSLStep
  <1>4. CASE Cancel(c)
    BY <1>1, <1>4, CancelStep
  <1>5. CASE Startup(c)
    BY <1>1, <1>5, StartupStep
  <1>6. CASE Fin(c)
    BY <1>6, FinStep DEF CopyTracked, BufferedAll, Measured, NothingSent
  <1>7. CASE Release(c)
    <2>1. sp'[c].client = "none"
      BY <1>7, ReleaseStep DEF Released
    <2> QED BY <1>7, <2>1, ReleaseStep DEF CopyTracked, BufferedAll, Measured, NothingSent
  <1> QED BY <1>2, <1>3, <1>4, <1>5, <1>6, <1>7

LEMMA MeasuredSend ==
    ASSUME StreamInv, NEW c \in Conns, Measured(c), NEW cmd, cmd.data = 0, cmd.sent = 0,
           sending'[c] = Append(sending[c], cmd)
    PROVE  Measured(c)'
  <1>1. sending[c] \in Seq(Formed)
    BY DEF StreamInv, AllFormed
  <1> DEFINE n == Len(sending[c])
             t == Append(sending[c], cmd)
  <1>2. /\ n \in Nat /\ Len(t) = n + 1
        /\ \A i \in 1..n : t[i] = sending[c][i]
        /\ t[n + 1] = cmd
    BY <1>1
  <1>3. \A i \in 1..n : t[i].data = t[i].sent
    BY <1>2 DEF Measured
  <1>4. t[n + 1].data = t[n + 1].sent
    BY <1>2
  <1> HIDE DEF n, t
  <1>5. \A i \in 1..n + 1 : t[i].data = t[i].sent
    BY <1>2, <1>3, <1>4
  <1>6. sending'[c] = t /\ Len(sending'[c]) = n + 1
    BY <1>2 DEF t
  <1> QED BY <1>5, <1>6 DEF Measured

LEMMA CopyTrackedSimpleQuery ==
    ASSUME StreamInv, CopiesRecognised, NEW c \in Conns, CopyTracked(c),
           NEW kind \in {"query", "reset"}, NEW sql \in Texts, SimpleQuery(c, kind, sql)
    PROVE  CopyTracked(c)'
  <1> DEFINE p == Observed(c)
             z == onQuery(p, sql)
             cmd == Command(kind, None, sql, p, p.client = "typed" /\ Dispatches(sql), srv[c].owner)
  <1>1. /\ tcp'[c] = "ready"
        /\ sp'[c] = IF p.client = "typed" THEN z ELSE p
        /\ sending'[c] = Append(sending[c], cmd)
        /\ copyIn'[c] \in {0, None}
        /\ copyIn'[c] # None => Streams(sql)
    BY SimpleQueryStep, Zenon
  <1>2. p \in ConnStates /\ counter \in Nat
    BY TypeFacts, ObservedFacts DEF Observed, StreamInv
  <1> HIDE DEF p
  <1>4. cmd.data = 0 /\ cmd.sent = 0
    BY DEF Command
  <1>5. sql \notin Oversized /\ Classify(sql) = "CopyFrom" => z.copy = [sql |-> sql, data |-> 0, overflow |-> FALSE]
    BY <1>2, QueryFacts
  <1> HIDE DEF cmd, z
  <1>6. Measured(c)'
    BY <1>1, <1>4, MeasuredSend DEF CopyTracked
  <1>7. BufferedAll(c)'
    <2>1. SUFFICES ASSUME sp'[c].client = "typed", copyIn'[c] # None PROVE sp'[c].copy.data = copyIn'[c]
      BY DEF BufferedAll
    <2>2. z.copy = [sql |-> sql, data |-> 0, overflow |-> FALSE]
      BY <1>1, <1>5, <2>1 DEF CopiesRecognised
    <2>3. sp'[c] = z
      BY <1>1, <2>1
    <2> QED BY <1>1, <2>1, <2>2, <2>3
  <1> QED BY <1>1, <1>6, <1>7 DEF CopyTracked, NothingSent

LEMMA CopyTrackedSend ==
    ASSUME StreamInv, NEW c \in Conns, CopyTracked(c), NEW cmd, tcp'[c] = "ready",
           sending'[c] = Append(sending[c], cmd), copyIn[c] = None, copyIn' = copyIn,
           cmd.data = 0, cmd.sent = 0
    PROVE  CopyTracked(c)'
  <1>2. Measured(c)'
    BY MeasuredSend DEF CopyTracked
  <1>3. BufferedAll(c)'
    BY DEF BufferedAll
  <1> QED BY <1>2, <1>3 DEF CopyTracked, NothingSent

LEMMA CopyTrackedParse ==
    ASSUME StreamInv, NEW c \in Conns, CopyTracked(c), NEW n \in Names, NEW sql \in Texts, Parse(c, n, sql)
    PROVE  CopyTracked(c)'
  <1> DEFINE cmd == Command("parse", n, sql, Observed(c), FALSE, srv[c].owner)
  <1>1. /\ tcp'[c] = "ready" /\ copyIn[c] = None
        /\ sending'[c] = Append(sending[c], cmd) /\ copyIn' = copyIn
    BY ParseStep, Zenon
  <1>2. cmd.data = 0 /\ cmd.sent = 0
    BY DEF Command
  <1> HIDE DEF cmd
  <1> QED BY <1>1, <1>2, CopyTrackedSend

LEMMA CopyTrackedBind ==
    ASSUME StreamInv, NEW c \in Conns, CopyTracked(c), NEW n \in Names, Bind(c, n)
    PROVE  CopyTracked(c)'
  <1> DEFINE p    == Observed(c)
             info == p.parsed[n]
             yes  == Command("bind", n, info.sql, p, TRUE, info.owner)
             no   == Command("bind", n, None, p, FALSE, srv[c].owner)
             cmd  == IF p.client = "typed" /\ info # None THEN yes ELSE no
  <1>1. /\ tcp'[c] = "ready" /\ copyIn[c] = None
        /\ sending'[c] = Append(sending[c], cmd) /\ copyIn' = copyIn
    BY BindStep, Zenon
  <1>2. yes.data = 0 /\ yes.sent = 0 /\ no.data = 0 /\ no.sent = 0
    BY DEF Command
  <1> HIDE DEF yes, no
  <1>3. cmd.data = 0 /\ cmd.sent = 0
    BY <1>2
  <1> HIDE DEF cmd
  <1> QED BY <1>1, <1>3, CopyTrackedSend

LEMMA CopyTrackedCopy ==
    ASSUME StreamInv, NEW c \in Conns, CopyTracked(c), CopyData(c) \/ CopyFail(c) \/ CopyStop(c)
    PROVE  CopyTracked(c)'
  <1>1. CASE CopyData(c)
    <2> DEFINE p == Observed(c)
               k == CopyAppend(p.copy)
               z == [p EXCEPT !.copy = k]
    <2>1. /\ copyIn[c] # None /\ copyIn[c] \in Nat /\ copyIn'[c] = copyIn[c] + 1
          /\ sp'[c] = IF p.client = "typed" THEN z ELSE p
          /\ UNCHANGED <<tcp, sending>>
      BY <1>1, CopyDataStep, Zenon
    <2>2. /\ p \in ConnStates /\ p.client = IF sp[c].client = "typed" THEN "typed" ELSE "stuck"
          /\ p.copy = sp[c].copy
      BY TypeFacts, ObservedFacts DEF Observed, StreamInv
    <2> HIDE DEF p
    <2>3. p.copy \in CopyBuffers \union {None}
      BY <2>2 DEF ConnStates
    <2>4. k \in CopyBuffers \union {None}
      BY <2>3, CopyAppendType
    <2>5. p.copy # None /\ k # None /\ ~k.overflow => ~p.copy.overflow /\ k.data = p.copy.data + 1
      <3> SUFFICES ASSUME p.copy # None, k # None, ~k.overflow PROVE ~p.copy.overflow /\ k.data = p.copy.data + 1
        OBVIOUS
      <3>1. p.copy \in CopyBuffers
        BY <2>3
      <3>2. ~p.copy.overflow
        BY DEF CopyAppend
      <3>3. CASE p.copy.data + 1 > MaxCopy
        <4>1. k = [p.copy EXCEPT !.overflow = TRUE, !.data = 0]
          BY <3>2, <3>3 DEF CopyAppend
        <4>2. k.overflow = TRUE
          BY <3>1, <4>1 DEF CopyBuffers
        <4> QED BY <4>2
      <3>4. CASE ~(p.copy.data + 1 > MaxCopy)
        <4>1. k = [p.copy EXCEPT !.data = @ + 1]
          BY <3>2, <3>4 DEF CopyAppend
        <4>2. k.data = p.copy.data + 1
          BY <3>1, <4>1 DEF CopyBuffers
        <4> QED BY <3>2, <4>2
      <3> QED BY <3>3, <3>4
    <2>6. p.copy = None => k = None
      BY DEF CopyAppend
    <2> HIDE DEF k
    <2>7. z.copy = k
      BY <2>2, <2>4, CopyUpdateFacts
    <2> HIDE DEF z
    <2>8. BufferedAll(c)'
      <3>1. SUFFICES ASSUME sp'[c].client = "typed", sp'[c].copy # None, sending[c] # <<>>, ~sp'[c].copy.overflow
                     PROVE  sp'[c].copy.data = copyIn[c] + 1
        BY <2>1 DEF BufferedAll
      <3>2. p.client = "typed" /\ sp[c].client = "typed" /\ sp'[c] = z
        BY <2>1, <2>2, <3>1
      <3>3. p.copy # None /\ k # None /\ ~k.overflow
        BY <2>6, <2>7, <3>1, <3>2
      <3>4. p.copy.data = copyIn[c]
        BY <2>1, <2>2, <2>5, <3>1, <3>2, <3>3 DEF CopyTracked, BufferedAll
      <3> QED BY <2>5, <2>7, <3>2, <3>3, <3>4
    <2> QED BY <2>1, <2>8 DEF CopyTracked, Measured, NothingSent
  <1>2. CASE CopyFail(c)
    BY <1>2, CopyFailStep DEF CopyTracked, BufferedAll, Measured, NothingSent
  <1>3. CASE CopyStop(c)
    BY <1>3, CopyStopStep DEF CopyTracked, BufferedAll, Measured, NothingSent
  <1> QED BY <1>1, <1>2, <1>3

LEMMA CopyTrackedDone ==
    ASSUME StreamInv, NEW c \in Conns, CopyTracked(c), CopyDone(c)
    PROVE  CopyTracked(c)'
  <1> DEFINE p    == Observed(c)
             done == p.client = "typed" /\ CopyComplete(p.copy)
             q    == [p EXCEPT !.copy = None]
             cmd  == Command(sending[c][1].kind, None, p.copy.sql, q, TRUE, srv[c].owner)
             e1   == [cmd EXCEPT !.sql = sending[c][1].sql, !.ended = TRUE,
                                 !.sent = copyIn[c], !.data = p.copy.data]
             e2   == [sending[c][1] EXCEPT !.ended = TRUE]
  <1>1. /\ copyIn[c] # None /\ copyIn'[c] = None /\ tcp' = tcp
        /\ sending[c] = <<>> => sending'[c] = <<>>
    BY CopyDoneStep, Zenon
  <1>2. sending[c] # <<>> =>
           /\ sending[c][1] \in Formed /\ Len(sending[c]) = 1
           /\ sending'[c] = IF done THEN <<e1>> ELSE <<e2>>
    BY CopyDoneStep, Zenon
  <1>3. /\ p.client = IF sp[c].client = "typed" THEN "typed" ELSE "stuck"
        /\ p.copy = sp[c].copy
    BY TypeFacts, ObservedFacts DEF Observed, StreamInv
  <1> HIDE DEF p
  <1>4. e1.data = p.copy.data /\ e1.sent = copyIn[c]
    BY DEF Command
  <1>5. sending[c] # <<>> => e2.data = e2.sent
    <2> SUFFICES ASSUME sending[c] # <<>> PROVE e2.data = e2.sent
      OBVIOUS
    <2>1. sending[c][1] \in Commands
      BY <1>2 DEF Formed
    <2>2. e2.data = sending[c][1].data /\ e2.sent = sending[c][1].sent
      BY <2>1 DEF Commands
    <2> QED BY <1>2, <2>2 DEF CopyTracked, Measured
  <1>6. done /\ sending[c] # <<>> => p.copy.data = copyIn[c]
    BY <1>1, <1>3 DEF CopyTracked, BufferedAll, CopyComplete
  <1> HIDE DEF done, cmd, e1, e2, q
  <1>7. Measured(c)'
    <2>1. CASE sending[c] = <<>>
      BY <1>1, <2>1 DEF Measured
    <2>2. CASE sending[c] # <<>>
      <3>1. PICK e : sending'[c] = <<e>> /\ e.data = e.sent
        BY <1>2, <1>4, <1>5, <1>6, <2>2
      <3> QED BY <3>1 DEF Measured
    <2> QED BY <2>1, <2>2
  <1>8. BufferedAll(c)'
    BY <1>1 DEF BufferedAll
  <1>9. NothingSent(c)'
    BY <1>1 DEF CopyTracked, NothingSent
  <1> QED BY <1>7, <1>8, <1>9 DEF CopyTracked

\* With a COPY under way the answer is to the only command.
LEMMA CopyTrackedReply ==
    ASSUME StreamInv, NEW c \in Conns, CopyTracked(c), NEW e, Reply(c, e)
    PROVE  CopyTracked(c)'
  <1>1. sending[c] # <<>> /\ sending'[c] = Tail(sending[c]) /\ UNCHANGED <<tcp, copyIn>>
    BY ReplyStep, Zenon
  <1>2. sending[c] \in Seq(Formed)
    BY DEF StreamInv, AllFormed
  <1> DEFINE n == Len(sending[c])
             t == Tail(sending[c])
  <1>3. n \in Nat \ {0} /\ t \in Seq(Formed) /\ Len(t) = n - 1 /\ \A i \in 1..n - 1 : t[i] = sending[c][i + 1]
    BY <1>1, <1>2, EmptySeq
  <1>4. \A i \in 1..n : sending[c][i].data = sending[c][i].sent
    BY DEF CopyTracked, Measured
  <1>5. copyIn[c] # None => n = 1
    BY <1>1 DEF StreamInv, CopySentAlone
  <1>6. sending'[c] = t
    BY <1>1
  <1> HIDE DEF n, t
  <1>7. \A i \in 1..n - 1 : t[i].data = t[i].sent
    <2> SUFFICES ASSUME NEW i \in 1..n - 1 PROVE t[i].data = t[i].sent
      OBVIOUS
    <2>1. i + 1 \in 1..n
      BY <1>3
    <2> QED BY <1>3, <1>4, <2>1
  <1>8. Measured(c)'
    BY <1>3, <1>6, <1>7 DEF Measured
  <1>9. BufferedAll(c)'
    <2>1. copyIn[c] # None => t = <<>>
      BY <1>3, <1>5, EmptySeq
    <2> QED BY <1>1, <1>6, <2>1 DEF BufferedAll
  <1>10. NothingSent(c)'
    BY <1>1 DEF CopyTracked, NothingSent
  <1> QED BY <1>8, <1>9, <1>10 DEF CopyTracked

LEMMA CopyTrackedStep ==
    ASSUME StreamInv, CopiesRecognised, NEW c \in Conns, CopyTracked(c), Step(c)
    PROVE  CopyTracked(c)'
  <1>1. Queries \subseteq Texts /\ ResetQueries \subseteq Texts /\ Prepared \subseteq Texts
    BY DEF Texts
  <1>2. ASSUME NEW sql \in Queries, Query(c, sql) PROVE CopyTracked(c)'
    BY <1>1, <1>2, CopyTrackedSimpleQuery DEF Query
  <1>3. ASSUME NEW sql \in ResetQueries, PoolerReset(c, sql) PROVE CopyTracked(c)'
    BY <1>1, <1>3, CopyTrackedSimpleQuery DEF PoolerReset
  <1>4. ASSUME NEW n \in Names, NEW sql \in Prepared, Parse(c, n, sql) PROVE CopyTracked(c)'
    BY <1>1, <1>4, CopyTrackedParse
  <1> QED BY <1>2, <1>3, <1>4, CopyTrackedConnections, CopyTrackedBind, CopyTrackedCopy, CopyTrackedDone,
             CopyTrackedReply DEF Step

AllCopies == \A c \in Conns : CopyTracked(c)

LEMMA InitCopies == Init => AllCopies
  BY DEF Init, AllCopies, CopyTracked, BufferedAll, Measured, NothingSent

LEMMA NextCopies ==
    ASSUME CopiesRecognised
    PROVE  StreamInv /\ AllCopies /\ [Next]_vars => AllCopies'
  <1> SUFFICES ASSUME StreamInv, AllCopies, [Next]_vars PROVE AllCopies'
    OBVIOUS
  <1>1. CASE UNCHANGED vars
    BY <1>1 DEF vars, env, hist, AllCopies, CopyTracked, BufferedAll, Measured, NothingSent
  <1>2. CASE Next
    <2>1. PICK c \in Conns : Step(c)
      BY <1>2 DEF Next, Step
    <2>2. CopyTracked(c)'
      BY <2>1, CopyTrackedStep DEF AllCopies
    <2>3. ASSUME NEW d \in Conns, d # c PROVE CopyTracked(d)'
      BY <2>1, <2>3, StepFrame, CopyTrackedFrame DEF AllCopies
    <2> QED BY <2>2, <2>3 DEF AllCopies
  <1> QED BY <1>1, <1>2

\* When every text that streams is a COPY the classifier takes for one, and
\* whether or not clients wait for answers, the event that handleClient makes
\* at CopyDone has every segment the client sent for that COPY and no other:
\* CopyTracker.Start discards what an abandoned COPY left, and past its limit
\* Data makes no event at all.
THEOREM StreamCopiesWhole ==
    ASSUME CopiesRecognised
    PROVE  Spec => []CopyIsWhole
  <1>1. StreamInv /\ AllCopies => CopyIsWhole
    <2> SUFFICES ASSUME StreamInv, AllCopies, NEW c \in Conns, sending[c] # <<>>
                 PROVE  Head(sending[c]).data = Head(sending[c]).sent
      BY DEF CopyIsWhole, Pending
    <2>1. sending[c] \in Seq(Formed)
      BY DEF StreamInv, AllFormed
    <2>2. Len(sending[c]) \in Nat \ {0} /\ Head(sending[c]) = sending[c][1]
      BY <2>1, EmptySeq
    <2>3. 1 \in 1..Len(sending[c])
      BY <2>2
    <2> QED BY <2>2, <2>3 DEF AllCopies, CopyTracked, Measured
  <1> QED BY <1>1, InitStream, NextStream, InitCopies, NextCopies, PTL DEF Spec

----------------------------------------------------------------------------
(***************************************************************************)
(* Clients that wait for each answer: Depth = 1.                           *)
(***************************************************************************)
\* No batch has both a COPY from the client and transaction control.
CopyWithoutControl == \A sql \in Texts : Streams(sql) => Classify(sql) \notin {"Begin", "CommitRollback"}

\* Nothing is on its way on a connection that is not set up.
Quiet(c) == tcp[c] # "ready" =>
    /\ srv[c].status = "Idle" /\ sending[c] = <<>> /\ copyIn[c] = None /\ reparsed[c] = {}
OneSent(c) == Len(sending[c]) <= 1
\* Only a COPY has a buffer, also one that was cut off.
CopyClass(c) == sp[c].copy # None => Classify(sp[c].copy.sql) = "CopyFrom"
\* Between two commands, and until a COPY has ended, the processor has the source's status.
SameStatus(c) ==
    /\ CopyWithoutControl
    /\ sp[c].client = "typed" /\ sp[c].server = "typed"
    /\ sending[c] = <<>> \/ copyIn[c] # None
    => sp[c].sm = srv[c].status
JudgedAt(c) ==
    CopyWithoutControl /\ sending[c] # <<>> /\ Head(sending[c]).seen /\ Head(sending[c]).duplex
       => Head(sending[c]).judged = srv[c].status

Tracks(c) == Quiet(c) /\ OneSent(c) /\ CopyClass(c) /\ SameStatus(c) /\ JudgedAt(c)

LEMMA FirstCommand ==
    ASSUME StreamInv, Depth = 1, NEW c \in Conns, Len(sending[c]) < Depth
    PROVE  /\ sending[c] = <<>>
           /\ \A cmd : /\ Append(sending[c], cmd) # <<>> /\ Len(Append(sending[c], cmd)) = 1
                       /\ Head(Append(sending[c], cmd)) = cmd
  <1>1. sending[c] \in Seq(Formed)
    BY DEF StreamInv, AllFormed
  <1>2. Len(sending[c]) = 0
    BY <1>1
  <1>3. sending[c] = <<>>
    BY <1>1, <1>2, EmptySeq
  <1>4. ASSUME NEW cmd
        PROVE  Append(<<>>, cmd) # <<>> /\ Len(Append(<<>>, cmd)) = 1 /\ Head(Append(<<>>, cmd)) = cmd
    OBVIOUS
  <1> QED BY <1>3, <1>4

LEMMA TracksFrame ==
    ASSUME NEW c \in Conns, Others(c), NEW d \in Conns, d # c, Tracks(d)
    PROVE  Tracks(d)'
  BY DEF Others, Tracks, Quiet, OneSent, CopyClass, SameStatus, JudgedAt

LEMMA TracksConnections ==
    ASSUME StreamInv, NEW c \in Conns, Tracks(c),
           Connect(c) \/ RefuseSSL(c) \/ Cancel(c) \/ Startup(c) \/ Fin(c) \/ Release(c)
    PROVE  Tracks(c)'
  <1>1. CASE Connect(c)
    BY <1>1, ConnectStep DEF Tracks, Quiet, OneSent, CopyClass, SameStatus, JudgedAt
  <1>t. sp[c] \in ConnStates /\ parsersFor(sp[c]) \in ConnStates
    BY TypeFacts, ParsersFacts DEF StreamInv
  <1>2. CASE RefuseSSL(c)
    <2>1. sp'[c].server = "stuck" /\ sp'[c].copy = sp[c].copy
      <3>1. parsersFor(sp[c]).copy = sp[c].copy
        BY <1>t, ParsersFacts
      <3> QED BY <1>2, <1>t, <3>1, RefuseSSLStep DEF ConnStates
    <2> QED BY <1>2, <2>1, RefuseSSLStep DEF Tracks, Quiet, OneSent, CopyClass, SameStatus, JudgedAt
  <1>3. CASE Cancel(c)
    <2>1. /\ sp'[c].copy = sp[c].copy /\ sp'[c].sm = sp[c].sm
          /\ sp'[c].client = "typed" => sp[c].client = "typed" /\ sp'[c].server = sp[c].server
      BY <1>3, <1>t, CancelStep, ParsersFacts
    <2> QED BY <1>3, <2>1, CancelStep DEF Tracks, Quiet, OneSent, CopyClass, SameStatus, JudgedAt
  <1>4. CASE Startup(c)
    <2> DEFINE m == parsersFor(sp[c])
               w == [m EXCEPT !.client = "typed"]
    <2>1. m.copy = sp[c].copy
      BY <1>t, ParsersFacts
    <2>2. w \in ConnStates /\ w.copy = m.copy
      BY <1>t DEF ConnStates
    <2> HIDE DEF m
    <2>3. sp'[c] = onReady(w, "Idle")
      BY <1>4, StartupStep DEF m
    <2> HIDE DEF w
    <2>4. "Idle" \in Status
      BY DEF Status
    <2> DEFINE z == onReady(w, "Idle")
    <2>6. z.server = w.server /\ z.copy = w.copy /\ z.sm = IF w.server = "typed" THEN "Idle" ELSE w.sm
      BY <2>2, <2>4, ReadyFacts
    <2> HIDE DEF z
    <2>5. sp'[c].copy = sp[c].copy /\ (sp'[c].server = "typed" => sp'[c].sm = "Idle")
      BY <2>1, <2>2, <2>3, <2>6 DEF z
    <2> QED BY <1>4, <2>5, StartupStep DEF Tracks, Quiet, OneSent, CopyClass, SameStatus, JudgedAt
  <1>5. CASE Fin(c)
    <2>1. sp'[c].client = "none" /\ sp'[c].copy = None /\ srv'[c].status = "Idle"
      BY <1>5, FinStep DEF Released, Session
    <2> QED BY <1>5, <2>1, FinStep DEF Tracks, Quiet, OneSent, CopyClass, SameStatus, JudgedAt
  <1>6. CASE Release(c)
    <2>1. sp'[c].client = "none" /\ sp'[c].copy = None
      BY <1>6, ReleaseStep DEF Released
    <2> QED BY <1>6, <2>1, ReleaseStep DEF Tracks, Quiet, OneSent, CopyClass, SameStatus, JudgedAt
  <1> QED BY <1>1, <1>2, <1>3, <1>4, <1>5, <1>6

LEMMA TracksSimpleQuery ==
    ASSUME StreamInv, Depth = 1, NEW c \in Conns, Tracks(c),
           NEW kind \in {"query", "reset"}, NEW sql \in Texts, SimpleQuery(c, kind, sql)
    PROVE  Tracks(c)'
  <1> DEFINE p == Observed(c)
             seen == p.client = "typed" /\ Dispatches(sql)
             cmd == Command(kind, None, sql, p, seen, srv[c].owner)
  <1>1. /\ tcp'[c] = "ready" /\ Len(sending[c]) < Depth
        /\ sp'[c] = IF p.client = "typed" THEN onQuery(p, sql) ELSE p
        /\ sending'[c] = Append(sending[c], cmd)
        /\ copyIn'[c] # None => Streams(sql)
        /\ srv' = srv
    BY SimpleQueryStep, Zenon
  <1>2. /\ p \in ConnStates /\ counter \in Nat /\ srv[c].owner \in Nat
        /\ p.client = IF sp[c].client = "typed" THEN "typed" ELSE "stuck"
        /\ sp[c].client = "typed" => p.server = sp[c].server
        /\ p.sm = sp[c].sm /\ p.copy = sp[c].copy
    BY TypeFacts, ObservedFacts DEF Observed, StreamInv
  <1>3. seen \in BOOLEAN
    BY Zenon
  <1> HIDE DEF p
  <1>4. /\ sending[c] = <<>> /\ sending'[c] # <<>> /\ Len(sending'[c]) = 1 /\ Head(sending'[c]) = cmd
    BY <1>1, FirstCommand
  <1>5. CASE p.client = "typed"
    <2>0. sp[c].client = "typed" /\ p.server = sp[c].server /\ sp'[c] = onQuery(p, sql)
      BY <1>1, <1>2, <1>5
    <2> DEFINE z == onQuery(p, sql)
    <2>z. /\ z.client = p.client /\ z.server = p.server
          /\ sql \in Oversized => z = p
          /\ sql \notin Oversized /\ Classify(sql) = "CopyFrom"
                => z.sm = p.sm /\ z.copy = [sql |-> sql, data |-> 0, overflow |-> FALSE]
          /\ Dispatches(sql)
                => z.sm = OnStatement(p.sm, Classify(sql)) /\ z.copy = IF Resets(sql) THEN None ELSE p.copy
      BY <1>2, QueryFacts
    <2>y. sp'[c] = z
      BY <2>0
    <2> HIDE DEF z
    <2>1. sp'[c].client = "typed" /\ sp'[c].server = p.server
      BY <1>5, <2>y, <2>z
    <2>2. CopyWithoutControl /\ Streams(sql) => sp'[c].sm = p.sm
      <3>1. CopyWithoutControl /\ Streams(sql) => OnStatement(p.sm, Classify(sql)) = p.sm
        BY DEF CopyWithoutControl, OnStatement
      <3> QED BY <2>y, <2>z, <3>1 DEF Dispatches
    <2>3. sp'[c].copy # None => Classify(sp'[c].copy.sql) = "CopyFrom"
      <3>1. p.copy # None => Classify(p.copy.sql) = "CopyFrom"
        BY <1>2 DEF Tracks, CopyClass
      <3>2. CASE sql \in Oversized
        BY <2>y, <2>z, <3>1, <3>2
      <3>3. CASE sql \notin Oversized /\ Classify(sql) = "CopyFrom"
        <4>1. sp'[c].copy = [sql |-> sql, data |-> 0, overflow |-> FALSE]
          BY <2>y, <2>z, <3>3
        <4> QED BY <3>3, <4>1
      <3>4. CASE Dispatches(sql)
        <4>1. sp'[c].copy \in {None, p.copy}
          BY <2>y, <2>z, <3>4
        <4> QED BY <3>1, <4>1
      <3> QED BY <3>2, <3>3, <3>4 DEF Dispatches
    <2>4. CopyWithoutControl /\ p.server = "typed" => p.sm = srv[c].status
      BY <1>2, <1>4, <2>0 DEF Tracks, SameStatus
    <2>5. CopyWithoutControl /\ cmd.duplex => cmd.judged = srv[c].status
      <3> HIDE DEF seen
      <3>1. sql \in SQLOrNone
        BY DEF SQLOrNone
      <3>2. (cmd.duplex <=> p.server = "typed") /\ cmd.judged = p.sm
        BY <1>2, <1>3, <3>1, CommandFacts
      <3> QED BY <2>4, <3>2
    <2> HIDE DEF cmd
    <2> QED BY <1>1, <1>4, <2>0, <2>1, <2>2, <2>3, <2>4, <2>5 DEF Tracks, Quiet, OneSent, CopyClass, SameStatus, JudgedAt
  <1>6. CASE p.client # "typed"
    <2>1. sp'[c].client # "typed" /\ sp'[c].copy = sp[c].copy
      BY <1>1, <1>2, <1>6
    <2>2. ~cmd.seen
      <3>1. ~seen
        BY <1>6
      <3> HIDE DEF seen
      <3>2. sql \in SQLOrNone
        BY DEF SQLOrNone
      <3> QED BY <1>2, <1>3, <3>1, <3>2, CommandFacts
    <2> HIDE DEF cmd
    <2> QED BY <1>1, <1>4, <2>1, <2>2 DEF Tracks, Quiet, OneSent, CopyClass, SameStatus, JudgedAt
  <1> QED BY <1>5, <1>6
LEMMA TracksParse ==
    ASSUME StreamInv, Depth = 1, NEW c \in Conns, Tracks(c),
           NEW n \in Names, NEW sql \in Texts, Parse(c, n, sql)
    PROVE  Tracks(c)'
  <1> DEFINE p == Observed(c)
             z == onParse(p, n, sql, srv[c].owner)
             cmd == Command("parse", n, sql, p, FALSE, srv[c].owner)
  <1>1. /\ tcp'[c] = "ready" /\ Len(sending[c]) < Depth /\ copyIn[c] = None
        /\ sp'[c] = IF p.client = "typed" THEN z ELSE p
        /\ sending'[c] = Append(sending[c], cmd)
        /\ srv' = srv /\ copyIn' = copyIn
    BY ParseStep, Zenon
  <1>2. p \in ConnStates /\ srv[c].owner \in Nat /\ p.copy = sp[c].copy
    BY TypeFacts, ObservedFacts DEF Observed, StreamInv
  <1> HIDE DEF p
  <1>3. z.copy = p.copy
    BY <1>2, ParseFacts
  <1>4. /\ sending'[c] # <<>> /\ Len(sending'[c]) = 1 /\ Head(sending'[c]) = cmd
    BY <1>1, FirstCommand
  <1>5. ~cmd.seen
    BY DEF Command
  <1> HIDE DEF z, cmd
  <1>6. sp'[c].copy = sp[c].copy
    BY <1>1, <1>2, <1>3
  <1> QED BY <1>1, <1>4, <1>5, <1>6 DEF Tracks, Quiet, OneSent, CopyClass, SameStatus, JudgedAt

LEMMA TracksBind ==
    ASSUME StreamInv, Depth = 1, NEW c \in Conns, Tracks(c), NEW n \in Names, Bind(c, n)
    PROVE  Tracks(c)'
  <1> DEFINE p    == Observed(c)
             info == p.parsed[n]
             seen == p.client = "typed" /\ info # None
             d    == dispatch(p, info.sql)
             z    == OnClientQuery(d)
             yes  == Command("bind", n, info.sql, p, TRUE, info.owner)
             no   == Command("bind", n, None, p, FALSE, srv[c].owner)
  <1>1. /\ tcp'[c] = "ready" /\ Len(sending[c]) < Depth /\ copyIn[c] = None
        /\ seen => info \in ParseInfos
        /\ sp'[c] = IF seen THEN z ELSE p
        /\ sending'[c] = Append(sending[c], IF seen THEN yes ELSE no)
        /\ srv' = srv /\ copyIn' = copyIn
    BY BindStep, Zenon
  <1>2. /\ p \in ConnStates /\ counter \in Nat /\ srv[c].owner \in Nat
        /\ p.client = IF sp[c].client = "typed" THEN "typed" ELSE "stuck"
        /\ sp[c].client = "typed" => p.server = sp[c].server
        /\ p.sm = sp[c].sm /\ p.copy = sp[c].copy
    BY TypeFacts, ObservedFacts DEF Observed, StreamInv
  <1> HIDE DEF p, info
  <1>3. CASE seen
    <2>1. info.sql \in Texts /\ info.owner \in Nat /\ info.sql \in SQLOrNone
      BY <1>1, <1>3 DEF ParseInfos, SQLOrNone
    <2>2. d \in ConnStates /\ d.copy = IF Resets(info.sql) THEN None ELSE p.copy
      BY <1>2, <2>1, DispatchFacts
    <2> HIDE DEF d
    <2>3. z.copy = d.copy
      BY <2>2, TimerFacts
    <2> HIDE DEF z
    <2>4. (yes.duplex <=> p.server = "typed") /\ yes.judged = p.sm
      <3>1. yes.judged = p.sm /\ yes.duplex = (p.server = "typed")
        BY DEF Command
      <3> HIDE DEF yes
      <3> QED BY <3>1
    <2>5. sending[c] = <<>> /\ sending'[c] # <<>> /\ Len(sending'[c]) = 1 /\ Head(sending'[c]) = yes
      BY <1>1, <1>3, FirstCommand
    <2>6. CopyWithoutControl /\ p.server = "typed" => p.sm = srv[c].status
      BY <1>2, <1>3, <2>5 DEF Tracks, SameStatus
    <2>7. CopyWithoutControl /\ yes.duplex => yes.judged = srv[c].status
      BY <2>4, <2>6
    <2>8. sp'[c].copy \in {sp[c].copy, None}
      BY <1>1, <1>2, <1>3, <2>2, <2>3
    <2> HIDE DEF yes, no, seen
    <2> QED BY <1>1, <2>5, <2>7, <2>8 DEF Tracks, Quiet, OneSent, CopyClass, SameStatus, JudgedAt
  <1>4. CASE ~seen
    <2>1. sending'[c] # <<>> /\ Len(sending'[c]) = 1 /\ Head(sending'[c]) = no
      BY <1>1, <1>4, FirstCommand
    <2>2. ~no.seen
      BY DEF Command
    <2>3. sp'[c].copy = sp[c].copy
      BY <1>1, <1>2, <1>4
    <2> HIDE DEF yes, no, seen
    <2> QED BY <1>1, <2>1, <2>2, <2>3 DEF Tracks, Quiet, OneSent, CopyClass, SameStatus, JudgedAt
  <1> QED BY <1>3, <1>4

LEMMA TracksCopy ==
    ASSUME StreamInv, NEW c \in Conns, Tracks(c), CopyData(c) \/ CopyFail(c) \/ CopyStop(c)
    PROVE  Tracks(c)'
  <1> DEFINE p == Observed(c)
  <1>t. /\ p \in ConnStates
        /\ p.client = IF sp[c].client = "typed" THEN "typed" ELSE "stuck"
        /\ sp[c].client = "typed" => p.server = sp[c].server
        /\ p.sm = sp[c].sm /\ p.copy = sp[c].copy
    BY TypeFacts, ObservedFacts DEF Observed, StreamInv
  <1>1. CASE CopyData(c)
    <2> DEFINE k == CopyAppend(p.copy)
               z == [p EXCEPT !.copy = k]
    <2>1. /\ copyIn[c] # None
          /\ sp'[c] = IF p.client = "typed" THEN z ELSE p
          /\ UNCHANGED <<tcp, srv, sending, reparsed>>
      BY <1>1, CopyDataStep, Zenon
    <2> HIDE DEF p
    <2>2. p.copy \in CopyBuffers \union {None}
      BY <1>t DEF ConnStates
    <2>3. k \in CopyBuffers \union {None}
      BY <2>2, CopyAppendType
    <2>4. k # None => p.copy # None /\ k.sql = p.copy.sql
      <3>1. p.copy # None => p.copy \in CopyBuffers
        BY <2>2
      <3> QED BY <3>1 DEF CopyAppend, CopyBuffers
    <2> HIDE DEF k
    <2>5. z.copy = k /\ z.client = p.client /\ z.server = p.server /\ z.sm = p.sm
      BY <1>t, <2>3, CopyUpdateFacts
    <2> HIDE DEF z
    <2>6. CopyClass(c)'
      BY <1>t, <2>1, <2>4, <2>5 DEF Tracks, CopyClass
    <2>7. SameStatus(c)'
      BY <1>t, <2>1, <2>5 DEF Tracks, SameStatus
    <2>8. tcp[c] = "ready"
      BY <2>1 DEF Tracks, Quiet
    <2> QED BY <2>1, <2>6, <2>7, <2>8 DEF Tracks, Quiet, OneSent, JudgedAt
  <1>2. CASE CopyFail(c)
    <2> DEFINE z == [p EXCEPT !.copy = None]
    <2>1. /\ copyIn[c] # None /\ copyIn'[c] = None
          /\ sp'[c] = IF p.client = "typed" THEN z ELSE p
          /\ UNCHANGED <<tcp, srv, sending, reparsed>>
      BY <1>2, CopyFailStep, Zenon
    <2> HIDE DEF p
    <2>5. z.copy = None /\ z.client = p.client /\ z.server = p.server /\ z.sm = p.sm
      BY <1>t, CopyUpdateFacts
    <2> HIDE DEF z
    <2>6. CopyClass(c)'
      BY <1>t, <2>1, <2>5 DEF Tracks, CopyClass
    <2>7. SameStatus(c)'
      BY <1>t, <2>1, <2>5 DEF Tracks, SameStatus
    <2>8. tcp[c] = "ready"
      BY <2>1 DEF Tracks, Quiet
    <2> QED BY <2>1, <2>6, <2>7, <2>8 DEF Tracks, Quiet, OneSent, JudgedAt
  <1>3. CASE CopyStop(c)
    BY <1>3, CopyStopStep DEF Tracks, Quiet, OneSent, CopyClass, SameStatus, JudgedAt
  <1> QED BY <1>1, <1>2, <1>3

LEMMA TracksCopyDone ==
    ASSUME StreamInv, NEW c \in Conns, Tracks(c), CopyDone(c)
    PROVE  Tracks(c)'
  <1> DEFINE p    == Observed(c)
             done == p.client = "typed" /\ CopyComplete(p.copy)
             q    == [p EXCEPT !.copy = None]
             cmd  == Command(sending[c][1].kind, None, p.copy.sql, q, TRUE, srv[c].owner)
             z    == dispatch(q, p.copy.sql)
             e1   == [cmd EXCEPT !.sql = sending[c][1].sql, !.ended = TRUE,
                                 !.sent = copyIn[c], !.data = p.copy.data]
             e2   == [sending[c][1] EXCEPT !.ended = TRUE]
  <1>1. /\ copyIn[c] # None /\ copyIn[c] \in Nat /\ copyIn'[c] = None
        /\ done => p.copy \in CopyBuffers
        /\ sp'[c] = IF p.client # "typed" THEN p ELSE IF done THEN z ELSE q
        /\ sending[c] = <<>> => sending'[c] = <<>>
        /\ UNCHANGED <<tcp, srv, reparsed>>
    BY CopyDoneStep, Zenon
  <1>2. sending[c] # <<>> =>
           /\ sending[c][1] \in Formed /\ sending[c][1].kind \in {"query", "reset"} /\ Len(sending[c]) = 1
           /\ sending'[c] = IF done THEN <<e1>> ELSE <<e2>>
    BY CopyDoneStep, Zenon
  <1>3. /\ p \in ConnStates /\ counter \in Nat /\ srv[c].owner \in Nat
        /\ p.client = IF sp[c].client = "typed" THEN "typed" ELSE "stuck"
        /\ sp[c].client = "typed" => p.server = sp[c].server
        /\ p.sm = sp[c].sm /\ p.copy = sp[c].copy
    BY TypeFacts, ObservedFacts DEF Observed, StreamInv
  <1> HIDE DEF p
  <1>4. done => p.copy.sql \in Texts /\ p.copy.sql \in SQLOrNone /\ p.copy.data \in Nat
    BY <1>1, StreamAssumption DEF CopyBuffers, SQLOrNone
  <1>5. done => Classify(p.copy.sql) = "CopyFrom"
    BY <1>3 DEF Tracks, CopyClass, CopyComplete
  <1>6. q \in ConnStates /\ q.copy = None /\ q.client = p.client /\ q.server = p.server /\ q.sm = p.sm
    BY <1>3, CopyUpdateFacts
  <1> HIDE DEF q
  <1>7. done => z.client = p.client /\ z.server = p.server /\ z.sm = p.sm /\ z.copy = None
    <2> SUFFICES ASSUME done PROVE z.client = p.client /\ z.server = p.server /\ z.sm = p.sm /\ z.copy = None
      OBVIOUS
    <2>1. ~Resets(p.copy.sql) /\ OnStatement(q.sm, Classify(p.copy.sql)) = q.sm
      BY <1>5 DEF Resets, OnStatement
    <2>2. /\ z.client = q.client /\ z.server = q.server /\ z.sm = OnStatement(q.sm, Classify(p.copy.sql))
          /\ ~Resets(p.copy.sql) => z.copy = q.copy
      BY <1>3, <1>4, <1>6, DispatchFacts
    <2> HIDE DEF z
    <2> QED BY <1>6, <2>1, <2>2
  <1>8. done /\ sending[c] # <<>> => e1.judged = p.sm /\ (e1.duplex <=> p.server = "typed")
    <2> SUFFICES ASSUME done, sending[c] # <<>> PROVE e1.judged = p.sm /\ (e1.duplex <=> p.server = "typed")
      OBVIOUS
    <2>1. (cmd.duplex <=> q.server = "typed") /\ cmd.judged = q.sm
      <3>1. cmd.judged = q.sm /\ cmd.duplex = (q.server = "typed")
        BY DEF Command
      <3> HIDE DEF cmd
      <3> QED BY <3>1
    <2>2. cmd \in Commands
      BY <1>2, <1>3, <1>4, <1>6, NewCommand DEF Formed
    <2> HIDE DEF cmd
    <2>3. e1.judged = cmd.judged /\ e1.duplex = cmd.duplex
      BY <2>2 DEF Commands
    <2> HIDE DEF e1
    <2> QED BY <1>6, <2>1, <2>3
  <1>9. sending[c] # <<>> => /\ e2.judged = sending[c][1].judged /\ e2.duplex = sending[c][1].duplex
                             /\ e2.seen = sending[c][1].seen /\ Head(sending[c]) = sending[c][1]
    <2> SUFFICES ASSUME sending[c] # <<>>
                 PROVE  /\ e2.judged = sending[c][1].judged /\ e2.duplex = sending[c][1].duplex
                        /\ e2.seen = sending[c][1].seen /\ Head(sending[c]) = sending[c][1]
      OBVIOUS
    <2>1. sending[c][1] \in Commands
      BY <1>2 DEF Formed
    <2>2. Head(sending[c]) = sending[c][1]
      OBVIOUS
    <2> QED BY <2>1, <2>2 DEF Commands
  <1> HIDE DEF done, z, cmd, e1, e2
  <1>10. tcp[c] = "ready" /\ tcp'[c] = "ready"
    BY <1>1 DEF Tracks, Quiet
  <1>11. CopyClass(c)'
    BY <1>1, <1>3, <1>6, <1>7 DEF Tracks, CopyClass
  <1>12. CopyWithoutControl /\ sp[c].client = "typed" /\ sp[c].server = "typed" => sp[c].sm = srv[c].status
    BY <1>1 DEF Tracks, SameStatus
  <1>13. SameStatus(c)'
    BY <1>1, <1>3, <1>6, <1>7, <1>12 DEF SameStatus
  <1>14. OneSent(c)'
    <2>1. sending[c] # <<>> => Len(sending'[c]) = 1
      BY <1>2
    <2>2. sending[c] = <<>> => Len(sending'[c]) = 0
      BY <1>1
    <2>3. \A n : n = 0 \/ n = 1 => n <= 1
      OBVIOUS
    <2>4. Len(sending'[c]) <= 1
      BY <2>1, <2>2, <2>3, Zenon
    <2> QED BY <2>4, Zenon DEF OneSent
  <1>15. JudgedAt(c)'
    <2>1. CASE sending[c] = <<>>
      BY <1>1, <2>1 DEF JudgedAt
    <2>2. CASE sending[c] # <<>> /\ done
      <3>1. Head(sending'[c]) = e1
        BY <1>2, <2>2
      <3>2. p.client = "typed"
        BY <2>2 DEF done
      <3>3. CopyWithoutControl /\ e1.duplex => e1.judged = srv[c].status
        BY <1>3, <1>8, <1>12, <2>2, <3>2
      <3> QED BY <1>1, <3>1, <3>3 DEF JudgedAt
    <2>3. CASE sending[c] # <<>> /\ ~done
      <3>1. Head(sending'[c]) = e2
        BY <1>2, <2>3
      <3> QED BY <1>1, <1>9, <2>3, <3>1 DEF Tracks, JudgedAt
    <2> QED BY <2>1, <2>2, <2>3
  <1> QED BY <1>10, <1>11, <1>13, <1>14, <1>15 DEF Tracks, Quiet

\* After the answer to the only command nothing is on its way.
LEMMA LastReply ==
    ASSUME StreamInv, NEW c \in Conns, Tracks(c), NEW e, Reply(c, e)
    PROVE  sending[c] # <<>> /\ sending'[c] = <<>>
  <1>1. sending[c] # <<>> /\ sending'[c] = Tail(sending[c])
    BY ReplyStep, Zenon
  <1>2. sending[c] \in Seq(Formed)
    BY DEF StreamInv, AllFormed
  <1>3. Len(sending[c]) = 1
    <2>1. Len(sending[c]) <= 1
      BY DEF Tracks, OneSent
    <2>2. Len(sending[c]) \in Nat \ {0}
      BY <1>1, <1>2, EmptySeq
    <2>3. \A n \in Nat \ {0} : n <= 1 => n = 1
      OBVIOUS
    <2> QED BY <2>1, <2>2, <2>3, Zenon
  <1>4. Tail(sending[c]) \in Seq(Formed) /\ Len(Tail(sending[c])) = 0
    BY <1>1, <1>2, <1>3
  <1> QED BY <1>1, <1>4, EmptySeq

LEMMA TracksReply ==
    ASSUME StreamInv, NEW c \in Conns, Tracks(c), NEW e, Reply(c, e)
    PROVE  Tracks(c)'
  <1> DEFINE run == Runs(Head(sending[c]), srv[c], e)
             m == parsersFor(sp[c])
             z == onReady(m, run.status)
  <1>1. /\ sending[c] # <<>> /\ run \in Outcomes
        /\ sending'[c] = Tail(sending[c]) /\ srv'[c].status = run.status
        /\ sp'[c] = z
        /\ UNCHANGED <<tcp, copyIn>>
    BY ReplyStep, Zenon
  <1> HIDE DEF run
  <1>2. run.status \in Status
    BY <1>1 DEF Outcomes
  <1>3. m \in ConnStates /\ m.copy = sp[c].copy
    BY TypeFacts, ParsersFacts DEF StreamInv
  <1> HIDE DEF m
  <1>4. z.copy = m.copy /\ z.server = m.server /\ z.sm = IF m.server = "typed" THEN run.status ELSE m.sm
    BY <1>2, <1>3, ReadyFacts
  <1> HIDE DEF z
  <1>5. sending'[c] = <<>>
    BY LastReply
  <1>6. tcp[c] = "ready"
    BY <1>1 DEF Tracks, Quiet
  <1> QED BY <1>1, <1>3, <1>4, <1>5, <1>6 DEF Tracks, Quiet, OneSent, CopyClass, SameStatus, JudgedAt

LEMMA TracksStep ==
    ASSUME StreamInv, Depth = 1, NEW c \in Conns, Tracks(c), Step(c)
    PROVE  Tracks(c)'
  <1>1. Queries \subseteq Texts /\ ResetQueries \subseteq Texts /\ Prepared \subseteq Texts
    BY DEF Texts
  <1>2. ASSUME NEW sql \in Queries, Query(c, sql) PROVE Tracks(c)'
    BY <1>1, <1>2, TracksSimpleQuery DEF Query
  <1>3. ASSUME NEW sql \in ResetQueries, PoolerReset(c, sql) PROVE Tracks(c)'
    BY <1>1, <1>3, TracksSimpleQuery DEF PoolerReset
  <1>4. ASSUME NEW n \in Names, NEW sql \in Prepared, Parse(c, n, sql) PROVE Tracks(c)'
    BY <1>1, <1>4, TracksParse
  <1> QED BY <1>2, <1>3, <1>4, TracksConnections, TracksBind, TracksCopy, TracksCopyDone, TracksReply DEF Step

AllTrack == \A c \in Conns : Tracks(c)

LEMMA InitTracks == Init => AllTrack
  <1> SUFFICES ASSUME Init, NEW c \in Conns PROVE Tracks(c)
    BY DEF AllTrack
  <1>1. /\ srv[c] = Session(0) /\ sending[c] = <<>> /\ copyIn[c] = None /\ sp[c] = Released /\ reparsed[c] = {}
    BY DEF Init
  <1>2. sp[c].copy = None /\ sp[c].client = "none" /\ srv[c].status = "Idle"
    BY <1>1 DEF Released, Session
  <1> QED BY <1>1, <1>2 DEF Tracks, Quiet, OneSent, CopyClass, SameStatus, JudgedAt

LEMMA NextTracks ==
    ASSUME Depth = 1
    PROVE  StreamInv /\ AllTrack /\ [Next]_vars => AllTrack'
  <1> SUFFICES ASSUME StreamInv, AllTrack, [Next]_vars PROVE AllTrack'
    OBVIOUS
  <1>1. CASE UNCHANGED vars
    BY <1>1 DEF vars, env, hist, AllTrack, Tracks, Quiet, OneSent, CopyClass, SameStatus, JudgedAt
  <1>2. CASE Next
    <2>1. PICK c \in Conns : Step(c)
      BY <1>2 DEF Next, Step
    <2>2. Tracks(c)'
      BY <2>1, TracksStep DEF AllTrack
    <2>3. ASSUME NEW d \in Conns, d # c PROVE Tracks(d)'
      BY <2>1, <2>3, StepFrame, TracksFrame DEF AllTrack
    <2> QED BY <2>2, <2>3 DEF AllTrack
  <1> QED BY <1>1, <1>2

\* When clients wait for ReadyForQuery and no batch has both transaction control
\* and a COPY, dispatch judges every statement in the transaction status in
\* which the source runs it: OnStatement's inference is put right by
\* OnReadyForQuery before the next statement is judged, also after failures,
\* reset queries and the reuse of a connection's ports.
THEOREM StreamJudges ==
    ASSUME Depth = 1, CopyWithoutControl
    PROVE  Spec => []JudgedInSourceStatus
  <1>1. AllTrack => JudgedInSourceStatus
    BY DEF AllTrack, Tracks, JudgedAt, JudgedInSourceStatus, Pending
  <1> QED BY <1>1, InitStream, NextStream, InitTracks, NextTracks, PTL DEF Spec

----------------------------------------------------------------------------
(***************************************************************************)
(* What is recorded of a command.                                          *)
(***************************************************************************)
\* The class of a text is that of one of its statements, and none has a higher priority.
LEMMA ClassifyChooses ==
    ASSUME NEW sql \in Texts
    PROVE  /\ \E i \in DOMAIN sql : Classify(sql) = classifySingle(sql[i])
           /\ \A j \in DOMAIN sql :
                 stmtClassPriority[classifySingle(sql[j])] <= stmtClassPriority[Classify(sql)]
  <1> DEFINE pri(i) == stmtClassPriority[classifySingle(sql[i])]
             Best(i) == /\ \A j \in DOMAIN sql : pri(j) <= pri(i)
                        /\ \A j \in 1..(i - 1) : pri(j) < pri(i)
  <1>1. Len(sql) \in Nat /\ Len(sql) # 0 /\ DOMAIN sql = 1..Len(sql)
    BY TextFacts, EmptySeq
  <1>2. \A i : pri(i) \in 0..8
    <2>1. \A kind : classifySingle(kind) \in Classes
      BY DEF classifySingle, Classes, RuleClasses
    <2>2. \A class \in Classes : stmtClassPriority[class] \in 0..8
      BY DEF stmtClassPriority, Classes, RuleClasses
    <2> QED BY <2>1, <2>2
  <1>3. Classify(sql) = classifySingle(sql[CHOOSE i \in DOMAIN sql : Best(i)])
    BY DEF Classify
  <1>4. \E i \in DOMAIN sql : Best(i)
    <2> DEFINE Short == {8 - pri(i) : i \in 1..Len(sql)}
    <2> HIDE DEF pri
    <2>1. Short \subseteq Nat /\ Short # {}
      <3>1. 1 \in 1..Len(sql)
        BY <1>1
      <3>2. 8 - pri(1) \in Short
        BY <3>1
      <3>3. Short \subseteq Nat
        BY <1>2
      <3> QED BY <3>2, <3>3
    <2>2. PICK m \in Short : \A y \in Short : m <= y
      <3> HIDE DEF Short
      <3> QED BY <2>1, LeastMember
    <2>3. \A j \in 1..Len(sql) : pri(j) <= 8 - m
      <3> SUFFICES ASSUME NEW j \in 1..Len(sql) PROVE pri(j) <= 8 - m
        OBVIOUS
      <3>1. 8 - pri(j) \in Short
        OBVIOUS
      <3>2. m <= 8 - pri(j)
        BY <2>2, <3>1
      <3>3. m \in Nat
        BY <2>1, <2>2
      <3> HIDE DEF Short
      <3> QED BY <1>2, <3>2, <3>3
    <2> DEFINE T == {i \in 1..Len(sql) : pri(i) = 8 - m}
    <2>4. T \subseteq Nat /\ T # {}
      <3>1. PICK i \in 1..Len(sql) : m = 8 - pri(i)
        OBVIOUS
      <3>2. pri(i) = 8 - m
        BY <1>2, <3>1
      <3>3. i \in T
        BY <3>2
      <3>4. T \subseteq 1..Len(sql) /\ 1..Len(sql) \subseteq Nat
        OBVIOUS
      <3> HIDE DEF T, Short
      <3> QED BY <3>3, <3>4
    <2>5. PICK x \in T : \A y \in T : x <= y
      <3> HIDE DEF T
      <3> QED BY <2>4, LeastMember
    <2>6. x \in 1..Len(sql) /\ pri(x) = 8 - m
      BY <2>5
    <2>7. ASSUME NEW j \in 1..(x - 1) PROVE pri(j) < pri(x)
      <3>1. j \in 1..Len(sql) /\ ~(x <= j)
        BY <1>1, <2>6
      <3>2. j \notin T
        BY <2>5, <3>1
      <3>3. pri(j) # 8 - m
        BY <3>1, <3>2
      <3>4. pri(j) <= pri(x) /\ pri(j) # pri(x)
        BY <2>3, <2>6, <3>1, <3>3
      <3> QED BY <1>2, <3>4
    <2>8. x \in DOMAIN sql /\ Best(x)
      BY <1>1, <2>3, <2>6, <2>7
    <2> QED BY <2>8
  <1> DEFINE b == CHOOSE i \in DOMAIN sql : Best(i)
  <1> HIDE DEF Best
  <1>5. b \in DOMAIN sql /\ Best(b)
    BY <1>4
  <1>6. \A j \in DOMAIN sql : pri(j) <= pri(b)
    BY <1>5 DEF Best
  <1> HIDE DEF b
  <1> QED BY <1>3, <1>5, <1>6 DEF b

LEMMA CopyStreams ==
    ASSUME NEW sql \in Texts, Classify(sql) = "CopyFrom"
    PROVE  Streams(sql)
  <1>1. PICK i \in DOMAIN sql : classifySingle(sql[i]) = "CopyFrom"
    BY ClassifyChooses
  <1>2. sql[i] = "copyFrom"
    BY <1>1 DEF classifySingle
  <1>3. "copyFrom" \in Range(sql)
    BY <1>1, <1>2 DEF Range
  <1> QED BY <1>3 DEF Streams

\* Every text that is Parsed is recorded and is no reset; the pooler's reset is seen as one.
PreparedRecorded == \A sql \in Prepared : sql \notin Oversized /\ ~isPoolerResetQuery(sql)
ResetsRecognised ==
    \A sql \in ResetQueries : sql \notin Oversized /\ Classify(sql) = "Utility" /\ isPoolerResetQuery(sql)

Answering(c, kind) == sending[c] # <<>> /\ Head(sending[c]).kind = kind
ParsesNow(c, n) == Answering(c, "parse") /\ Head(sending[c]).name = n

\* Of a connection met later nothing is kept.
Unframed(c) == sp[c].client # "typed" => ~sp[c].timing /\ \A n \in Names : sp[c].parsed[n] = None
\* No timer runs between two commands.
Stopped(c) == sending[c] = <<>> /\ sp[c].server = "typed" => ~sp[c].timing
\* A recorded statement is its owner's and has the server's text, also when
\* the unnamed one is being redefined.
KnownAt(c, n) ==
    /\ cfg.extended
    /\ sp[c].parsed[n] \in ParseInfos
    /\ sp[c].parsed[n].sql \in Prepared
    /\ sp[c].parsed[n].owner = srv[c].owner
    /\ ~Answering(c, "reset")
    /\ srv[c].prep[n] \in {sp[c].parsed[n].sql, None} \/ (n = Unnamed /\ ParsesNow(c, n))
    /\ ParsesNow(c, n) => Head(sending[c]).sql = sp[c].parsed[n].sql
Known(c) == \A n \in Names : sp[c].parsed[n] # None => KnownAt(c, n)
Found(c) == sp[c].client = "typed" /\ ~Answering(c, "reset") => \A n \in reparsed[c] : sp[c].parsed[n] # None

\* The parts of RecordsOwnStatement at one connection.
BindsAt(c) ==
    Answering(c, "bind") /\ Head(sending[c]).seen
       => /\ Head(sending[c]).owner = srv[c].owner
          /\ srv[c].prep[Head(sending[c]).name] \in {Head(sending[c]).sql, None}
FindsAt(c) ==
    /\ sp[c].client = "typed" /\ Answering(c, "bind")
    /\ Head(sending[c]).name \in reparsed[c] /\ srv[c].prep[Head(sending[c]).name] # None
    => Head(sending[c]).seen
TimesAt(c) ==
    /\ sending[c] # <<>> /\ sp[c].timing /\ Head(sending[c]).duplex
    /\ Head(sending[c]).kind \in {"query", "reset"} => ~Streams(Head(sending[c]).sql)
    => Head(sending[c]).seen /\ sp[c].lastSQL = Head(sending[c]).sql

Recorded(c) == /\ Unframed(c) /\ Stopped(c) /\ Known(c) /\ Found(c)
               /\ BindsAt(c) /\ FindsAt(c) /\ TimesAt(c)

\* A step that changes neither the session nor what is recorded of it.
LEMMA RecordedKeep ==
    ASSUME NEW c \in Conns, Recorded(c),
           srv'[c] = srv[c], sending'[c] = sending[c], reparsed'[c] = reparsed[c], cfg' = cfg,
           sp'[c].client = "typed" <=> sp[c].client = "typed",
           sp[c].client = "typed" => sp'[c].server = sp[c].server,
           sp'[c].parsed = sp[c].parsed, sp'[c].timing = sp[c].timing, sp'[c].lastSQL = sp[c].lastSQL
    PROVE  Recorded(c)'
  <1>1. Unframed(c)' /\ Stopped(c)'
    BY DEF Recorded, Unframed, Stopped
  <1>2. Known(c)'
    BY DEF Recorded, Known, KnownAt, Answering, ParsesNow
  <1>3. Found(c)'
    BY DEF Recorded, Found, Answering
  <1>4. BindsAt(c)' /\ FindsAt(c)'
    BY DEF Recorded, BindsAt, FindsAt, Answering
  <1>5. TimesAt(c)'
    BY DEF Recorded, TimesAt
  <1> QED BY <1>1, <1>2, <1>3, <1>4, <1>5 DEF Recorded

LEMMA RecordedFrame ==
    ASSUME NEW c \in Conns, Others(c), cfg' = cfg, NEW d \in Conns, d # c, Recorded(d)
    PROVE  Recorded(d)'
  BY RecordedKeep DEF Others

\* Nothing on its way and nothing recorded.
LEMMA RecordedNothing ==
    ASSUME NEW c \in Conns, sending'[c] = <<>>, ~sp'[c].timing, \A n \in Names : sp'[c].parsed[n] = None,
           reparsed'[c] = {}
    PROVE  Recorded(c)'
  BY DEF Recorded, Unframed, Stopped, Known, KnownAt, Found, BindsAt, FindsAt, TimesAt, Answering

LEMMA ReleasedFacts ==
    /\ Released.client = "none" /\ Released.timing = FALSE
    /\ \A n \in Names : Released.parsed[n] = None
  BY DEF Released, NoStatements

LEMMA RecordedConnections ==
    ASSUME StreamInv, NEW c \in Conns, Tracks(c), Recorded(c),
           Connect(c) \/ RefuseSSL(c) \/ Cancel(c) \/ Startup(c) \/ Fin(c) \/ Release(c)
    PROVE  Recorded(c)'
  <1> DEFINE m == parsersFor(sp[c])
  <1>t. /\ sp[c] \in ConnStates /\ m \in ConnStates
        /\ m.client = IF sp[c].client = "none" THEN "startup" ELSE sp[c].client
        /\ m.server = IF sp[c].client = "none" THEN "typed" ELSE sp[c].server
        /\ m.parsed = sp[c].parsed /\ m.timing = sp[c].timing /\ m.lastSQL = sp[c].lastSQL
    BY TypeFacts, ParsersFacts DEF StreamInv
  <1>1. CASE Connect(c)
    BY <1>1, ConnectStep, RecordedKeep
  <1>3. CASE Cancel(c)
    <2>1. sp'[c] = m /\ UNCHANGED <<cfg, srv, sending, reparsed>>
      BY <1>3, CancelStep, Zenon
    <2> HIDE DEF m
    <2> QED BY <1>t, <2>1, RecordedKeep
  <1>2. CASE RefuseSSL(c)
    <2> DEFINE z == [m EXCEPT !.server = "stuck"]
    <2>1. sp'[c] = z /\ tcp[c] = "startup" /\ UNCHANGED <<cfg, srv, sending, reparsed>>
      BY <1>2, RefuseSSLStep, Zenon
    <2> HIDE DEF m
    <2>2. /\ z.server = "stuck" /\ z.client = m.client
          /\ z.parsed = m.parsed /\ z.timing = m.timing /\ z.lastSQL = m.lastSQL
      BY <1>t DEF ConnStates
    <2> HIDE DEF z
    <2>3. sending[c] = <<>> /\ reparsed[c] = {}
      BY <2>1 DEF Tracks, Quiet
    <2>4. Unframed(c)' /\ Stopped(c)'
      BY <1>t, <2>1, <2>2 DEF Recorded, Unframed, Stopped
    <2>5. Known(c)'
      BY <1>t, <2>1, <2>2 DEF Recorded, Known, KnownAt, Answering, ParsesNow
    <2>6. Found(c)' /\ BindsAt(c)' /\ FindsAt(c)' /\ TimesAt(c)'
      BY <2>1, <2>3 DEF Found, BindsAt, FindsAt, TimesAt, Answering
    <2> QED BY <2>4, <2>5, <2>6 DEF Recorded
  <1>4. CASE Startup(c)
    <2> DEFINE w == [m EXCEPT !.client = "typed"]
               z == onReady(w, "Idle")
    <2>1. sp'[c] = z /\ tcp[c] = "startup" /\ UNCHANGED <<cfg, srv, sending, reparsed>>
      BY <1>4, StartupStep, Zenon
    <2> HIDE DEF m
    <2>2. w \in ConnStates /\ w.server = m.server /\ w.client = "typed" /\ w.parsed = m.parsed
      BY <1>t DEF ConnStates
    <2> HIDE DEF w
    <2>3. "Idle" \in Status
      BY DEF Status
    <2>4. /\ z.client = w.client /\ z.server = w.server /\ z.parsed = w.parsed
          /\ z.timing = IF w.server = "typed" THEN FALSE ELSE w.timing
      BY <2>2, <2>3, ReadyFacts
    <2> HIDE DEF z
    <2>5. sending[c] = <<>> /\ reparsed[c] = {}
      BY <2>1 DEF Tracks, Quiet
    <2>6. Unframed(c)' /\ Stopped(c)'
      BY <2>1, <2>2, <2>4 DEF Unframed, Stopped
    <2>7. Known(c)'
      BY <1>t, <2>1, <2>2, <2>4 DEF Recorded, Known, KnownAt, Answering, ParsesNow
    <2>8. Found(c)' /\ BindsAt(c)' /\ FindsAt(c)' /\ TimesAt(c)'
      BY <2>1, <2>5 DEF Found, BindsAt, FindsAt, TimesAt, Answering
    <2> QED BY <2>6, <2>7, <2>8 DEF Recorded
  <1>5. CASE Fin(c)
    BY <1>5, FinStep, ReleasedFacts, RecordedNothing
  <1>6. CASE Release(c)
    <2>1. sp'[c] = Released /\ reparsed'[c] = {} /\ UNCHANGED <<cfg, srv, sending>>
      BY <1>6, ReleaseStep
    <2>2. Unframed(c)' /\ Stopped(c)' /\ Found(c)' /\ FindsAt(c)' /\ TimesAt(c)'
      BY <2>1, ReleasedFacts DEF Unframed, Stopped, Found, FindsAt, TimesAt
    <2>3. Known(c)'
      BY <2>1, ReleasedFacts DEF Known
    <2>4. BindsAt(c)'
      BY <2>1 DEF Recorded, BindsAt, Answering
    <2> QED BY <2>2, <2>3, <2>4 DEF Recorded
  <1> QED BY <1>1, <1>2, <1>3, <1>4, <1>5, <1>6

LEMMA RecordedCopy ==
    ASSUME StreamInv, NEW c \in Conns, Recorded(c), CopyData(c) \/ CopyFail(c) \/ CopyStop(c)
    PROVE  Recorded(c)'
  <1> DEFINE p == Observed(c)
  <1>t. /\ p \in ConnStates
        /\ p.client = IF sp[c].client = "typed" THEN "typed" ELSE "stuck"
        /\ sp[c].client = "typed" => p.server = sp[c].server
        /\ p.parsed = sp[c].parsed /\ p.timing = sp[c].timing /\ p.lastSQL = sp[c].lastSQL
    BY TypeFacts, ObservedFacts DEF Observed, StreamInv
  <1>1. CASE CopyData(c)
    <2> DEFINE k == CopyAppend(p.copy)
               z == [p EXCEPT !.copy = k]
    <2>1. /\ sp'[c] = IF p.client = "typed" THEN z ELSE p
          /\ UNCHANGED <<cfg, srv, sending, reparsed>>
      BY <1>1, CopyDataStep, Zenon
    <2> HIDE DEF p
    <2>2. k \in CopyBuffers \union {None}
      BY <1>t, CopyAppendType DEF ConnStates
    <2> HIDE DEF k
    <2>3. z.client = p.client /\ z.server = p.server /\ z.parsed = p.parsed /\ z.timing = p.timing /\ z.lastSQL = p.lastSQL
      BY <1>t, <2>2, CopyUpdateFacts
    <2> HIDE DEF z
    <2> QED BY <1>t, <2>1, <2>3, RecordedKeep
  <1>2. CASE CopyFail(c)
    <2> DEFINE z == [p EXCEPT !.copy = None]
    <2>1. /\ sp'[c] = IF p.client = "typed" THEN z ELSE p
          /\ UNCHANGED <<cfg, srv, sending, reparsed>>
      BY <1>2, CopyFailStep, Zenon
    <2> HIDE DEF p
    <2>3. z.client = p.client /\ z.server = p.server /\ z.parsed = p.parsed /\ z.timing = p.timing /\ z.lastSQL = p.lastSQL
      BY <1>t, CopyUpdateFacts
    <2> HIDE DEF z
    <2> QED BY <1>t, <2>1, <2>3, RecordedKeep
  <1>3. CASE CopyStop(c)
    BY <1>3, CopyStopStep, RecordedKeep
  <1> QED BY <1>1, <1>2, <1>3
LEMMA RecordedQuery ==
    ASSUME StreamInv, Depth = 1, NEW c \in Conns, Recorded(c), NEW sql \in Texts, Query(c, sql)
    PROVE  Recorded(c)'
  <1> DEFINE p == Observed(c)
             seen == p.client = "typed" /\ Dispatches(sql)
             z == onQuery(p, sql)
             cmd == Command("query", None, sql, p, seen, srv[c].owner)
  <1>0. SimpleQuery(c, "query", sql) /\ ~Resets(sql)
    BY DEF Query, Resets
  <1>1. /\ Len(sending[c]) < Depth
        /\ sp'[c] = IF p.client = "typed" THEN z ELSE p
        /\ sending'[c] = Append(sending[c], cmd)
        /\ UNCHANGED <<cfg, srv, reparsed>>
    BY <1>0, SimpleQueryStep, Zenon
  <1>2. /\ p \in ConnStates /\ counter \in Nat
        /\ p.client = IF sp[c].client = "typed" THEN "typed" ELSE "stuck"
        /\ sp[c].client = "typed" => p.server = sp[c].server
        /\ p.parsed = sp[c].parsed /\ p.timing = sp[c].timing
    BY TypeFacts, ObservedFacts DEF Observed, StreamInv
  <1> HIDE DEF p
  <1>3. /\ z.client = p.client /\ z.server = p.server
        /\ sql \in Oversized => z = p
        /\ sql \notin Oversized /\ Classify(sql) = "CopyFrom" => z.parsed = p.parsed
        /\ Dispatches(sql) => z.lastSQL = sql /\ z.parsed = IF Resets(sql) THEN NoStatements ELSE p.parsed
    BY <1>2, QueryFacts
  <1>4. sending[c] = <<>> /\ sending'[c] # <<>> /\ Head(sending'[c]) = cmd
    BY <1>1, FirstCommand
  <1>5. cmd.kind = "query" /\ cmd.sql = sql
    BY DEF Command
  <1>6. seen => cmd.seen
    <2>1. cmd.seen = seen
      BY DEF Command
    <2> QED BY <2>1
  <1>7. cmd.duplex => p.server = "typed"
    <2>1. cmd.duplex = (p.server = "typed")
      BY DEF Command
    <2> QED BY <2>1
  <1> HIDE DEF z, cmd
  <1>8. z.parsed = p.parsed
    BY <1>0, <1>3 DEF Dispatches
  <1>9. sp'[c].parsed = sp[c].parsed /\ (sp'[c].client = "typed" <=> sp[c].client = "typed")
    BY <1>1, <1>2, <1>3, <1>8
  <1>10. sp'[c].client # "typed" => sp'[c].timing = sp[c].timing
    BY <1>1, <1>2, <1>3
  <1>11. Unframed(c)' /\ Stopped(c)'
    BY <1>4, <1>9, <1>10 DEF Recorded, Unframed, Stopped
  <1>12. Known(c)'
    BY <1>1, <1>4, <1>5, <1>9 DEF Recorded, Known, KnownAt, Answering, ParsesNow
  <1>13. Found(c)'
    BY <1>1, <1>4, <1>5, <1>9 DEF Recorded, Found, Answering
  <1>14. BindsAt(c)' /\ FindsAt(c)'
    BY <1>4, <1>5 DEF BindsAt, FindsAt, Answering
  <1>15. TimesAt(c)'
    <2>1. SUFFICES ASSUME sp'[c].timing, cmd.duplex, ~Streams(sql)
                   PROVE  cmd.seen /\ sp'[c].lastSQL = sql
      BY <1>4, <1>5 DEF TimesAt
    <2>2. sp[c].client = "typed" /\ p.client = "typed"
      BY <1>2, <1>9, <1>10, <2>1 DEF Recorded, Unframed
    <2>3. ~p.timing
      BY <1>2, <1>4, <1>7, <2>1, <2>2 DEF Recorded, Stopped
    <2>4. sp'[c] = z
      BY <1>1, <2>2
    <2>5. sql \notin Oversized
      BY <1>3, <2>1, <2>3, <2>4
    <2>6. Classify(sql) # "CopyFrom"
      BY <2>1, CopyStreams
    <2>7. Dispatches(sql)
      BY <2>5, <2>6 DEF Dispatches
    <2> QED BY <1>3, <1>6, <2>2, <2>4, <2>7
  <1> QED BY <1>11, <1>12, <1>13, <1>14, <1>15 DEF Recorded

LEMMA RecordedPoolerReset ==
    ASSUME StreamInv, Depth = 1, ResetsRecognised, NEW c \in Conns, Recorded(c),
           NEW sql \in ResetQueries, PoolerReset(c, sql)
    PROVE  Recorded(c)'
  <1> DEFINE p == Observed(c)
             seen == p.client = "typed" /\ Dispatches(sql)
             z == onQuery(p, sql)
             cmd == Command("reset", None, sql, p, seen, srv[c].owner)
  <1>0. SimpleQuery(c, "reset", sql) /\ Resets(sql) /\ Dispatches(sql) /\ sql \in Texts
    BY DEF PoolerReset, Resets, ResetsRecognised, Dispatches, Texts
  <1>1. /\ Len(sending[c]) < Depth
        /\ sp'[c] = IF p.client = "typed" THEN z ELSE p
        /\ sending'[c] = Append(sending[c], cmd)
        /\ UNCHANGED <<cfg, srv, reparsed>>
    BY <1>0, SimpleQueryStep, Zenon
  <1>2. /\ p \in ConnStates /\ counter \in Nat
        /\ p.client = IF sp[c].client = "typed" THEN "typed" ELSE "stuck"
        /\ p.parsed = sp[c].parsed /\ p.timing = sp[c].timing
    BY TypeFacts, ObservedFacts DEF Observed, StreamInv
  <1> HIDE DEF p
  <1>3. z.client = p.client /\ z.lastSQL = sql /\ z.parsed = NoStatements
    BY <1>0, <1>2, QueryFacts
  <1>4. sending'[c] # <<>> /\ Head(sending'[c]) = cmd
    BY <1>1, FirstCommand
  <1>5. cmd.kind = "reset" /\ cmd.sql = sql
    BY DEF Command
  <1>6. p.client = "typed" => cmd.seen
    <2>1. cmd.seen = seen
      BY DEF Command
    <2> QED BY <1>0, <2>1
  <1> HIDE DEF z, cmd
  <1>7. \A n \in Names : sp'[c].parsed[n] = None
    <2>1. CASE p.client = "typed"
      BY <1>1, <1>3, <2>1 DEF NoStatements
    <2>2. CASE p.client # "typed"
      <3>1. sp'[c].parsed = sp[c].parsed /\ sp[c].client # "typed"
        BY <1>1, <1>2, <2>2
      <3> QED BY <3>1 DEF Recorded, Unframed
    <2> QED BY <2>1, <2>2
  <1>8. sp'[c].client # "typed" => ~sp'[c].timing
    BY <1>1, <1>2, <1>3 DEF Recorded, Unframed
  <1>9. Unframed(c)' /\ Stopped(c)'
    BY <1>4, <1>7, <1>8 DEF Unframed, Stopped
  <1>10. Known(c)' /\ Found(c)'
    BY <1>4, <1>5, <1>7 DEF Known, Found, Answering
  <1>11. BindsAt(c)' /\ FindsAt(c)'
    BY <1>4, <1>5 DEF BindsAt, FindsAt, Answering
  <1>12. TimesAt(c)'
    <2>1. SUFFICES ASSUME sp'[c].timing PROVE cmd.seen /\ sp'[c].lastSQL = sql
      BY <1>4, <1>5 DEF TimesAt
    <2>2. p.client = "typed" /\ sp'[c] = z
      BY <1>1, <1>8, <2>1
    <2> QED BY <1>3, <1>6, <2>2
  <1> QED BY <1>9, <1>10, <1>11, <1>12 DEF Recorded

LEMMA RecordedParse ==
    ASSUME StreamInv, Depth = 1, PreparedRecorded, NEW c \in Conns, Tracks(c), Recorded(c),
           NEW n \in Names, NEW sql \in Prepared, Parse(c, n, sql)
    PROVE  Recorded(c)'
  <1> DEFINE p == Observed(c)
             owner == srv[c].owner
             z == onParse(p, n, sql, owner)
             cmd == Command("parse", n, sql, p, FALSE, owner)
             info == [sql |-> sql, owner |-> owner]
  <1>0. sql \in Texts /\ sql \notin Oversized
    BY DEF Texts, PreparedRecorded
  <1>1. /\ Len(sending[c]) < Depth
        /\ n = Unnamed \/ srv[c].prep[n] = None
        /\ sp'[c] = IF p.client = "typed" THEN z ELSE p
        /\ sending'[c] = Append(sending[c], cmd)
        /\ reparsed'[c] = IF cfg.extended /\ sql \notin Oversized THEN reparsed[c] \union {n} ELSE reparsed[c] \ {n}
        /\ UNCHANGED <<cfg, srv>>
    BY <1>0, ParseStep, Zenon
  <1>2. /\ p \in ConnStates /\ owner \in Nat
        /\ p.client = IF sp[c].client = "typed" THEN "typed" ELSE "stuck"
        /\ sp[c].client = "typed" => p.server = sp[c].server
        /\ p.parsed = sp[c].parsed /\ p.timing = sp[c].timing
    BY TypeFacts, ObservedFacts DEF Observed, StreamInv
  <1> HIDE DEF p, owner
  <1>3. /\ z.client = p.client /\ z.server = p.server /\ z.timing = p.timing
        /\ \A m \in Names : m # n => z.parsed[m] = p.parsed[m]
        /\ z.parsed[n] = IF cfg.extended THEN info ELSE p.parsed[n]
    BY <1>0, <1>2, ParseFacts
  <1>4. sending[c] = <<>> /\ sending'[c] # <<>> /\ Head(sending'[c]) = cmd
    BY <1>1, FirstCommand
  <1>5. cmd.kind = "parse" /\ cmd.sql = sql /\ cmd.name = n
    BY DEF Command
  <1>6. cmd.duplex => p.server = "typed"
    <2>1. cmd.duplex = (p.server = "typed")
      BY DEF Command
    <2> QED BY <2>1
  <1>7. info \in ParseInfos /\ info # None /\ info.sql = sql /\ info.owner = owner
    BY <1>0, <1>2, StreamAssumption DEF ParseInfos
  <1> HIDE DEF z, cmd, info
  <1>8. /\ sp'[c].client = "typed" <=> sp[c].client = "typed"
        /\ sp'[c].timing = sp[c].timing
        /\ \A m \in Names : m # n => sp'[c].parsed[m] = sp[c].parsed[m]
        /\ sp'[c].parsed[n] = IF cfg.extended /\ sp[c].client = "typed" THEN info ELSE sp[c].parsed[n]
    <2>1. CASE sp[c].client = "typed"
      BY <1>1, <1>2, <1>3, <2>1
    <2>2. CASE sp[c].client # "typed"
      BY <1>1, <1>2, <2>2
    <2> QED BY <2>1, <2>2
  <1>9. Unframed(c)' /\ Stopped(c)'
    <2>1. Unframed(c)'
      BY <1>8 DEF Recorded, Unframed
    <2> QED BY <1>4, <2>1 DEF Stopped
  <1>10. Known(c)'
    <2>1. ASSUME NEW m \in Names, sp'[c].parsed[m] # None PROVE KnownAt(c, m)'
      <3>1. CASE m # n
        <4>1. KnownAt(c, m) /\ sp'[c].parsed[m] = sp[c].parsed[m]
          BY <1>8, <2>1, <3>1 DEF Recorded, Known
        <4>2. srv[c].prep[m] \in {sp[c].parsed[m].sql, None}
          BY <1>4, <4>1 DEF KnownAt, ParsesNow, Answering
        <4> QED BY <1>1, <1>4, <1>5, <3>1, <4>1, <4>2 DEF KnownAt, ParsesNow, Answering
      <3>2. CASE m = n
        <4>1. cfg.extended
          BY <1>8, <2>1, <3>2 DEF Recorded, Known, KnownAt
        <4>2. sp[c].client = "typed"
          BY <1>8, <2>1, <3>2 DEF Recorded, Unframed
        <4>3. sp'[c].parsed[n] = info
          BY <1>8, <4>1, <4>2
        <4> QED BY <1>1, <1>4, <1>5, <1>7, <3>2, <4>1, <4>3 DEF KnownAt, ParsesNow, Answering, owner
      <3> QED BY <3>1, <3>2
    <2> QED BY <2>1 DEF Known
  <1>11. Found(c)'
    <2>1. SUFFICES ASSUME sp'[c].client = "typed", NEW m \in reparsed'[c] PROVE sp'[c].parsed[m] # None
      BY DEF Found
    <2>2. reparsed[c] \subseteq Names
      BY DEF StreamInv, TypeOK
    <2>3. \A k \in reparsed[c] : sp[c].parsed[k] # None
      BY <1>4, <1>8, <2>1 DEF Recorded, Found, Answering
    <2>4. CASE m = n
      <3>1. cfg.extended
        BY <1>0, <1>1, <2>4
      <3> QED BY <1>7, <1>8, <2>1, <2>4, <3>1
    <2>5. CASE m # n
      <3>1. m \in reparsed[c]
        BY <1>1, <2>5
      <3> QED BY <1>8, <2>2, <2>3, <2>5, <3>1
    <2> QED BY <2>4, <2>5
  <1>12. BindsAt(c)' /\ FindsAt(c)'
    BY <1>4, <1>5 DEF BindsAt, FindsAt, Answering
  <1>13. TimesAt(c)'
    <2>1. SUFFICES ASSUME sp'[c].timing, cmd.duplex PROVE FALSE
      BY <1>4 DEF TimesAt
    <2>2. sp[c].timing /\ sp[c].client = "typed"
      BY <1>8, <2>1 DEF Recorded, Unframed
    <2> QED BY <1>2, <1>4, <1>6, <2>1, <2>2 DEF Recorded, Stopped
  <1> QED BY <1>9, <1>10, <1>11, <1>12, <1>13 DEF Recorded

LEMMA RecordedBind ==
    ASSUME StreamInv, Depth = 1, PreparedRecorded, NEW c \in Conns, Recorded(c), NEW n \in Names, Bind(c, n)
    PROVE  Recorded(c)'
  <1> DEFINE p    == Observed(c)
             info == p.parsed[n]
             seen == p.client = "typed" /\ info # None
             d    == dispatch(p, info.sql)
             z    == OnClientQuery(d)
             yes  == Command("bind", n, info.sql, p, TRUE, info.owner)
             no   == Command("bind", n, None, p, FALSE, srv[c].owner)
  <1>1. /\ Len(sending[c]) < Depth
        /\ seen => info \in ParseInfos
        /\ sp'[c] = IF seen THEN z ELSE p
        /\ sending'[c] = Append(sending[c], IF seen THEN yes ELSE no)
        /\ UNCHANGED <<cfg, srv, reparsed>>
    BY BindStep, Zenon
  <1>2. /\ p \in ConnStates /\ counter \in Nat
        /\ p.client = IF sp[c].client = "typed" THEN "typed" ELSE "stuck"
        /\ sp[c].client = "typed" => p.server = sp[c].server
        /\ p.parsed = sp[c].parsed /\ p.timing = sp[c].timing
    BY TypeFacts, ObservedFacts DEF Observed, StreamInv
  <1>i. info = sp[c].parsed[n]
    BY <1>2
  <1> HIDE DEF p, info
  <1>3. CASE seen
    <2>1. info.sql \in Texts
      BY <1>1, <1>3 DEF ParseInfos
    <2>2. KnownAt(c, n)
      BY <1>3, <1>i DEF Recorded, Known
    <2>3. ~Resets(info.sql)
      BY <1>i, <2>2 DEF KnownAt, Resets, PreparedRecorded
    <2>4. /\ d \in ConnStates /\ d.lastSQL = info.sql /\ d.client = p.client
          /\ ~Resets(info.sql) => d.parsed = p.parsed
      BY <1>2, <2>1, DispatchFacts
    <2> HIDE DEF d
    <2>5. z.lastSQL = d.lastSQL /\ z.client = d.client /\ z.parsed = d.parsed
      BY <2>4, TimerFacts
    <2> HIDE DEF z
    <2>6. /\ sp'[c].lastSQL = info.sql /\ sp'[c].client = "typed" /\ sp[c].client = "typed"
          /\ sp'[c].parsed = sp[c].parsed
      BY <1>1, <1>2, <1>3, <2>3, <2>4, <2>5
    <2>7. sending[c] = <<>> /\ sending'[c] # <<>> /\ Head(sending'[c]) = yes
      BY <1>1, <1>3, FirstCommand
    <2>8. yes.kind = "bind" /\ yes.sql = info.sql /\ yes.name = n /\ yes.owner = info.owner /\ yes.seen = TRUE
      BY DEF Command
    <2> HIDE DEF yes, no, seen
    <2>9. Unframed(c)' /\ Stopped(c)'
      BY <2>6, <2>7 DEF Unframed, Stopped
    <2>10. Known(c)'
      BY <1>1, <2>6, <2>7, <2>8 DEF Recorded, Known, KnownAt, Answering, ParsesNow
    <2>11. Found(c)'
      BY <1>1, <2>6, <2>7, <2>8 DEF Recorded, Found, Answering
    <2>12. BindsAt(c)'
      <3>1. info.owner = srv[c].owner /\ srv[c].prep[n] \in {info.sql, None}
        BY <1>i, <2>2, <2>7 DEF KnownAt, ParsesNow, Answering
      <3> QED BY <1>1, <2>7, <2>8, <3>1 DEF BindsAt
    <2>13. FindsAt(c)' /\ TimesAt(c)'
      BY <2>6, <2>7, <2>8 DEF FindsAt, TimesAt
    <2> QED BY <2>9, <2>10, <2>11, <2>12, <2>13 DEF Recorded
  <1>4. CASE ~seen
    <2>1. sp'[c] = p
      BY <1>1, <1>4
    <2>2. sending[c] = <<>> /\ sending'[c] # <<>> /\ Head(sending'[c]) = no
      BY <1>1, <1>4, FirstCommand
    <2>3. no.kind = "bind" /\ no.name = n /\ no.seen = FALSE
      BY DEF Command
    <2>4. no.duplex => p.server = "typed"
      <3>1. no.duplex = (p.server = "typed")
        BY DEF Command
      <3> QED BY <3>1
    <2> HIDE DEF yes, no, z, d
    <2>5. Unframed(c)' /\ Stopped(c)'
      BY <1>2, <2>1, <2>2 DEF Recorded, Unframed, Stopped
    <2>6. Known(c)'
      BY <1>1, <1>2, <2>1, <2>2, <2>3 DEF Recorded, Known, KnownAt, Answering, ParsesNow
    <2>7. Found(c)'
      BY <1>1, <1>2, <2>1, <2>2, <2>3 DEF Recorded, Found, Answering
    <2>8. BindsAt(c)'
      BY <2>2, <2>3 DEF BindsAt
    <2>9. FindsAt(c)'
      <3>1. SUFFICES ASSUME sp'[c].client = "typed", n \in reparsed[c] PROVE FALSE
        BY <1>1, <2>2, <2>3 DEF FindsAt
      <3>2. sp[c].client = "typed" /\ p.client = "typed"
        BY <1>2, <2>1, <3>1
      <3>3. sp[c].parsed[n] # None
        BY <2>2, <3>1, <3>2 DEF Recorded, Found, Answering
      <3> QED BY <1>4, <1>i, <3>2, <3>3
    <2>10. TimesAt(c)'
      <3>1. SUFFICES ASSUME sp'[c].timing, no.duplex PROVE FALSE
        BY <2>2 DEF TimesAt
      <3>2. sp[c].timing /\ sp[c].client = "typed"
        BY <1>2, <2>1, <3>1 DEF Recorded, Unframed
      <3> QED BY <1>2, <2>2, <2>4, <3>1, <3>2 DEF Recorded, Stopped
    <2> QED BY <2>5, <2>6, <2>7, <2>8, <2>9, <2>10 DEF Recorded
  <1> QED BY <1>3, <1>4
LEMMA RecordedCopyDone ==
    ASSUME StreamInv, NEW c \in Conns, Tracks(c), Recorded(c), CopyDone(c)
    PROVE  Recorded(c)'
  <1> DEFINE p    == Observed(c)
             done == p.client = "typed" /\ CopyComplete(p.copy)
             q    == [p EXCEPT !.copy = None]
             cmd  == Command(sending[c][1].kind, None, p.copy.sql, q, TRUE, srv[c].owner)
             z    == dispatch(q, p.copy.sql)
             e1   == [cmd EXCEPT !.sql = sending[c][1].sql, !.ended = TRUE,
                                 !.sent = copyIn[c], !.data = p.copy.data]
             e2   == [sending[c][1] EXCEPT !.ended = TRUE]
  <1>1. /\ done => p.copy \in CopyBuffers
        /\ sp'[c] = IF p.client # "typed" THEN p ELSE IF done THEN z ELSE q
        /\ sending[c] = <<>> => sending'[c] = <<>>
        /\ UNCHANGED <<cfg, srv, reparsed>>
    BY CopyDoneStep, Zenon
  <1>2. sending[c] # <<>> =>
           /\ sending[c][1] \in Formed /\ sending[c][1].kind \in {"query", "reset"} /\ Streams(sending[c][1].sql)
           /\ sending'[c] = IF done THEN <<e1>> ELSE <<e2>>
    BY CopyDoneStep, Zenon
  <1>3. /\ p \in ConnStates /\ counter \in Nat
        /\ p.client = IF sp[c].client = "typed" THEN "typed" ELSE "stuck"
        /\ sp[c].client = "typed" => p.server = sp[c].server
        /\ p.parsed = sp[c].parsed /\ p.timing = sp[c].timing /\ p.lastSQL = sp[c].lastSQL
        /\ p.copy = sp[c].copy
    BY TypeFacts, ObservedFacts DEF Observed, StreamInv
  <1> HIDE DEF p
  <1>4. done => p.copy.sql \in Texts /\ ~Resets(p.copy.sql)
    BY <1>1, <1>3 DEF CopyBuffers, Tracks, CopyClass, CopyComplete, Resets
  <1>5. /\ q \in ConnStates /\ q.client = p.client /\ q.server = p.server
        /\ q.parsed = p.parsed /\ q.timing = p.timing /\ q.lastSQL = p.lastSQL
    BY <1>3, CopyUpdateFacts
  <1> HIDE DEF q
  <1>6. done => /\ z.client = q.client /\ z.server = q.server /\ z.parsed = q.parsed /\ z.timing = q.timing
                /\ z.lastSQL = p.copy.sql
    BY <1>3, <1>4, <1>5, DispatchFacts
  <1>7. e1.kind = sending[c][1].kind /\ e1.sql = sending[c][1].sql /\ e1.seen = TRUE
    BY DEF Command
  <1>8. sending[c] # <<>> => /\ e2.kind = sending[c][1].kind /\ e2.sql = sending[c][1].sql
                             /\ e2.duplex = sending[c][1].duplex /\ e2.seen = sending[c][1].seen
                             /\ Head(sending[c]) = sending[c][1]
    <2> SUFFICES ASSUME sending[c] # <<>>
                 PROVE  /\ e2.kind = sending[c][1].kind /\ e2.sql = sending[c][1].sql
                        /\ e2.duplex = sending[c][1].duplex /\ e2.seen = sending[c][1].seen
                        /\ Head(sending[c]) = sending[c][1]
      OBVIOUS
    <2>1. sending[c][1] \in Commands
      BY <1>2 DEF Formed
    <2>2. Head(sending[c]) = sending[c][1]
      OBVIOUS
    <2> QED BY <2>1, <2>2 DEF Commands
  <1>9. done => p.client = "typed"
    OBVIOUS
  <1> HIDE DEF done, z, cmd, e1, e2
  <1>10. /\ sp'[c].client = "typed" <=> sp[c].client = "typed"
         /\ sp[c].client = "typed" => sp'[c].server = sp[c].server
         /\ sp'[c].parsed = sp[c].parsed /\ sp'[c].timing = sp[c].timing
         /\ done => sp'[c].lastSQL = p.copy.sql
         /\ ~done => sp'[c].lastSQL = sp[c].lastSQL
    <2>1. CASE p.client # "typed"
      BY <1>1, <1>3, <1>9, <2>1
    <2>2. CASE p.client = "typed" /\ done
      BY <1>1, <1>3, <1>5, <1>6, <2>2
    <2>3. CASE p.client = "typed" /\ ~done
      BY <1>1, <1>3, <1>5, <2>3
    <2> QED BY <2>1, <2>2, <2>3
  <1>11. /\ (sending'[c] = <<>>) <=> (sending[c] = <<>>)
         /\ sending[c] # <<>> => /\ Head(sending'[c]) = IF done THEN e1 ELSE e2
                                 /\ Head(sending'[c]).kind = Head(sending[c]).kind
                                 /\ Head(sending[c]).kind \in {"query", "reset"}
    <2>1. CASE sending[c] = <<>>
      BY <1>1, <2>1
    <2>2. CASE sending[c] # <<>> /\ done
      <3>1. sending'[c] = <<e1>>
        BY <1>2, <2>2
      <3> QED BY <1>2, <1>7, <1>8, <2>2, <3>1
    <2>3. CASE sending[c] # <<>> /\ ~done
      <3>1. sending'[c] = <<e2>>
        BY <1>2, <2>3
      <3> QED BY <1>2, <1>8, <2>3, <3>1
    <2> QED BY <2>1, <2>2, <2>3
  <1>12. Unframed(c)' /\ Stopped(c)'
    BY <1>10, <1>11 DEF Recorded, Unframed, Stopped
  <1>13. Known(c)'
    BY <1>1, <1>10, <1>11 DEF Recorded, Known, KnownAt, Answering, ParsesNow
  <1>14. Found(c)'
    BY <1>1, <1>10, <1>11 DEF Recorded, Found, Answering
  <1>15. BindsAt(c)' /\ FindsAt(c)'
    BY <1>11 DEF BindsAt, FindsAt, Answering
  <1>16. TimesAt(c)'
    <2>1. CASE sending[c] = <<>>
      BY <1>11, <2>1 DEF TimesAt
    <2>2. CASE sending[c] # <<>> /\ done
      BY <1>2, <1>7, <1>8, <1>11, <2>2 DEF TimesAt
    <2>3. CASE sending[c] # <<>> /\ ~done
      BY <1>8, <1>10, <1>11, <2>3 DEF Recorded, TimesAt
    <2> QED BY <2>1, <2>2, <2>3
  <1> QED BY <1>12, <1>13, <1>14, <1>15, <1>16 DEF Recorded

LEMMA RecordedReply ==
    ASSUME StreamInv, NEW c \in Conns, Tracks(c), Recorded(c), NEW e, Reply(c, e)
    PROVE  Recorded(c)'
  <1> DEFINE cmd  == Head(sending[c])
             run  == Runs(cmd, srv[c], e)
             prep == PrepAfter(cmd, srv[c], run)
             m == parsersFor(sp[c])
             z == onReady(m, run.status)
  <1>1. /\ cmd \in Formed /\ run \in Outcomes
        /\ srv'[c].prep = prep
        /\ srv'[c].owner = IF cmd.kind = "reset" THEN srv[c].owner + 1 ELSE srv[c].owner
        /\ sp'[c] = z
        /\ reparsed'[c] = IF cmd.kind = "reset" THEN {} ELSE reparsed[c]
        /\ UNCHANGED cfg
    BY ReplyStep, Zenon
  <1>2. sending[c] # <<>> /\ sending'[c] = <<>>
    BY LastReply
  <1>3. srv[c].prep \in [Names -> SQLOrNone] /\ Unnamed \in Names
    BY TypeFacts, StreamAssumption DEF StreamInv
  <1>4. prep = CASE cmd.kind = "parse" /\ ~run.halted -> [srv[c].prep EXCEPT ![cmd.name] = cmd.sql]
                 [] cmd.kind = "parse" /\ run.halted  -> [srv[c].prep EXCEPT ![Unnamed] = IF cmd.name = Unnamed THEN None ELSE @]
                 [] cmd.kind \in {"query", "reset"} /\ ~run.halted /\ Deallocates(cmd.sql) -> NoStatements
                 [] OTHER -> srv[c].prep
    BY DEF PrepAfter
  <1> HIDE DEF run
  <1>5. run.status \in Status /\ run.halted \in BOOLEAN
    BY <1>1 DEF Outcomes
  <1>6. /\ m \in ConnStates /\ m.parsed = sp[c].parsed /\ m.timing = sp[c].timing
        /\ m.client = IF sp[c].client = "none" THEN "startup" ELSE sp[c].client
    BY TypeFacts, ParsersFacts DEF StreamInv
  <1> HIDE DEF m
  <1>7. /\ z.parsed = m.parsed /\ z.server = m.server /\ z.client = m.client
        /\ z.timing = IF m.server = "typed" THEN FALSE ELSE m.timing
    BY <1>5, <1>6, ReadyFacts
  <1> HIDE DEF z, prep
  <1>8. /\ sp'[c].parsed = sp[c].parsed /\ (sp'[c].client = "typed" <=> sp[c].client = "typed")
        /\ sp'[c].server = "typed" => sp'[c].timing = FALSE
        /\ sp'[c].timing = FALSE \/ sp'[c].timing = sp[c].timing
    BY <1>1, <1>6, <1>7
  <1>9. Unframed(c)' /\ Stopped(c)'
    BY <1>8 DEF Recorded, Unframed, Stopped
  <1>10. Known(c)'
    <2>1. ASSUME NEW n \in Names, sp'[c].parsed[n] # None PROVE KnownAt(c, n)'
      <3>1. KnownAt(c, n) /\ sp'[c].parsed[n] = sp[c].parsed[n]
        BY <1>8, <2>1 DEF Recorded, Known
      <3>2. cmd.kind # "reset"
        BY <1>2, <3>1 DEF KnownAt, Answering
      <3>3. prep[n] \in {sp[c].parsed[n].sql, None}
        <4>0. /\ srv[c].prep[n] \in {sp[c].parsed[n].sql, None} \/ (n = Unnamed /\ cmd.kind = "parse" /\ cmd.name = n)
              /\ cmd.kind = "parse" /\ cmd.name = n => cmd.sql = sp[c].parsed[n].sql
          BY <1>2, <3>1 DEF KnownAt, ParsesNow, Answering
        <4>1. CASE cmd.kind = "parse" /\ ~run.halted
          <5>1. prep = [srv[c].prep EXCEPT ![cmd.name] = cmd.sql]
            BY <1>4, <4>1
          <5> QED BY <1>3, <4>0, <4>1, <5>1
        <4>2. CASE cmd.kind = "parse" /\ run.halted
          <5>1. prep = [srv[c].prep EXCEPT ![Unnamed] = IF cmd.name = Unnamed THEN None ELSE @]
            BY <1>4, <4>2
          <5> QED BY <1>3, <4>0, <4>2, <5>1
        <4>3. CASE cmd.kind # "parse"
          <5>1. prep = srv[c].prep \/ prep = NoStatements
            BY <1>4, <4>3
          <5> QED BY <4>0, <4>3, <5>1 DEF NoStatements
        <4> QED BY <1>5, <4>1, <4>2, <4>3
      <3> QED BY <1>1, <1>2, <3>1, <3>2, <3>3 DEF KnownAt, ParsesNow, Answering
    <2> QED BY <2>1 DEF Known
  <1>11. Found(c)'
    BY <1>1, <1>2, <1>8 DEF Recorded, Found, Answering
  <1>12. BindsAt(c)' /\ FindsAt(c)' /\ TimesAt(c)'
    BY <1>2 DEF BindsAt, FindsAt, TimesAt, Answering
  <1> QED BY <1>9, <1>10, <1>11, <1>12 DEF Recorded

LEMMA RecordedStep ==
    ASSUME StreamInv, Depth = 1, PreparedRecorded, ResetsRecognised,
           NEW c \in Conns, Tracks(c), Recorded(c), Step(c)
    PROVE  Recorded(c)'
  <1>1. Queries \subseteq Texts
    BY DEF Texts
  <1>2. ASSUME NEW sql \in Queries, Query(c, sql) PROVE Recorded(c)'
    BY <1>1, <1>2, RecordedQuery
  <1> QED BY <1>2, RecordedPoolerReset, RecordedParse, RecordedBind, RecordedConnections, RecordedCopy,
             RecordedCopyDone, RecordedReply DEF Step

AllRecorded == \A c \in Conns : Recorded(c)

LEMMA InitRecorded == Init => AllRecorded
  <1> SUFFICES ASSUME Init, NEW c \in Conns PROVE Recorded(c)
    BY DEF AllRecorded
  <1>1. sending[c] = <<>> /\ sp[c] = Released /\ reparsed[c] = {}
    BY DEF Init
  <1>2. Unframed(c) /\ Stopped(c) /\ Known(c) /\ Found(c)
    BY <1>1, ReleasedFacts DEF Unframed, Stopped, Known, Found
  <1>3. BindsAt(c) /\ FindsAt(c) /\ TimesAt(c)
    BY <1>1 DEF BindsAt, FindsAt, TimesAt, Answering
  <1> QED BY <1>2, <1>3 DEF Recorded

LEMMA NextRecorded ==
    ASSUME Depth = 1, PreparedRecorded, ResetsRecognised
    PROVE  StreamInv /\ AllTrack /\ AllRecorded /\ [Next]_vars => AllRecorded'
  <1> SUFFICES ASSUME StreamInv, AllTrack, AllRecorded, [Next]_vars PROVE AllRecorded'
    OBVIOUS
  <1>1. CASE UNCHANGED vars
    <2> SUFFICES ASSUME NEW c \in Conns PROVE Recorded(c)'
      BY DEF AllRecorded
    <2>1. Recorded(c)
      BY DEF AllRecorded
    <2>2. UNCHANGED <<cfg, sp, srv, sending, reparsed>>
      BY <1>1 DEF vars, env, hist
    <2> QED BY <2>1, <2>2, RecordedKeep
  <1>2. CASE Next
    <2>1. PICK c \in Conns : Step(c)
      BY <1>2 DEF Next, Step
    <2>2. Recorded(c)'
      BY <2>1, RecordedStep DEF AllTrack, AllRecorded
    <2>3. ASSUME NEW d \in Conns, d # c PROVE Recorded(d)'
      BY <2>1, <2>3, StepFrame, RecordedFrame DEF AllRecorded
    <2> QED BY <2>2, <2>3 DEF AllRecorded
  <1> QED BY <1>1, <1>2

\* When clients wait, every Parse is recorded and the pooler's reset query is
\* recognised, what the processor records of a command is that command's: a
\* Bind's event has the text the server runs and never another client's
\* (BindCorrelator, resetPoolerSession), a Bind whose Parse was observed finds
\* it, and SourceExecTimer measures the statement that lastSQL names.
THEOREM StreamRecordsOwn ==
    ASSUME Depth = 1, PreparedRecorded, ResetsRecognised
    PROVE  Spec => []RecordsOwnStatement
  <1>1. AllRecorded => RecordsOwnStatement
    <2> SUFFICES ASSUME AllRecorded PROVE RecordsOwnStatement
      OBVIOUS
    <2>1. BindsOwnStatement
      BY DEF AllRecorded, Recorded, BindsAt, Answering, BindsOwnStatement, Pending
    <2>2. BindFindsParse
      BY DEF AllRecorded, Recorded, FindsAt, Answering, BindFindsParse, Reparsed, Pending
    <2>3. TimesOwnStatement
      BY DEF AllRecorded, Recorded, TimesAt, TimesOwnStatement, Pending
    <2> QED BY <2>1, <2>2, <2>3 DEF RecordsOwnStatement
  <1> QED BY <1>1, InitStream, NextStream, InitTracks, NextTracks, InitRecorded, NextRecorded, PTL DEF Spec
=============================================================================
