------------------------- MODULE ChatService_proofs -------------------------
(***************************************************************************)
(* Theorems about ChatService, for any turns, sessions, limits and stores: *)
(* what a client is told, what of a run is left behind it, and what the    *)
(* session store holds: whole turns of its owner's, within its limits, and *)
(* none lost but by what the store says it drops.                          *)
(***************************************************************************)
EXTENDS ChatService, TLAPS, SequenceTheorems, WellFoundedInduction, FiniteSetTheorems

RunFields == {"stage", "messages", "reason", "audit", "requests", "tokens", "calls"}
Underway == {"request", "tool", "ended", "landed"}
Statuses == {"new", "open", "ok", "forbidden", "timeout", "error", "aborted"}
Producers == {"none", "driving", "returned", "raised", "awaited"}
Readers == {"none", "get", "wait", "yielded", "last", "over", "ending", "closed"}

Shape ==
  /\ DOMAIN run = Turns
  /\ \A t \in Turns : DOMAIN run[t] = RunFields /\ run[t].stage \in Stages
  /\ status \in [Turns -> Statuses]
  /\ producer \in [Turns -> Producers]
  /\ reader \in [Turns -> Readers]
  /\ queue \in [Turns -> Seq(Events \cup {"done"})]
  /\ sent \in [Turns -> Seq(Events)]

\* What has become of a run: why it ended, what was recorded, whether it is saved.
Outcome(t) ==
  LET r == run[t] IN
  /\ r.stage \in {"none", "request", "tool"} => r.reason = "none" /\ r.audit = << >>
  /\ r.stage \in {"ended", "landed", "saved", "unsaved"} =>
       r.reason = "completed" /\ r.audit = << >>
  /\ r.stage = "stopped" =>
       /\ r.reason \in {"max_iterations", "budget_exceeded"}
       /\ t \notin Streams => r.audit = <<r.reason>>
  /\ r.stage \in {"landed", "saved"} => t \in saved

\* The producer is there as long as the stream is open, drives as long as the run
\* goes on, and returns of a run that told its end only.
Driven(t) ==
  /\ producer[t] \in {"driving", "returned", "raised"} <=> t \in Streams /\ status[t] = "open"
  /\ t \in Streams /\ run[t].stage \in Underway => producer[t] = "driving"
  /\ producer[t] = "returned" => run[t].stage \in {"saved", "unsaved"}

\* Where a request is while its run goes on, and what it was answered.
Standing(t) ==
  /\ status[t] = "new" => /\ run[t].stage = "none" /\ reader[t] = "none"
                          /\ queue[t] = << >> /\ sent[t] = << >>
  /\ t \notin Streams /\ status[t] = "ok" => run[t].stage \in {"saved", "stopped"}
  /\ reader[t] = "closed" =>
       status[t] # "open" /\ run[t].stage \notin Underway /\ producer[t] = "awaited"
  /\ status[t] = "open" => run[t].stage # "none"
  /\ t \in Streams =>
       /\ status[t] = "open" => reader[t] \notin {"none", "closed"} /\ run[t].stage # "cancelled"
       /\ reader[t] \notin {"none", "closed"} => status[t] = "open"
  /\ t \notin Streams => reader[t] = "none" /\ sent[t] = << >>
  /\ Driven(t)

\* What a producer has put so far: progress, then the end of the run if it was
\* told, then the marker if the producer is done.
Tale(w, told, done) ==
  LET m == IF done THEN Len(w) - 1 ELSE Len(w)
      k == IF told THEN m - 1 ELSE m
  IN  /\ k >= 0
      /\ \A i \in 1..k : w[i] = "progress"
      /\ told => w[m] \in Terminal
      /\ done => w[m + 1] = "done"

\* As long as the consumer attends, what it has sent and what still waits for it
\* are what the producer has put.
Story(t) == sent[t] \o queue[t]
Told(t) == run[t].stage \in {"saved", "unsaved"}
Done(t) == producer[t] \in {"returned", "raised"}

\* Before and after an error of the consumer's own.
AtMostOneTerminal(q) == \A i \in 1..Len(q) : q[i] \in Terminal => i = Len(q)
LastWord(q) ==
  \A i, j \in 1..Len(q) : q[i] \in Terminal /\ i < j => j = Len(q) /\ q[j] = "error"
Conclusive(q) == q # << >> /\ \A i \in 1..Len(q) : q[i] \in Terminal <=> i = Len(q)

Relay(t) ==
  /\ LastWord(sent[t]) /\ Len(sent[t]) <= MaxEvents
  /\ reader[t] \in {"get", "wait"} => Len(sent[t]) < MaxEvents
  /\ reader[t] \in {"get", "wait", "yielded"} => Tale(Story(t), Told(t), Done(t))
  /\ reader[t] = "over" => Conclusive(sent[t])

\* An event that tells of completion tells of a saved turn.
Truthful(t) ==
  /\ \A i \in 1..Len(queue[t]) : queue[t][i] = "completed" => t \in saved
  /\ \A i \in 1..Len(sent[t]) : sent[t][i] = "completed" => t \in saved

Conduct ==
  /\ Shape
  /\ \A t \in Turns : Outcome(t) /\ Standing(t) /\ Truthful(t)
  /\ \A t \in Streams : Relay(t)

LEMMA ConductInit == Init => Conduct
<1> SUFFICES ASSUME Init PROVE Conduct
  OBVIOUS
<1>1. Shape
  BY DEF Init, RunInit, NewRun, Shape, RunFields, Stages, Statuses, Producers, Readers
<1>2. ASSUME NEW t \in Turns PROVE Outcome(t) /\ Standing(t) /\ Truthful(t)
  BY <1>2 DEF Init, RunInit, NewRun, Outcome, Standing, Driven, Truthful, Underway
<1>3. ASSUME NEW t \in Streams PROVE Relay(t)
  BY <1>3, ChatAssumption DEF Init, Relay, LastWord
<1> QED BY <1>1, <1>2, <1>3 DEF Conduct

-----------------------------------------------------------------------------
(* Sequences of events.                                                    *)

Marks == Events \cup {"done"}

LEMMA EventsAreMarks == ASSUME NEW q \in Seq(Events) PROVE q \in Seq(Marks)
<1>1. Events \subseteq Marks
  BY DEF Marks
<1> QED BY <1>1, SeqMonotonic

\* What is put last on the queue is put last after all.
LEMMA PutLast ==
  ASSUME NEW s \in Seq(Marks), NEW q \in Seq(Marks), NEW e \in Seq(Marks)
  PROVE  (s \o q) \o e = s \o (q \o e)
BY ConcatAssociative

\* What the producer may put after progress.
LEMMA TaleGoesOn ==
  ASSUME NEW w \in Seq(Marks), NEW e \in Events, Tale(w, FALSE, FALSE)
  PROVE  Tale(w \o <<e>>, e \in Terminal, FALSE)
<1> DEFINE v == w \o <<e>>
           n == Len(w)
<1>1. <<e>> \in Seq(Marks) /\ Len(<<e>>) = 1 /\ <<e>>[1] = e
  BY DEF Marks
<1>2. n \in Nat
  BY LenProperties
<1>3. Len(v) = n + 1 /\ \A i \in 1..(n + 1) : v[i] = IF i <= n THEN w[i] ELSE <<e>>[i - n]
  BY <1>1, ConcatProperties
<1>4. \A i \in 1..n : w[i] = "progress"
  BY DEF Tale
<1> HIDE DEF v, n
<1>5. v[n + 1] = e /\ \A i \in 1..n : v[i] = "progress"
  BY <1>1, <1>2, <1>3, <1>4
<1>6. CASE e \in Terminal
  BY <1>2, <1>3, <1>5, <1>6 DEF Tale
<1>7. CASE e \notin Terminal
  <2>1. e = "progress"
    BY <1>7 DEF Events, Terminal
  <2>2. \A i \in 1..(n + 1) : v[i] = "progress"
    BY <1>2, <1>5, <2>1
  <2> QED BY <1>2, <1>3, <1>7, <2>2 DEF Tale
<1> QED BY <1>6, <1>7 DEF v

\* The marker comes last.
LEMMA TaleIsDone ==
  ASSUME NEW w \in Seq(Marks), NEW told \in BOOLEAN, Tale(w, told, FALSE)
  PROVE  Tale(w \o <<"done">>, told, TRUE)
<1> DEFINE v == w \o <<"done">>
           n == Len(w)
<1>1. <<"done">> \in Seq(Marks) /\ Len(<<"done">>) = 1 /\ <<"done">>[1] = "done"
  BY DEF Marks
<1>2. n \in Nat
  BY LenProperties
<1>3. Len(v) = n + 1 /\ \A i \in 1..(n + 1) : v[i] = IF i <= n THEN w[i] ELSE <<"done">>[i - n]
  BY <1>1, ConcatProperties
<1> HIDE DEF v
<1>4. Len(v) - 1 = n /\ v[n + 1] = "done" /\ \A i \in 1..n : v[i] = w[i]
  BY <1>1, <1>2, <1>3 DEF n
<1>5. CASE told
  BY <1>2, <1>4, <1>5 DEF Tale, n
<1>6. CASE ~told
  BY <1>2, <1>4, <1>6 DEF Tale, n
<1> QED BY <1>5, <1>6 DEF v

\* The consumer takes the head and sends it: the whole is the same.
LEMMA TaleIsPassedOn ==
  ASSUME NEW s \in Seq(Marks), NEW q \in Seq(Marks), q # << >>
  PROVE  Append(s, Head(q)) \o Tail(q) = s \o q
<1> DEFINE x == Append(s, Head(q))
           y == Tail(q)
<1>1. /\ Head(q) \in Marks /\ Head(q) = q[1] /\ y \in Seq(Marks) /\ Len(y) = Len(q) - 1
      /\ \A i \in 1..Len(y) : y[i] = q[i + 1]
  BY HeadTailProperties
<1>2. /\ x \in Seq(Marks) /\ Len(x) = Len(s) + 1
      /\ \A i \in 1..Len(s) : x[i] = s[i]
      /\ x[Len(s) + 1] = Head(q)
  BY <1>1, AppendProperties
<1>3. Len(s) \in Nat /\ Len(q) \in Nat \ {0}
  BY LenProperties, EmptySeq
<1> HIDE DEF x, y
<1>4. /\ x \o y \in Seq(Marks) /\ Len(x \o y) = Len(s) + Len(q)
      /\ \A i \in 1..(Len(s) + Len(q)) :
           (x \o y)[i] = IF i <= Len(s) + 1 THEN x[i] ELSE y[i - (Len(s) + 1)]
  <2>1. Len(x) + Len(y) = Len(s) + Len(q)
    BY <1>1, <1>2, <1>3
  <2>2. /\ x \o y \in Seq(Marks) /\ Len(x \o y) = Len(x) + Len(y)
        /\ \A i \in 1..(Len(x) + Len(y)) :
             (x \o y)[i] = IF i <= Len(x) THEN x[i] ELSE y[i - Len(x)]
    BY <1>1, <1>2, ConcatProperties
  <2> QED BY <1>2, <2>1, <2>2
<1>5. /\ s \o q \in Seq(Marks) /\ Len(s \o q) = Len(s) + Len(q)
      /\ \A i \in 1..(Len(s) + Len(q)) :
           (s \o q)[i] = IF i <= Len(s) THEN s[i] ELSE q[i - Len(s)]
  BY ConcatProperties
<1>6. ASSUME NEW i \in 1..(Len(s) + Len(q)) PROVE (x \o y)[i] = (s \o q)[i]
  <2>1. CASE i <= Len(s)
    BY <1>2, <1>3, <1>4, <1>5, <2>1
  <2>2. CASE i = Len(s) + 1
    BY <1>1, <1>2, <1>3, <1>4, <1>5, <2>2
  <2>3. CASE i > Len(s) + 1
    <3>1. i - (Len(s) + 1) \in 1..Len(y) /\ (i - (Len(s) + 1)) + 1 = i - Len(s)
      BY <1>1, <1>3, <1>6, <2>3
    <3>2. (x \o y)[i] = y[i - (Len(s) + 1)] /\ (s \o q)[i] = q[i - Len(s)]
      BY <1>3, <1>4, <1>5, <1>6, <2>3
    <3> QED BY <1>1, <3>1, <3>2
  <2>4. i <= Len(s) \/ i = Len(s) + 1 \/ i > Len(s) + 1
    BY <1>3, <1>6
  <2> QED BY <2>1, <2>2, <2>3, <2>4
<1> QED BY <1>4, <1>5, <1>6, SeqEqual DEF x, y

\* Of what the producer has put the consumer has sent the beginning, without the
\* marker: a terminal event among it is the last so far, and at the marker it is
\* all there was.
LEMMA TaleSoFar ==
  ASSUME NEW s \in Seq(Events), NEW q \in Seq(Marks),
         NEW told \in BOOLEAN, NEW done \in BOOLEAN, Tale(s \o q, told, done)
  PROVE  /\ AtMostOneTerminal(s)
         /\ q # << >> /\ Head(q) = "done" => done
         /\ q # << >> /\ Head(q) = "done" /\ told => Conclusive(s)
<1> DEFINE w == s \o q
           n == Len(s)
           m == IF done THEN Len(w) - 1 ELSE Len(w)
           k == IF told THEN m - 1 ELSE m
<1>1. s \in Seq(Marks)
  BY EventsAreMarks
<1>2. n \in Nat /\ Len(q) \in Nat /\ \A i \in 1..n : s[i] \in Events
  BY LenProperties, ElementOfSeq
<1>3. /\ Len(w) = n + Len(q)
      /\ \A i \in 1..(n + Len(q)) : w[i] = IF i <= n THEN s[i] ELSE q[i - n]
  BY <1>1, ConcatProperties
<1>4. /\ k >= 0 /\ \A i \in 1..k : w[i] = "progress"
      /\ told => w[m] \in Terminal
      /\ done => w[m + 1] = "done"
  BY DEF Tale
<1>5. q # << >> => Len(q) \in Nat \ {0} /\ Head(q) = q[1]
  BY EmptySeq
<1> HIDE DEF w
<1>6. Len(w) \in Nat /\ m \in Int /\ k \in Int /\ (told => k = m - 1) /\ (~told => k = m)
      /\ (done => m = Len(w) - 1) /\ (~done => m = Len(w))
  BY <1>2, <1>3
<1>7. ASSUME NEW i \in 1..n PROVE w[i] = s[i] /\ w[i] \in Events /\ i \in 1..Len(w)
  BY <1>2, <1>3, <1>7
<1> HIDE DEF n, m, k
<1>8. ASSUME NEW i \in 1..n PROVE i <= m
  <2>1. w[i] # "done"
    BY <1>7, <1>8 DEF Events
  <2> QED BY <1>2, <1>4, <1>6, <1>7, <1>8, <2>1
<1>9. AtMostOneTerminal(s)
  <2> SUFFICES ASSUME NEW i \in 1..n, s[i] \in Terminal PROVE i = n
    BY DEF AtMostOneTerminal, n
  <2>1. w[i] # "progress" /\ i \in Nat /\ i >= 1
    BY <1>2, <1>7 DEF Terminal
  <2>2. ~ (i <= k)
    BY <1>4, <1>6, <2>1
  <2>3. i <= m /\ n <= m
    BY <1>2, <1>8
  <2> QED BY <1>2, <1>6, <2>1, <2>2, <2>3
<1>10. ASSUME q # << >>, Head(q) = "done" PROVE done /\ m = n
  <2>1. n + 1 \in 1..Len(w) /\ w[n + 1] = "done"
    <3>1. n + 1 \in 1..(n + Len(q)) /\ ~ (n + 1 <= n) /\ (n + 1) - n = 1
      BY <1>2, <1>5, <1>10
    <3> QED BY <1>3, <1>5, <1>10, <3>1
  <2>2. ~ (n + 1 <= k)
    BY <1>2, <1>4, <1>6, <2>1
  <2>3. told => n + 1 # m
    BY <1>4, <2>1 DEF Terminal
  <2>4. ~ (n + 1 <= m)
    BY <1>2, <1>6, <2>2, <2>3
  <2>5. n = 0 \/ n <= m
    BY <1>2, <1>8
  <2> QED BY <1>2, <1>4, <1>6, <2>1, <2>4, <2>5
<1>11. ASSUME q # << >>, Head(q) = "done", told PROVE Conclusive(s)
  <2>1. m = n /\ k = n - 1 /\ k >= 0 /\ w[n] \in Terminal
    BY <1>4, <1>6, <1>10, <1>11
  <2>2. n \in 1..n /\ s[n] \in Terminal
    BY <1>2, <1>7, <2>1
  <2>3. s # << >>
    BY <1>2, <2>1 DEF n
  <2> QED BY <1>9, <2>2, <2>3 DEF AtMostOneTerminal, Conclusive, n
<1> QED BY <1>9, <1>10, <1>11

-----------------------------------------------------------------------------
(* A step is a step of one turn.                                           *)

LEMMA OneTurn ==
  ASSUME Conduct, NEW t \in Turns, Shape', saved \subseteq saved',
         \A u \in Turns \ {t} : /\ run'[u] = run[u] /\ status'[u] = status[u]
                                /\ producer'[u] = producer[u] /\ reader'[u] = reader[u]
                                /\ queue'[u] = queue[u] /\ sent'[u] = sent[u],
         Outcome(t)', Standing(t)', Truthful(t)', t \in Streams => Relay(t)'
  PROVE  Conduct'
<1>1. ASSUME NEW u \in Turns, u # t
      PROVE  Outcome(u)' /\ Standing(u)' /\ Truthful(u)' /\ (u \in Streams => Relay(u)')
  <2>1. /\ Outcome(u) /\ Standing(u) /\ Truthful(u) /\ (u \in Streams => Relay(u))
        /\ run'[u] = run[u] /\ status'[u] = status[u] /\ producer'[u] = producer[u]
        /\ reader'[u] = reader[u] /\ queue'[u] = queue[u] /\ sent'[u] = sent[u]
    BY <1>1 DEF Conduct
  <2>2. Outcome(u)' /\ Standing(u)'
    BY <2>1 DEF Outcome, Standing, Driven
  <2>3. Truthful(u)'
    BY <2>1 DEF Truthful
  <2>4. u \in Streams => Relay(u)'
    BY <2>1 DEF Relay, Story, Told, Done
  <2> QED BY <2>2, <2>3, <2>4
<1> QED BY <1>1, ChatAssumption DEF Conduct

\* The producer goes on: what it puts on the queue follows from where it gets.
LEMMA Produced ==
  ASSUME Conduct, NEW t \in Turns, Open(t), run[t].stage \in Underway, Emit(t),
         UNCHANGED <<status, producer, reader, sent>>, saved \subseteq saved',
         DOMAIN run' = Turns, DOMAIN run'[t] = RunFields,
         \A u \in Turns \ {t} : run'[u] = run[u],
         run'[t].stage \in Stages \ {"none", "cancelled"}, Outcome(t)'
  PROVE  Conduct'
<1>1. Shape /\ Outcome(t) /\ Standing(t) /\ Truthful(t) /\ (t \in Streams => Relay(t))
  BY DEF Conduct
<1> DEFINE stage == run'[t].stage
           events == EventsOf(stage)
<1>2. t \in Streams => producer[t] = "driving"
  BY <1>1 DEF Standing, Driven
<1>3. \/ stage \in {"request", "tool", "ended"} /\ events = <<"progress">>
      \/ stage \in {"landed", "stopped", "failed"} /\ events = << >>
      \/ stage = "saved" /\ events = <<"completed">>
      \/ stage = "unsaved" /\ events = <<"error">>
  BY DEF EventsOf, Stages
<1>4. events = << >> \/ \E e \in Events : events = <<e>>
  BY <1>3 DEF Events
<1>5. events \in Seq(Marks)
  <2>1. << >> \in Seq(Marks)
    BY EmptySeq
  <2>2. ASSUME NEW e \in Events PROVE <<e>> \in Seq(Marks)
    BY <2>2 DEF Marks
  <2> QED BY <1>4, <2>1, <2>2
<1>6. queue \in [Turns -> Seq(Marks)] /\ queue[t] \in Seq(Marks)
  BY <1>1 DEF Shape, Marks
<1> HIDE DEF events
<1>7. queue[t] \o events \in Seq(Marks)
  BY <1>5, <1>6, ConcatProperties
<1>8. /\ queue' \in [Turns -> Seq(Marks)] /\ \A u \in Turns \ {t} : queue'[u] = queue[u]
      /\ queue'[t] = IF t \in Streams THEN queue[t] \o events ELSE queue[t]
  <2>1. queue' = IF t \in Streams THEN [queue EXCEPT ![t] = queue[t] \o events] ELSE queue
    BY DEF Emit, events
  <2> QED BY <1>6, <1>7, <2>1
<1>9. Shape'
  BY <1>1, <1>8 DEF Shape, Marks
<1>10. Standing(t)'
  BY <1>1, <1>2 DEF Standing, Driven, Open
<1>11. Truthful(t)'
  <2>1. ASSUME t \in Streams, NEW i \in 1..Len(queue[t] \o events),
               (queue[t] \o events)[i] = "completed"
        PROVE  t \in saved'
    <3>1. /\ Len(queue[t] \o events) = Len(queue[t]) + Len(events)
          /\ (queue[t] \o events)[i] =
               IF i <= Len(queue[t]) THEN queue[t][i] ELSE events[i - Len(queue[t])]
      BY <1>5, <1>6, <2>1, ConcatProperties
    <3>2. Len(queue[t]) \in Nat /\ Len(events) \in Nat
      BY <1>5, <1>6, LenProperties
    <3>3. CASE i <= Len(queue[t])
      BY <1>1, <2>1, <3>1, <3>2, <3>3 DEF Truthful
    <3>4. CASE ~ (i <= Len(queue[t]))
      <4>1. i - Len(queue[t]) \in 1..Len(events) /\ events[i - Len(queue[t])] = "completed"
        BY <2>1, <3>1, <3>2, <3>4
      <4>2. Len(<<"progress">>) = 1 /\ <<"progress">>[1] = "progress"
            /\ Len(<<"error">>) = 1 /\ <<"error">>[1] = "error" /\ Len(<< >>) = 0
        OBVIOUS
      <4>3. stage = "saved"
        <5>1. events = << >> => FALSE
          BY <4>1, <4>2
        <5>2. events \in {<<"progress">>, <<"error">>} => FALSE
          BY <4>1, <4>2
        <5> QED BY <1>3, <5>1, <5>2
      <4> QED BY <4>3 DEF Outcome
    <3> QED BY <3>3, <3>4
  <2> QED BY <1>1, <1>8, <2>1 DEF Truthful
<1>12. t \in Streams => Relay(t)'
  <2> SUFFICES ASSUME t \in Streams, reader[t] \in {"get", "wait", "yielded"}
               PROVE  Tale(Story(t)', Told(t)', Done(t)')
    BY <1>1 DEF Relay
  <2>1. Tale(Story(t), FALSE, FALSE)
    <3>1. Told(t) = FALSE /\ Done(t) = FALSE
      BY <1>2 DEF Told, Done, Underway
    <3> QED BY <1>1, <3>1 DEF Relay
  <2>2. sent[t] \in Seq(Marks) /\ Story(t) \in Seq(Marks)
    <3>1. sent[t] \in Seq(Marks)
      BY <1>1, EventsAreMarks DEF Shape
    <3> QED BY <1>6, <3>1, ConcatProperties DEF Story
  <2>3. Story(t)' = Story(t) \o events
    <3>1. (sent[t] \o queue[t]) \o events = sent[t] \o (queue[t] \o events)
      BY <1>5, <1>6, <2>2, PutLast
    <3>2. Story(t)' = sent[t] \o (queue[t] \o events)
      BY <1>8 DEF Story
    <3> QED BY <3>1, <3>2 DEF Story
  <2>4. Told(t)' = (stage \in {"saved", "unsaved"}) /\ Done(t)' = FALSE
    BY <1>2 DEF Told, Done
  <2>5. CASE events = << >>
    <3>1. Story(t)' = Story(t)
      BY <2>2, <2>3, <2>5, ConcatEmptySeq
    <3>2. Told(t)' = FALSE
      <4>1. << >> # <<"completed">> /\ << >> # <<"error">>
        OBVIOUS
      <4>2. stage \in {"request", "tool", "ended", "landed", "stopped", "failed"}
        BY <1>3, <2>5, <4>1
      <4>3. (stage \in {"saved", "unsaved"}) = FALSE
        BY <4>2
      <4> QED BY <2>4, <4>3
    <3> QED BY <2>1, <2>4, <3>1, <3>2
  <2>6. ASSUME NEW e \in Events, events = <<e>> PROVE Tale(Story(t)', Told(t)', Done(t)')
    <3>1. <<e>>[1] = e /\ << >> # <<e>> /\ \A f \in Events : <<e>> = <<f>> => e = f
      OBVIOUS
    <3>2. Told(t)' = (e \in Terminal)
      BY <1>3, <2>4, <2>6, <3>1 DEF Terminal, Events
    <3>3. Tale(Story(t) \o <<e>>, e \in Terminal, FALSE)
      BY <2>1, <2>2, TaleGoesOn
    <3> QED BY <2>3, <2>4, <2>6, <3>2, <3>3
  <2> QED BY <1>4, <2>5, <2>6
<1> QED BY <1>8, <1>9, <1>10, <1>11, <1>12, OneTurn

\* The producer leaves the run and is done.
LEMMA ProducerEndsStep ==
  ASSUME Conduct, NEW t \in Turns, ProducerEnds(t)
  PROVE  Conduct'
<1>1. PICK end \in {"returned", "raised"} :
        /\ producer[t] = "driving" /\ run[t].stage \notin Underway
        /\ run[t].stage \in {"stopped", "failed"} => end = "raised"
        /\ producer' = [producer EXCEPT ![t] = end]
        /\ queue' = [queue EXCEPT ![t] = Append(queue[t], "done")]
        /\ UNCHANGED <<run, status, reader, sent, saved>>
  BY DEF ProducerEnds, Running, Underway, requestVars, ghostVars, Conduct, Shape
<1>2. Shape /\ Outcome(t) /\ Standing(t) /\ Truthful(t)
  BY DEF Conduct
<1>3. t \in Streams /\ status[t] = "open"
  BY <1>1, <1>2 DEF Standing, Driven
<1>4. Relay(t)
  BY <1>3 DEF Conduct
<1>5. run[t].stage \in {"saved", "unsaved", "stopped", "failed"}
  BY <1>1, <1>2, <1>3 DEF Standing, Shape, Stages, Underway
<1>6. queue \in [Turns -> Seq(Marks)] /\ queue[t] \in Seq(Marks) /\ "done" \in Marks
  BY <1>2 DEF Shape, Marks
<1>7. /\ Append(queue[t], "done") \in Seq(Marks)
      /\ Len(Append(queue[t], "done")) = Len(queue[t]) + 1 /\ Len(queue[t]) \in Nat
      /\ \A i \in 1..Len(queue[t]) : Append(queue[t], "done")[i] = queue[t][i]
      /\ Append(queue[t], "done")[Len(queue[t]) + 1] = "done"
      /\ Append(queue[t], "done") = queue[t] \o <<"done">>
  BY <1>6, AppendProperties, LenProperties
<1>8. /\ queue' \in [Turns -> Seq(Marks)] /\ queue'[t] = Append(queue[t], "done")
      /\ producer' \in [Turns -> Producers] /\ producer'[t] = end
      /\ \A u \in Turns \ {t} : queue'[u] = queue[u] /\ producer'[u] = producer[u]
  BY <1>1, <1>2, <1>6, <1>7 DEF Shape, Producers
<1>9. Shape'
  BY <1>1, <1>2, <1>8 DEF Shape, Marks
<1>10. Outcome(t)'
  BY <1>1, <1>2 DEF Outcome
<1>11. Standing(t)'
  BY <1>1, <1>2, <1>3, <1>5, <1>8 DEF Standing, Driven, Underway
<1>12. Truthful(t)'
  <2>1. ASSUME NEW i \in 1..Len(queue'[t]), queue'[t][i] = "completed" PROVE t \in saved
    <3>1. i \in 1..Len(queue[t])
      BY <1>7, <1>8, <2>1
    <3> QED BY <1>2, <1>7, <1>8, <2>1, <3>1 DEF Truthful
  <2> QED BY <1>1, <1>2, <2>1 DEF Truthful
<1>13. Relay(t)'
  <2> SUFFICES ASSUME reader[t] \in {"get", "wait", "yielded"}
               PROVE  Tale(Story(t)', Told(t)', Done(t)')
    BY <1>1, <1>4 DEF Relay
  <2>1. Told(t)' = Told(t) /\ Done(t)' = TRUE /\ Done(t) = FALSE /\ Told(t) \in BOOLEAN
    BY <1>1, <1>8 DEF Told, Done
  <2>2. sent[t] \in Seq(Marks) /\ Story(t) \in Seq(Marks) /\ <<"done">> \in Seq(Marks)
    <3>1. sent[t] \in Seq(Marks)
      BY <1>2, EventsAreMarks DEF Shape
    <3>2. <<"done">> \in Seq(Marks)
      BY DEF Marks
    <3> QED BY <1>6, <3>1, <3>2, ConcatProperties DEF Story
  <2>3. Story(t)' = Story(t) \o <<"done">>
    <3>1. (sent[t] \o queue[t]) \o <<"done">> = sent[t] \o (queue[t] \o <<"done">>)
      BY <1>6, <2>2, PutLast
    <3>2. Story(t)' = sent[t] \o (queue[t] \o <<"done">>)
      BY <1>1, <1>7, <1>8 DEF Story
    <3> QED BY <3>1, <3>2 DEF Story
  <2>4. Tale(Story(t), Told(t), FALSE)
    BY <1>4, <2>1 DEF Relay
  <2> QED BY <2>1, <2>2, <2>3, <2>4, TaleIsDone
<1> QED BY <1>1, <1>8, <1>9, <1>10, <1>11, <1>12, <1>13, OneTurn

-----------------------------------------------------------------------------
(* The run.                                                                *)

Ran(t, r) ==
  /\ DOMAIN run' = Turns /\ run'[t] = r /\ DOMAIN r = RunFields
  /\ \A u \in Turns \ {t} : run'[u] = run[u]

LEMMA ReleasedRun ==
  ASSUME NEW r, DOMAIN r = RunFields, NEW stage
  PROVE  LET q == Released(r, stage) IN
         DOMAIN q = RunFields /\ q.stage = stage /\ q.reason = r.reason /\ q.audit = r.audit
BY DEF Released, RunFields

LEMMA EndedRun ==
  ASSUME Shape, NEW t \in Turns, NEW stage, EndRun(t, stage)
  PROVE  /\ Ran(t, run'[t]) /\ run'[t].stage = stage
         /\ run'[t].reason = run[t].reason /\ run'[t].audit = run[t].audit
<1>1. run' = [run EXCEPT ![t] = Released(run[t], stage)]
  BY DEF EndRun, Shape
<1>2. DOMAIN run = Turns /\ DOMAIN run[t] = RunFields
  BY DEF Shape
<1>3. run'[t] = Released(run[t], stage) /\ DOMAIN run' = Turns
      /\ \A u \in Turns \ {t} : run'[u] = run[u]
  BY <1>1, <1>2
<1> QED BY <1>2, <1>3, ReleasedRun DEF Ran

LEMMA StoppedRun ==
  ASSUME Shape, NEW t \in Turns, NEW reason, NEW records, run[t].audit = << >>,
         records \in {<< >>, <<reason>>}, run' = [run EXCEPT ![t] = Stopped(run[t], reason, records)]
  PROVE  /\ Ran(t, run'[t]) /\ run'[t].stage = "stopped"
         /\ run'[t].reason = reason /\ run'[t].audit = records
<1>1. DOMAIN run = Turns /\ DOMAIN run[t] = RunFields
  BY DEF Shape
<1>2. run'[t] = Stopped(run[t], reason, records) /\ DOMAIN run' = Turns
      /\ \A u \in Turns \ {t} : run'[u] = run[u]
  BY <1>1
<1> DEFINE q == Released(run[t], "stopped")
<1>3. DOMAIN q = RunFields /\ q.stage = "stopped" /\ q.audit = << >>
  BY <1>1, ReleasedRun
<1>4. << >> \o records = records
  <2>1. << >> \in Seq({reason}) /\ <<reason>> \in Seq({reason})
    BY EmptySeq
  <2> QED BY <2>1, ConcatEmptySeq
<1> HIDE DEF q
<1>5. Stopped(run[t], reason, records) = [q EXCEPT !.reason = reason, !.audit = << >> \o records]
  BY <1>3 DEF Stopped, q, RunFields
<1> QED BY <1>2, <1>3, <1>4, <1>5 DEF Ran, RunFields

\* What a step of the loop makes of a run.
LEMMA RunGoesOn ==
  ASSUME Conduct, NEW t \in Turns,
         AskModel(t, t \notin Streams) \/ CallTool(t, t \notin Streams) \/ RunFails(t)
  PROVE  /\ run[t].stage \in {"request", "tool"} /\ Ran(t, run'[t])
         /\ run'[t].stage \in Stages \ {"none", "cancelled", "landed", "saved", "unsaved"}
         /\ Outcome(t)'
<1>1. /\ run[t].stage \in {"request", "tool"} /\ Shape
      /\ run[t].reason = "none" /\ run[t].audit = << >>
      /\ DOMAIN run = Turns /\ DOMAIN run[t] = RunFields
  BY DEF AskModel, CallTool, RunFails, Conduct, Outcome, Shape
<1>2. CASE RunFails(t)
  BY <1>1, <1>2, EndedRun DEF RunFails, Outcome, Stages
<1>3. ASSUME NEW reason \in {"max_iterations", "budget_exceeded"},
             Exceeded(t, reason, t \notin Streams) \/ (Refused(t) /\ reason = "budget_exceeded")
      PROVE  /\ Ran(t, run'[t]) /\ run'[t].stage = "stopped" /\ Outcome(t)'
  <2>1. PICK records \in {<< >>, <<reason>>} :
          /\ run' = [run EXCEPT ![t] = Stopped(run[t], reason, records)]
          /\ t \notin Streams => records = <<reason>>
    BY <1>1, <1>3 DEF Exceeded, Refused
  <2>2. /\ Ran(t, run'[t]) /\ run'[t].stage = "stopped"
        /\ run'[t].reason = reason /\ run'[t].audit = records
    BY <1>1, <2>1, StoppedRun
  <2> QED BY <2>1, <2>2 DEF Outcome
<1>4. ASSUME NEW part \in {"text", "call", "empty"}, NEW cost,
             run' = [run EXCEPT ![t] = Answered(run[t], t, part, cost)]
      PROVE  /\ Ran(t, run'[t]) /\ run'[t].stage \in {"request", "tool", "ended"} /\ Outcome(t)'
  <2>1. /\ Ran(t, run'[t])
        /\ run'[t].stage = StageAfter[part]
        /\ run'[t].reason = IF part = "text" THEN "completed" ELSE "none"
        /\ run'[t].audit = << >>
    BY <1>1, <1>4 DEF Answered, Ran, RunFields
  <2>2. /\ part = "text" => StageAfter[part] = "ended"
        /\ part = "call" => StageAfter[part] = "tool"
        /\ part = "empty" => StageAfter[part] = "request"
    BY DEF StageAfter
  <2> QED BY <2>1, <2>2 DEF Outcome
<1>5. CASE AskModel(t, t \notin Streams)
  BY <1>1, <1>3, <1>4, <1>5 DEF AskModel, Stages
<1>6. CASE CallTool(t, t \notin Streams)
  <2>1. CASE ~ (run[t].calls >= ToolCallLimit) /\ ~ (run[t].tokens >= TokenLimit)
    <3>1. /\ Ran(t, run'[t]) /\ run'[t].stage = "request"
          /\ run'[t].reason = "none" /\ run'[t].audit = << >>
      BY <1>1, <1>6, <2>1 DEF CallTool, Ran, RunFields
    <3> QED BY <1>1, <3>1 DEF Outcome, Stages
  <2>2. CASE run[t].calls >= ToolCallLimit \/ run[t].tokens >= TokenLimit
    BY <1>1, <1>3, <1>6, <2>2 DEF CallTool, Stages
  <2> QED BY <2>1, <2>2
<1> QED BY <1>2, <1>5, <1>6

-----------------------------------------------------------------------------
(* The steps of a turn.                                                    *)

LEMMA StartStep ==
  ASSUME Conduct, NEW t \in Turns, NEW s \in Sessions, Continue(t, s) \/ StartSession(t, s)
  PROVE  Conduct'
<1>1. PICK history :
        /\ status[t] = "new" /\ status' = [status EXCEPT ![t] = "open"]
        /\ BeginRun(t, history) /\ Emit(t)
        /\ t \in Streams => /\ producer' = [producer EXCEPT ![t] = "driving"]
                            /\ reader' = [reader EXCEPT ![t] = "get"]
        /\ t \notin Streams => UNCHANGED <<producer, reader>>
        /\ UNCHANGED <<sent, saved>>
  BY DEF Continue, StartSession, Start, ghostVars
<1>2. /\ Shape /\ Outcome(t) /\ Standing(t) /\ Truthful(t)
      /\ run[t].stage = "none" /\ reader[t] = "none" /\ queue[t] = << >> /\ sent[t] = << >>
  BY <1>1 DEF Conduct, Standing
<1>3. /\ DOMAIN run' = Turns /\ DOMAIN run'[t] = RunFields /\ run'[t].stage = "request"
      /\ run'[t].reason = run[t].reason /\ run'[t].audit = run[t].audit
      /\ \A u \in Turns \ {t} : run'[u] = run[u]
  BY <1>1, <1>2 DEF BeginRun, Shape, RunFields
<1>4. /\ queue' \in [Turns -> Seq(Marks)] /\ \A u \in Turns \ {t} : queue'[u] = queue[u]
      /\ queue'[t] = IF t \in Streams THEN <<"progress">> ELSE << >>
  <2>1. queue \in [Turns -> Seq(Marks)]
    BY <1>2 DEF Shape, Marks
  <2>2. << >> \o <<"progress">> = <<"progress">> /\ <<"progress">> \in Seq(Marks)
    <3>1. <<"progress">> \in Seq(Marks)
      BY DEF Marks, Events
    <3> QED BY <3>1, ConcatEmptySeq
  <2>3. queue' = IF t \in Streams THEN [queue EXCEPT ![t] = << >> \o <<"progress">>] ELSE queue
    BY <1>1, <1>2, <1>3 DEF Emit, EventsOf
  <2> QED BY <1>2, <2>1, <2>2, <2>3
<1>5. /\ status' \in [Turns -> Statuses] /\ status'[t] = "open"
      /\ producer' \in [Turns -> Producers] /\ reader' \in [Turns -> Readers]
      /\ producer'[t] = IF t \in Streams THEN "driving" ELSE producer[t]
      /\ reader'[t] = IF t \in Streams THEN "get" ELSE "none"
      /\ \A u \in Turns \ {t} : /\ status'[u] = status[u] /\ producer'[u] = producer[u]
                                /\ reader'[u] = reader[u] /\ sent'[u] = sent[u]
  BY <1>1, <1>2 DEF Shape, Statuses, Producers, Readers
<1>6. Shape'
  <2>1. \A u \in Turns : DOMAIN run'[u] = RunFields /\ run'[u].stage \in Stages
    BY <1>2, <1>3 DEF Shape, Stages
  <2>2. sent' \in [Turns -> Seq(Events)]
    BY <1>1, <1>2 DEF Shape
  <2> QED BY <1>3, <1>4, <1>5, <2>1, <2>2 DEF Shape, Marks
<1>7. Outcome(t)'
  BY <1>2, <1>3 DEF Outcome
<1>8. Standing(t)'
  BY <1>1, <1>2, <1>3, <1>5 DEF Standing, Driven
<1>9. Truthful(t)'
  BY <1>1, <1>2, <1>4 DEF Truthful
<1>10. t \in Streams => Relay(t)'
  <2> SUFFICES ASSUME t \in Streams PROVE Relay(t)'
    OBVIOUS
  <2>1. sent'[t] = << >> /\ Len(sent'[t]) = 0 /\ MaxEvents \in Nat /\ 0 < MaxEvents
    BY <1>1, <1>2, ChatAssumption
  <2>2. Story(t)' = <<"progress">>
    <3>1. <<"progress">> \in Seq(Marks)
      BY DEF Marks, Events
    <3> QED BY <1>4, <2>1, <3>1, ConcatEmptySeq DEF Story
  <2>3. Told(t)' = FALSE /\ Done(t)' = FALSE
    BY <1>3, <1>5 DEF Told, Done
  <2>4. Tale(<<"progress">>, FALSE, FALSE)
    BY DEF Tale
  <2>5. Tale(Story(t)', Told(t)', Done(t)')
    BY <2>2, <2>3, <2>4
  <2>6. LastWord(sent'[t]) /\ Len(sent'[t]) <= MaxEvents /\ Len(sent'[t]) < MaxEvents
    BY <2>1 DEF LastWord
  <2> QED BY <1>5, <2>5, <2>6 DEF Relay
<1> QED BY <1>1, <1>3, <1>4, <1>5, <1>6, <1>7, <1>8, <1>9, <1>10, OneTurn

LEMMA RefuseStep ==
  ASSUME Conduct, NEW t \in Turns, NEW as \in {"forbidden", "error", "aborted"},
         status[t] = "new", Refuse(t, as)
  PROVE  Conduct'
<1>1. /\ status' = [status EXCEPT ![t] = as]
      /\ UNCHANGED <<run, queue, sent, producer, reader, saved>>
  BY DEF Refuse, streamVars, ghostVars
<1>2. Shape /\ Outcome(t) /\ Standing(t) /\ Truthful(t) /\ (t \in Streams => Relay(t))
  BY DEF Conduct
<1>3. Shape' /\ \A u \in Turns \ {t} : status'[u] = status[u]
  BY <1>1, <1>2 DEF Shape, Statuses
<1>4. status'[t] = as
  BY <1>1, <1>2 DEF Shape
<1>5. Outcome(t)' /\ Truthful(t)' /\ (t \in Streams => Relay(t)')
  BY <1>1, <1>2 DEF Outcome, Truthful, Relay, Story, Told, Done
<1>6. Standing(t)'
  BY <1>1, <1>2, <1>4 DEF Standing, Driven, Underway
<1> QED BY <1>1, <1>3, <1>5, <1>6, OneTurn

LEMMA RunningStep ==
  ASSUME Conduct, NEW t \in Turns, RunStep(t)
  PROVE  Conduct'
<1>1. /\ Open(t) /\ Emit(t) /\ UNCHANGED <<status, producer, sent, reader, saved>>
      /\ AskModel(t, t \notin Streams) \/ CallTool(t, t \notin Streams) \/ RunFails(t)
  BY DEF RunStep, requestVars, ghostVars
<1>2. /\ run[t].stage \in Underway /\ Ran(t, run'[t])
      /\ run'[t].stage \in Stages \ {"none", "cancelled"} /\ Outcome(t)'
  BY <1>1, RunGoesOn DEF Underway
<1> QED BY <1>1, <1>2, Produced DEF Ran

LEMMA SaveStep ==
  ASSUME Conduct, NEW t \in Turns, Save(t) \/ SaveReturns(t)
  PROVE  Conduct'
<1>1. Shape /\ Outcome(t) /\ DOMAIN run = Turns /\ DOMAIN run[t] = RunFields
  BY DEF Conduct, Shape
<1>2. ASSUME NEW stage, Stage(t, stage)
      PROVE  /\ Ran(t, run'[t]) /\ run'[t].stage = stage
             /\ run'[t].reason = run[t].reason /\ run'[t].audit = run[t].audit
  <2>1. CASE t \in Streams /\ stage # "landed"
    BY <1>1, <1>2, <2>1, EndedRun DEF Stage
  <2>2. CASE ~ (t \in Streams /\ stage # "landed")
    BY <1>1, <1>2, <2>2 DEF Stage, Ran, RunFields
  <2> QED BY <2>1, <2>2
<1>3. /\ Open(t) /\ Emit(t) /\ UNCHANGED <<status, producer, sent, reader>> /\ saved \subseteq saved'
      /\ run[t].stage \in {"ended", "landed"}
      /\ \E stage \in {"landed", "saved", "unsaved"} :
           /\ Stage(t, stage)
           /\ stage \in {"landed", "saved"} => t \in saved'
  <2>1. CASE Save(t)
    BY <2>1 DEF Save, Completed, Record, requestVars
  <2>2. CASE SaveReturns(t)
    BY <1>1, <2>2 DEF SaveReturns, requestVars, ghostVars, Outcome
  <2> QED BY <2>1, <2>2
<1>4. PICK stage \in {"landed", "saved", "unsaved"} :
        Stage(t, stage) /\ (stage \in {"landed", "saved"} => t \in saved')
  BY <1>3
<1>5. /\ Ran(t, run'[t]) /\ run'[t].stage = stage
      /\ run'[t].reason = "completed" /\ run'[t].audit = << >>
  BY <1>1, <1>2, <1>3, <1>4 DEF Outcome
<1>6. Outcome(t)'
  BY <1>4, <1>5 DEF Outcome
<1>7. stage \in Stages \ {"none", "cancelled"} /\ run[t].stage \in Underway
  BY <1>3 DEF Stages, Underway
<1> QED BY <1>3, <1>5, <1>6, <1>7, Produced DEF Ran

LEMMA AnswerStep ==
  ASSUME Conduct, NEW t \in Turns, Reply(t) \/ ChatTimesOut(t)
  PROVE  Conduct'
<1>1. /\ t \notin Streams /\ status[t] = "open"
      /\ UNCHANGED <<queue, sent, producer, reader, saved>>
      /\ \E as \in {"ok", "error", "timeout"}, stage \in Stages \ {"none", "landed"} :
           /\ status' = [status EXCEPT ![t] = as] /\ EndRun(t, stage)
           /\ stage \in {run[t].stage, "cancelled"} /\ stage \notin {"none", "request", "tool", "ended"}
           /\ as = "ok" => stage \in {"saved", "stopped"}
  BY DEF Reply, ChatTimesOut, Answer, Open, streamVars, ghostVars, Stages
<1>2. PICK as \in {"ok", "error", "timeout"}, stage \in Stages \ {"none", "landed"} :
        /\ status' = [status EXCEPT ![t] = as] /\ EndRun(t, stage)
        /\ stage \in {run[t].stage, "cancelled"} /\ stage \notin {"none", "request", "tool", "ended"}
        /\ as = "ok" => stage \in {"saved", "stopped"}
  BY <1>1
<1>3. Shape /\ Outcome(t) /\ Standing(t) /\ Truthful(t)
  BY DEF Conduct
<1>4. /\ Ran(t, run'[t]) /\ run'[t].stage = stage
      /\ run'[t].reason = run[t].reason /\ run'[t].audit = run[t].audit
  BY <1>2, <1>3, EndedRun
<1>5. status' \in [Turns -> Statuses] /\ status'[t] = as /\ \A u \in Turns \ {t} : status'[u] = status[u]
  BY <1>2, <1>3 DEF Shape, Statuses
<1>6. Shape'
  BY <1>1, <1>3, <1>4, <1>5 DEF Shape, Ran
<1>7. Outcome(t)'
  BY <1>1, <1>2, <1>3, <1>4 DEF Outcome
<1>8. Standing(t)'
  BY <1>1, <1>2, <1>3, <1>4, <1>5 DEF Standing, Driven
<1>9. Truthful(t)'
  BY <1>1, <1>3 DEF Truthful
<1> QED BY <1>1, <1>4, <1>5, <1>6, <1>7, <1>8, <1>9, OneTurn DEF Ran

\* The consumer sends an event; an error may be its last word whatever it sent.
LEMMA Sending ==
  ASSUME NEW q \in Seq(Events), NEW e \in Events
  PROVE  /\ Append(q, e) \in Seq(Events) /\ Len(Append(q, e)) = Len(q) + 1
         /\ \A i \in 1..Len(Append(q, e)) :
              Append(q, e)[i] = e \/ \E j \in 1..Len(q) : Append(q, e)[i] = q[j]
         /\ AtMostOneTerminal(q) /\ e = "error" => LastWord(Append(q, e))
<1> DEFINE w == Append(q, e)
<1>1. /\ w \in Seq(Events) /\ Len(w) = Len(q) + 1 /\ Len(q) \in Nat
      /\ \A i \in 1..Len(q) : w[i] = q[i]
      /\ w[Len(q) + 1] = e
  BY AppendProperties, LenProperties
<1> HIDE DEF w
<1>2. \A i \in 1..Len(w) : i = Len(w) \/ i \in 1..Len(q)
  BY <1>1
<1>3. \A i \in 1..Len(w) : w[i] = e \/ \E j \in 1..Len(q) : w[i] = q[j]
  BY <1>1, <1>2
<1>4. ASSUME AtMostOneTerminal(q), e = "error" PROVE LastWord(w)
  <2> SUFFICES ASSUME NEW i \in 1..Len(w), NEW j \in 1..Len(w), w[i] \in Terminal, i < j
               PROVE  j = Len(w) /\ w[j] = "error"
    BY DEF LastWord
  <2>1. i \in 1..Len(q) /\ q[i] \in Terminal
    BY <1>1
  <2>2. i = Len(q)
    BY <1>4, <2>1 DEF AtMostOneTerminal
  <2> QED BY <1>1, <1>4, <2>2
<1> QED BY <1>1, <1>3, <1>4 DEF w

\* The consumer moves without a sending.
LEMMA MoveStep ==
  ASSUME Conduct, NEW t \in Turns, Disconnect(t) \/ Wait(t) \/ ReadOn(t) \/ Leave(t)
  PROVE  Conduct'
<1>1. /\ t \in Streams /\ UNCHANGED <<run, status, producer, queue, sent, saved>>
      /\ reader[t] \in {"get", "wait", "yielded", "last"}
      /\ \E where \in {"get", "wait", "ending"} :
           /\ reader' = [reader EXCEPT ![t] = where]
           /\ where = "get" => reader[t] = "yielded" /\ ~ (Len(sent[t]) >= MaxEvents)
           /\ where = "wait" => reader[t] = "get"
  BY DEF Disconnect, Wait, ReadOn, Leave, At, GoTo, ConsumerOnly, requestVars, ghostVars
<1>2. PICK where \in {"get", "wait", "ending"} :
        /\ reader' = [reader EXCEPT ![t] = where]
        /\ where = "get" => reader[t] = "yielded" /\ ~ (Len(sent[t]) >= MaxEvents)
        /\ where = "wait" => reader[t] = "get"
  BY <1>1
<1>3. Shape /\ Outcome(t) /\ Standing(t) /\ Truthful(t) /\ Relay(t)
  BY <1>1 DEF Conduct
<1>4. Shape' /\ reader'[t] = where /\ \A u \in Turns \ {t} : reader'[u] = reader[u]
  BY <1>1, <1>2, <1>3 DEF Shape, Readers
<1>5. Outcome(t)' /\ Standing(t)' /\ Truthful(t)'
  BY <1>1, <1>3, <1>4 DEF Outcome, Standing, Driven, Truthful
<1>6. Relay(t)'
  <2>1. where \in {"get", "wait"} => Len(sent[t]) < MaxEvents
    <3>1. sent[t] \in Seq(Events) /\ MaxEvents \in Nat
      BY <1>3, ChatAssumption DEF Shape
    <3>2. Len(sent[t]) \in Nat
      BY <3>1, LenProperties
    <3> QED BY <1>2, <1>3, <3>1, <3>2 DEF Relay
  <2>2. where \in {"get", "wait", "yielded"} => reader[t] \in {"get", "wait", "yielded"}
    BY <1>2
  <2>3. Story(t)' = Story(t) /\ Told(t)' = Told(t) /\ Done(t)' = Done(t)
    BY <1>1 DEF Story, Told, Done
  <2> QED BY <1>1, <1>2, <1>3, <1>4, <2>1, <2>2, <2>3 DEF Relay
<1> QED BY <1>1, <1>4, <1>5, <1>6, OneTurn

\* A stream that waits for an event has sent the beginning of what was put.
LEMMA Waiting ==
  ASSUME Conduct, NEW t \in Streams, reader[t] \in {"get", "wait"}
  PROVE  /\ sent[t] \in Seq(Events) /\ sent[t] \in Seq(Marks) /\ queue[t] \in Seq(Marks)
         /\ Len(sent[t]) + 1 <= MaxEvents
         /\ AtMostOneTerminal(sent[t])
         /\ queue[t] # << >> /\ Head(queue[t]) = "done" => Done(t)
         /\ queue[t] # << >> /\ Head(queue[t]) = "done" /\ Told(t) => Conclusive(sent[t])
<1>1. Shape /\ Relay(t) /\ t \in Turns
  BY ChatAssumption DEF Conduct
<1>2. sent[t] \in Seq(Events) /\ sent[t] \in Seq(Marks) /\ queue[t] \in Seq(Marks)
  BY <1>1, EventsAreMarks DEF Shape, Marks
<1>3. Len(sent[t]) \in Nat /\ MaxEvents \in Nat /\ Len(sent[t]) < MaxEvents
  BY <1>1, <1>2, LenProperties, ChatAssumption DEF Relay
<1>4. Tale(sent[t] \o queue[t], Told(t), Done(t))
  BY <1>1 DEF Relay, Story
<1>5. Told(t) \in BOOLEAN /\ Done(t) \in BOOLEAN
  BY DEF Told, Done
<1>6. /\ AtMostOneTerminal(sent[t])
      /\ queue[t] # << >> /\ Head(queue[t]) = "done" => Done(t)
      /\ queue[t] # << >> /\ Head(queue[t]) = "done" /\ Told(t) => Conclusive(sent[t])
  BY <1>2, <1>4, <1>5, TaleSoFar
<1> QED BY <1>2, <1>3, <1>6

\* The consumer moves and may send.
LEMMA ConsumerStep ==
  ASSUME Conduct, NEW t \in Streams, reader[t] \in {"get", "wait"},
         NEW where \in {"yielded", "last", "over"}, reader' = [reader EXCEPT ![t] = where],
         UNCHANGED <<run, status, producer, saved>>,
         queue' \in [Turns -> Seq(Marks)], \A u \in Turns \ {t} : queue'[u] = queue[u],
         \A i \in 1..Len(queue'[t]) : queue'[t][i] = "completed" => t \in saved,
         sent' \in [Turns -> Seq(Events)], \A u \in Turns \ {t} : sent'[u] = sent[u],
         \A i \in 1..Len(sent'[t]) : sent'[t][i] = "completed" => t \in saved,
         LastWord(sent'[t]), Len(sent'[t]) <= MaxEvents,
         where = "yielded" => Story(t)' = Story(t),
         where = "over" => Conclusive(sent'[t])
  PROVE  Conduct'
<1>1. Shape /\ Outcome(t) /\ Standing(t) /\ Relay(t) /\ t \in Turns
  BY ChatAssumption DEF Conduct
<1>2. reader'[t] = where /\ \A u \in Turns \ {t} : reader'[u] = reader[u]
  BY <1>1 DEF Shape
<1>3. Shape'
  BY <1>1, <1>2 DEF Shape, Readers, Marks
<1>4. Outcome(t)'
  BY <1>1 DEF Outcome
<1>5. Standing(t)'
  BY <1>1, <1>2 DEF Standing, Driven
<1>6. Truthful(t)'
  BY DEF Truthful
<1>7. Relay(t)'
  <2>1. Told(t)' = Told(t) /\ Done(t)' = Done(t)
    BY DEF Told, Done
  <2> QED BY <1>1, <1>2, <2>1 DEF Relay
<1> QED BY <1>1, <1>2, <1>3, <1>4, <1>5, <1>6, <1>7, OneTurn

\* The consumer's own error: what it has sent so far has one terminal event at most.
LEMMA ErrorSent ==
  ASSUME Conduct, NEW t \in Streams, reader[t] \in {"get", "wait"},
         reader' = [reader EXCEPT ![t] = "last"],
         sent' = [sent EXCEPT ![t] = Append(sent[t], "error")],
         UNCHANGED <<run, status, producer, saved>>,
         queue' \in [Turns -> Seq(Marks)], \A u \in Turns \ {t} : queue'[u] = queue[u],
         \A i \in 1..Len(queue'[t]) : queue'[t][i] = "completed" => t \in saved
  PROVE  Conduct'
<1>1. Shape /\ Truthful(t) /\ t \in Turns /\ "error" \in Events
  BY ChatAssumption DEF Conduct, Events
<1>2. /\ sent[t] \in Seq(Events) /\ Len(sent[t]) + 1 <= MaxEvents
      /\ AtMostOneTerminal(sent[t])
  BY Waiting
<1>3. sent'[t] = Append(sent[t], "error") /\ \A u \in Turns \ {t} : sent'[u] = sent[u]
  BY <1>1 DEF Shape
<1>4. /\ sent'[t] \in Seq(Events) /\ Len(sent'[t]) = Len(sent[t]) + 1
      /\ \A i \in 1..Len(sent'[t]) :
           sent'[t][i] = "error" \/ \E j \in 1..Len(sent[t]) : sent'[t][i] = sent[t][j]
      /\ LastWord(sent'[t])
  BY <1>1, <1>2, <1>3, Sending
<1>5. sent' \in [Turns -> Seq(Events)]
  BY <1>1, <1>3, <1>4 DEF Shape
<1>6. \A i \in 1..Len(sent'[t]) : sent'[t][i] = "completed" => t \in saved
  BY <1>1, <1>4 DEF Truthful
<1> QED BY <1>2, <1>3, <1>4, <1>5, <1>6, ConsumerStep

LEMMA GetStep ==
  ASSUME Conduct, NEW t \in Turns, Get(t)
  PROVE  Conduct'
<1> DEFINE q == queue[t]
           e == Head(q)
<1>1. /\ t \in Streams /\ reader[t] \in {"get", "wait"} /\ q # << >>
      /\ queue' = [queue EXCEPT ![t] = Tail(q)]
      /\ UNCHANGED <<run, status, producer, saved>>
      /\ \/ /\ e # "done" /\ reader' = [reader EXCEPT ![t] = "yielded"]
            /\ sent' = [sent EXCEPT ![t] = Append(sent[t], e)]
         \/ /\ e = "done" /\ producer[t] = "raised" /\ reader' = [reader EXCEPT ![t] = "last"]
            /\ sent' = [sent EXCEPT ![t] = Append(sent[t], "error")]
         \/ /\ e = "done" /\ producer[t] # "raised" /\ reader' = [reader EXCEPT ![t] = "over"]
            /\ sent' = sent
  BY DEF Get, At, GoTo, Send, ConsumerOnly, requestVars, ghostVars, Conduct, Shape
<1>2. Shape /\ Standing(t) /\ Truthful(t) /\ Relay(t)
  BY <1>1 DEF Conduct
<1>3. /\ sent[t] \in Seq(Events) /\ sent[t] \in Seq(Marks) /\ q \in Seq(Marks)
      /\ Len(sent[t]) + 1 <= MaxEvents /\ AtMostOneTerminal(sent[t])
      /\ e = "done" => Done(t)
      /\ e = "done" /\ Told(t) => Conclusive(sent[t])
  BY <1>1, Waiting
<1>4. /\ Tail(q) \in Seq(Marks) /\ e \in Marks /\ e = q[1] /\ 1 \in 1..Len(q)
      /\ \A i \in 1..Len(Tail(q)) : Tail(q)[i] = q[i + 1] /\ i + 1 \in 1..Len(q)
  <2>1. Len(q) \in Nat \ {0} /\ e = q[1]
    BY <1>1, <1>3, EmptySeq
  <2>2. /\ e \in Marks /\ Tail(q) \in Seq(Marks) /\ Len(Tail(q)) = Len(q) - 1
        /\ \A i \in 1..Len(Tail(q)) : Tail(q)[i] = q[i + 1]
    BY <1>1, <1>3, HeadTailProperties
  <2> QED BY <2>1, <2>2
<1>5. /\ queue'[t] = Tail(q) /\ queue' \in [Turns -> Seq(Marks)]
      /\ \A u \in Turns \ {t} : queue'[u] = queue[u]
  BY <1>1, <1>2, <1>4 DEF Shape, Marks
<1>6. \A i \in 1..Len(queue'[t]) : queue'[t][i] = "completed" => t \in saved
  BY <1>2, <1>4, <1>5 DEF Truthful
<1>7. CASE e # "done"
  <2>1. e \in Events
    BY <1>4, <1>7 DEF Marks
  <2>2. /\ reader' = [reader EXCEPT ![t] = "yielded"]
        /\ sent' = [sent EXCEPT ![t] = Append(sent[t], e)]
    BY <1>1, <1>7
  <2>3. sent'[t] = Append(sent[t], e) /\ \A u \in Turns \ {t} : sent'[u] = sent[u]
    BY <1>2, <2>2 DEF Shape
  <2>4. /\ sent'[t] \in Seq(Events) /\ Len(sent'[t]) = Len(sent[t]) + 1
        /\ \A i \in 1..Len(sent'[t]) :
             sent'[t][i] = e \/ \E j \in 1..Len(sent[t]) : sent'[t][i] = sent[t][j]
    BY <1>3, <2>1, <2>3, Sending
  <2>5. sent' \in [Turns -> Seq(Events)]
    BY <1>2, <2>2, <2>3, <2>4 DEF Shape
  <2>6. \A i \in 1..Len(sent'[t]) : sent'[t][i] = "completed" => t \in saved
    BY <1>2, <1>4, <2>4 DEF Truthful
  <2>7. Story(t)' = Story(t)
    BY <1>1, <1>3, <1>5, <2>3, TaleIsPassedOn DEF Story
  <2>8. LastWord(sent'[t])
    <3>1. Tale(sent'[t] \o queue'[t], Told(t), Done(t))
      BY <1>1, <1>2, <2>7 DEF Relay, Story
    <3>2. AtMostOneTerminal(sent'[t])
      <4>1. Told(t) \in BOOLEAN /\ Done(t) \in BOOLEAN /\ queue'[t] \in Seq(Marks)
        BY <1>4, <1>5 DEF Told, Done
      <4> QED BY <2>4, <3>1, <4>1, TaleSoFar
    <3>3. Len(sent'[t]) \in Nat
      BY <2>4, LenProperties
    <3> QED BY <3>2, <3>3 DEF AtMostOneTerminal, LastWord
  <2> QED BY <1>1, <1>3, <1>5, <1>6, <2>2, <2>3, <2>4, <2>5, <2>6, <2>7, <2>8, ConsumerStep
<1>8. CASE e = "done" /\ producer[t] = "raised"
  BY <1>1, <1>5, <1>6, <1>8, ErrorSent
<1>9. CASE e = "done" /\ producer[t] # "raised"
  <2>1. reader' = [reader EXCEPT ![t] = "over"] /\ sent' = sent
    BY <1>1, <1>9
  <2>2. Told(t)
    BY <1>2, <1>3, <1>9 DEF Done, Told, Standing, Driven
  <2>3. Conclusive(sent[t]) /\ LastWord(sent[t]) /\ Len(sent[t]) <= MaxEvents
    BY <1>2, <1>3, <1>9, <2>2 DEF Relay
  <2> QED BY <1>1, <1>2, <1>5, <1>6, <2>1, <2>3, ConsumerStep DEF Shape, Truthful
<1> QED BY <1>7, <1>8, <1>9

LEMMA GetTimesOutStep ==
  ASSUME Conduct, NEW t \in Turns, GetTimesOut(t)
  PROVE  Conduct'
<1>1. /\ t \in Streams /\ reader[t] = "wait"
      /\ reader' = [reader EXCEPT ![t] = "last"]
      /\ sent' = [sent EXCEPT ![t] = Append(sent[t], "error")]
      /\ UNCHANGED <<run, status, producer, saved, queue>>
  BY DEF GetTimesOut, At, GoTo, Send, ConsumerOnly, requestVars, ghostVars, Conduct, Shape
<1>2. queue \in [Turns -> Seq(Marks)] /\ Truthful(t)
  BY DEF Conduct, Shape, Marks
<1> QED BY <1>1, <1>2, ErrorSent DEF Truthful

LEMMA CleanupStep ==
  ASSUME Conduct, NEW t \in Turns, Cleanup(t)
  PROVE  Conduct'
<1>1. /\ t \in Streams /\ reader' = [reader EXCEPT ![t] = "closed"]
      /\ status' = [status EXCEPT ![t] = "ok"]
      /\ producer' = [producer EXCEPT ![t] = "awaited"]
      /\ queue' = [queue EXCEPT ![t] = << >>] /\ sent' = [sent EXCEPT ![t] = << >>]
      /\ EndProducer(t)
  BY DEF Cleanup, EndProducer, At, GoTo
<1>2. Shape /\ Outcome(t) /\ Standing(t)
  BY DEF Conduct
<1>3. saved \subseteq saved'
  BY <1>1 DEF EndProducer, Record, ghostVars
<1>4. PICK stage \in Stages \ Underway : EndRun(t, stage) /\ stage \in {run[t].stage, "cancelled"}
  BY <1>1, <1>2 DEF EndProducer, Running, Underway, Stages, Shape
<1>5. /\ Ran(t, run'[t]) /\ run'[t].stage = stage
      /\ run'[t].reason = run[t].reason /\ run'[t].audit = run[t].audit
  BY <1>2, <1>4, EndedRun
<1>6. /\ status' \in [Turns -> Statuses] /\ reader' \in [Turns -> Readers]
      /\ producer' \in [Turns -> Producers]
      /\ queue' \in [Turns -> Seq(Marks)] /\ sent' \in [Turns -> Seq(Events)]
  <2>1. << >> \in Seq(Marks) /\ << >> \in Seq(Events)
    BY EmptySeq
  <2> QED BY <1>1, <1>2, <2>1 DEF Shape, Statuses, Readers, Producers, Marks
<1>7. /\ status'[t] = "ok" /\ reader'[t] = "closed" /\ producer'[t] = "awaited"
      /\ queue'[t] = << >> /\ sent'[t] = << >>
      /\ \A u \in Turns \ {t} : /\ status'[u] = status[u] /\ reader'[u] = reader[u]
                                /\ producer'[u] = producer[u]
                                /\ queue'[u] = queue[u] /\ sent'[u] = sent[u]
  BY <1>1, <1>2 DEF Shape
<1>8. Shape'
  BY <1>2, <1>5, <1>6 DEF Shape, Ran, Marks
<1>9. Outcome(t)'
  BY <1>2, <1>3, <1>4, <1>5 DEF Outcome
<1>10. Standing(t)' /\ Truthful(t)'
  BY <1>1, <1>4, <1>5, <1>7 DEF Standing, Driven, Truthful
<1>11. Relay(t)'
  <2>1. Len(sent'[t]) = 0 /\ MaxEvents \in Nat
    BY <1>7, ChatAssumption
  <2> QED BY <1>7, <2>1 DEF Relay, LastWord
<1> QED BY <1>3, <1>5, <1>7, <1>8, <1>9, <1>10, <1>11, OneTurn DEF Ran

LEMMA ConductStep == Conduct /\ [Next]_vars => Conduct'
<1> SUFFICES ASSUME Conduct, [Next]_vars PROVE Conduct'
  OBVIOUS
<1>1. ASSUME NEW t \in Turns, Turn(t) PROVE Conduct'
  <2>1. Forbidden(t) \/ LoadFails(t) =>
          \E as \in {"forbidden", "error", "aborted"} : status[t] = "new" /\ Refuse(t, as)
    BY DEF Forbidden, LoadFails
  <2>2. CASE Consume(t)
    BY <2>2, MoveStep, GetStep, GetTimesOutStep, CleanupStep DEF Consume
  <2> QED BY <1>1, <2>1, <2>2, StartStep, RefuseStep, RunningStep, SaveStep, ProducerEndsStep,
             AnswerStep DEF Turn
<1>2. CASE SessionsExpire \/ UNCHANGED vars
  <2>1. UNCHANGED <<run, status, producer, reader, queue, sent, saved>>
    BY <1>2 DEF SessionsExpire, vars, requestVars, streamVars, ghostVars
  <2>2. Shape'
    BY <2>1 DEF Conduct, Shape
  <2>3. \A t \in Turns : Outcome(t)' /\ Standing(t)' /\ Truthful(t)'
    BY <2>1 DEF Conduct, Outcome, Standing, Driven, Truthful
  <2>4. \A t \in Streams : Relay(t)'
    BY <2>1 DEF Conduct, Relay, Story, Told, Done
  <2> QED BY <2>2, <2>3, <2>4 DEF Conduct
<1> QED BY <1>1, <1>2 DEF Next

\* The stage of every run, its producer, its consumer and its queue fit each other.
THEOREM ConductInvariant == Spec => []Conduct
<1> QED BY ConductInit, ConductStep, PTL DEF Spec

\* Nothing follows a terminal event but one last error, all is within the cap, and
\* a stream that ends of itself has told its end.
THEOREM TheEndIsTold == Spec => []EndIsTold
<1>1. Conduct => EndIsTold
  BY DEF Conduct, Relay, LastWord, Conclusive, EndIsTold
<1> QED BY <1>1, ConductInvariant, PTL

\* No producer and no run goes on behind a closed stream.
THEOREM NoRunOutlivesItsStream == Spec => []NoOrphanProducer
<1>1. Conduct => NoOrphanProducer
  BY ChatAssumption DEF Conduct, Standing, NoOrphanProducer, Running, Underway
<1> QED BY <1>1, ConductInvariant, PTL

\* Who is told that a turn completed finds it saved.
THEOREM CompletionIsSaved == Spec => []CompletedMeansSaved
<1>1. Conduct => CompletedMeansSaved
  <2> SUFFICES ASSUME Conduct, NEW t \in Turns,
                      \/ t \notin Streams /\ status[t] = "ok" /\ run[t].reason = "completed"
                      \/ "completed" \in Range(sent[t])
               PROVE  t \in saved
    BY DEF CompletedMeansSaved
  <2>1. Shape /\ Outcome(t) /\ Standing(t) /\ Truthful(t)
    BY DEF Conduct
  <2>2. CASE t \notin Streams /\ status[t] = "ok" /\ run[t].reason = "completed"
    BY <2>1, <2>2 DEF Standing, Outcome
  <2>3. CASE "completed" \in Range(sent[t])
    <3>1. sent[t] \in Seq(Events)
      BY <2>1 DEF Shape
    <3>2. \E i \in 1..Len(sent[t]) : sent[t][i] = "completed"
      BY <2>3, <3>1, LenProperties DEF Range
    <3> QED BY <2>1, <3>2 DEF Truthful
  <2> QED BY <2>2, <2>3
<1> QED BY <1>1, ConductInvariant, PTL

\* A chat that was stopped has one audit record, of the reason.
THEOREM StopsRecorded == Spec => []StopsAreAudited
<1>1. Conduct => StopsAreAudited
  BY DEF Conduct, Standing, Outcome, StopsAreAudited
<1> QED BY <1>1, ConductInvariant, PTL

-----------------------------------------------------------------------------
(* Lists.                                                                  *)

\* A set of numbers has a least one: what induction is reduced to.
LEMMA LeastNumber ==
  ASSUME NEW S \in SUBSET Nat, S # {}
  PROVE  \E x \in S : \A y \in S : x <= y
<1>1. \E x \in S : \A y \in S : ~ (<<y, x>> \in OpToRel(<, Nat))
  BY NatLessThanWellFounded, WFMin
<1>2. \A i, j \in Nat : i < j => <<i, j>> \in OpToRel(<, Nat)
  BY Zenon DEF OpToRel
<1>3. PICK x \in S : \A y \in S : ~ (<<y, x>> \in OpToRel(<, Nat))
  BY <1>1
<1>4. \A y \in S : y \in Nat /\ x \in Nat /\ ~ (y < x)
  BY <1>2, <1>3, Zenon
<1> QED BY <1>4

\* r holds those of the first n elements of list that are in S, in their order.
Picks(r, list, S, n) ==
  \E at \in [1..Len(r) -> 1..n] :
    /\ \A k \in 1..Len(r) : r[k] = list[at[k]] /\ r[k] \in S
    /\ \A k, l \in 1..Len(r) : k < l => at[k] < at[l]
    /\ \A m \in 1..n : list[m] \in S => \E k \in 1..Len(r) : at[k] = m

\* What OnlyIn puts at a place, given what it put before.
Kept(list, S, g, i) ==
  IF i = 0 THEN << >>
  ELSE IF list[i] \in S THEN Append(g[i - 1], list[i]) ELSE g[i - 1]

LEMMA OnlyInDefined ==
  ASSUME NEW list, NEW S, Len(list) \in Nat
  PROVE  \E g : g = [i \in 0..Len(list) |-> Kept(list, S, g, i)] /\ OnlyIn(list, S) = g[Len(list)]
<1> DEFINE Fits(n) == \E g : g = [i \in 0..n |-> Kept(list, S, g, i)]
           Unfit == {n \in Nat : ~Fits(n)}
<1>1. Fits(0)
  <2> DEFINE g == [i \in 0..0 |-> << >>]
  <2>1. g = [i \in 0..0 |-> Kept(list, S, g, i)]
    BY DEF Kept
  <2> QED BY <2>1
<1>2. ASSUME NEW n \in Nat, Fits(n)
      PROVE  Fits(n + 1)
  <2>1. PICK g : g = [i \in 0..n |-> Kept(list, S, g, i)]
    BY <1>2
  <2> DEFINE h == [i \in 0..n + 1 |-> IF i = n + 1 THEN Kept(list, S, g, n + 1) ELSE g[i]]
  <2>2. ASSUME NEW i \in 0..n + 1
        PROVE  h[i] = Kept(list, S, h, i)
    <3>1. CASE i = n + 1
      <4>1. h[i] = Kept(list, S, g, n + 1) /\ h[n] = g[n]
        BY <3>1
      <4> QED BY <3>1, <4>1 DEF Kept
    <3>2. CASE i = 0
      <4>1. h[0] = g[0]
        OBVIOUS
      <4> QED BY <2>1, <3>2, <4>1 DEF Kept
    <3>3. CASE i \in 1..n
      <4>1. h[i] = g[i] /\ h[i - 1] = g[i - 1] /\ i - 1 \in 0..n /\ i \in 0..n
        BY <3>3
      <4>2. g[i] = Kept(list, S, g, i)
        BY <2>1, <4>1
      <4> QED BY <3>3, <4>1, <4>2 DEF Kept
    <3> QED BY <3>1, <3>2, <3>3
  <2>3. h = [i \in 0..n + 1 |-> Kept(list, S, h, i)]
    BY <2>2
  <2> QED BY <2>3
<1> HIDE DEF Fits
<1>3. Unfit = {}
  <2> SUFFICES ASSUME Unfit # {}  PROVE FALSE
    OBVIOUS
  <2>1. PICK n \in Unfit : \A m \in Unfit : n <= m
    BY LeastNumber
  <2>2. n # 0
    BY <1>1
  <2>3. n - 1 \in Nat /\ n - 1 \notin Unfit
    BY <2>1, <2>2
  <2>4. Fits((n - 1) + 1)
    BY <1>2, <2>3
  <2> QED BY <2>4
<1>4. \E g : g = [i \in 0..Len(list) |-> Kept(list, S, g, i)]
  BY <1>3 DEF Fits
<1> DEFINE f == CHOOSE g : g = [i \in 0..Len(list) |-> Kept(list, S, g, i)]
<1>5. f = [i \in 0..Len(list) |-> Kept(list, S, f, i)]
  BY <1>4
<1>6. OnlyIn(list, S) = f[Len(list)]
  BY DEF OnlyIn, Kept
<1> QED BY <1>5, <1>6

LEMMA OnlyInPicks ==
  ASSUME NEW T, NEW list \in Seq(T), NEW S
  PROVE  /\ OnlyIn(list, S) \in Seq(T)
         /\ Len(OnlyIn(list, S)) <= Len(list)
         /\ Picks(OnlyIn(list, S), list, S, Len(list))
<1>1. Len(list) \in Nat /\ \A i \in 1..Len(list) : list[i] \in T
  BY LenProperties
<1>2. PICK g : g = [i \in 0..Len(list) |-> Kept(list, S, g, i)] /\ OnlyIn(list, S) = g[Len(list)]
  BY <1>1, OnlyInDefined
<1>3. \A i \in 0..Len(list) : g[i] = Kept(list, S, g, i)
  BY <1>2
<1> DEFINE Right(i) == g[i] \in Seq(T) /\ Len(g[i]) <= i /\ Picks(g[i], list, S, i)
           Wrong == {i \in 0..Len(list) : ~Right(i)}
<1>4. Right(0)
  <2>1. g[0] = << >>
    BY <1>1, <1>3 DEF Kept
  <2>2. Picks(<< >>, list, S, 0)
    <3> DEFINE at == [k \in 1..0 |-> 0]
    <3>1. Len(<< >>) = 0 /\ 1..0 = {}
      BY EmptySeq
    <3>2. at \in [1..Len(<< >>) -> 1..0]
      BY <3>1
    <3> QED BY <3>1, <3>2 DEF Picks
  <2> QED BY <2>1, <2>2, EmptySeq
<1>5. ASSUME NEW i \in 1..Len(list), Right(i - 1)
      PROVE  Right(i)
  <2> DEFINE r == g[i - 1]
             n == Len(r)
  <2>1. g[i] = IF list[i] \in S THEN Append(r, list[i]) ELSE r
    BY <1>1, <1>3 DEF Kept
  <2>2. r \in Seq(T) /\ n \in Nat /\ n <= i - 1 /\ Picks(r, list, S, i - 1)
    BY <1>5, LenProperties
  <2>3. PICK at \in [1..n -> 1..i - 1] :
          /\ \A k \in 1..n : r[k] = list[at[k]] /\ r[k] \in S
          /\ \A k, l \in 1..n : k < l => at[k] < at[l]
          /\ \A m \in 1..i - 1 : list[m] \in S => \E k \in 1..n : at[k] = m
    BY <2>2 DEF Picks
  <2> HIDE DEF r, n
  <2>4. CASE list[i] \in S
    <3> DEFINE u == Append(r, list[i])
               to == [k \in 1..n + 1 |-> IF k = n + 1 THEN i ELSE at[k]]
    <3>1. /\ u \in Seq(T) /\ Len(u) = n + 1 /\ u[n + 1] = list[i]
          /\ \A k \in 1..n : u[k] = r[k]
      BY <1>1, <2>2, AppendProperties DEF n
    <3>2. to \in [1..n + 1 -> 1..i]
      BY <2>2, <2>3
    <3>3. /\ \A k \in 1..n + 1 : u[k] = list[to[k]] /\ u[k] \in S
          /\ \A k, l \in 1..n + 1 : k < l => to[k] < to[l]
          /\ \A m \in 1..i : list[m] \in S => \E k \in 1..n + 1 : to[k] = m
      <4>1. to[n + 1] = i /\ \A k \in 1..n : to[k] = at[k] /\ at[k] < i
        BY <2>2, <2>3
      <4> HIDE DEF u, to
      <4>2. \A k \in 1..n + 1 : u[k] = list[to[k]] /\ u[k] \in S
        <5> SUFFICES ASSUME NEW k \in 1..n + 1
                     PROVE  u[k] = list[to[k]] /\ u[k] \in S
          OBVIOUS
        <5>1. CASE k = n + 1
          BY <2>4, <3>1, <4>1, <5>1
        <5>2. CASE k \in 1..n
          <6>1. u[k] = r[k] /\ to[k] = at[k] /\ r[k] = list[at[k]] /\ r[k] \in S
            BY <2>3, <3>1, <4>1, <5>2
          <6> QED BY <6>1
        <5> QED BY <2>2, <5>1, <5>2
      <4>3. \A k, l \in 1..n + 1 : k < l => to[k] < to[l]
        BY <2>2, <2>3, <4>1
      <4>4. \A m \in 1..i : list[m] \in S => \E k \in 1..n + 1 : to[k] = m
        <5> SUFFICES ASSUME NEW m \in 1..i, list[m] \in S
                     PROVE  \E k \in 1..n + 1 : to[k] = m
          OBVIOUS
        <5>1. CASE m = i
          BY <2>2, <4>1, <5>1
        <5>2. CASE m \in 1..i - 1
          <6>1. PICK k \in 1..n : at[k] = m
            BY <2>3, <5>2
          <6>2. k \in 1..n + 1 /\ to[k] = m
            BY <2>2, <4>1, <6>1
          <6> QED BY <6>2
        <5> QED BY <5>1, <5>2
      <4> QED BY <4>2, <4>3, <4>4
    <3> HIDE DEF u, to
    <3>4. Picks(u, list, S, i)
      <4>1. 1..Len(u) = 1..n + 1
        BY <3>1
      <4>2. to \in [1..Len(u) -> 1..i]
        BY <3>2, <4>1
      <4>3. /\ \A k \in 1..Len(u) : u[k] = list[to[k]] /\ u[k] \in S
            /\ \A k, l \in 1..Len(u) : k < l => to[k] < to[l]
            /\ \A m \in 1..i : list[m] \in S => \E k \in 1..Len(u) : to[k] = m
        BY <3>3, <4>1
      <4> QED BY <4>2, <4>3 DEF Picks
    <3> QED BY <2>1, <2>2, <2>4, <3>1, <3>4 DEF u
  <2>5. CASE list[i] \notin S
    <3>1. at \in [1..n -> 1..i]
      BY <2>3
    <3>2. \A m \in 1..i : list[m] \in S => \E k \in 1..n : at[k] = m
      BY <2>3, <2>5
    <3>3. Picks(r, list, S, i)
      BY <2>3, <3>1, <3>2 DEF Picks, n
    <3> QED BY <2>1, <2>2, <2>5, <3>3 DEF n
  <2> QED BY <2>4, <2>5
<1> HIDE DEF Right
<1>6. Wrong = {}
  <2> SUFFICES ASSUME Wrong # {}  PROVE FALSE
    OBVIOUS
  <2>1. PICK i \in Wrong : \A m \in Wrong : i <= m
    <3>1. Wrong \in SUBSET Nat
      BY <1>1
    <3> HIDE DEF Wrong
    <3> QED BY <3>1, LeastNumber
  <2>2. i \in 1..Len(list)
    BY <1>1, <1>4
  <2>3. Right(i - 1)
    BY <1>1, <2>1, <2>2
  <2> QED BY <1>5, <2>2, <2>3
<1>7. Right(Len(list))
  BY <1>1, <1>6
<1> QED BY <1>2, <1>7 DEF Right

LEMMA OnlyInRange ==
  ASSUME NEW T, NEW list \in Seq(T), NEW S
  PROVE  Range(OnlyIn(list, S)) = Range(list) \cap S
<1> DEFINE r == OnlyIn(list, S)
<1>1. /\ r \in Seq(T) /\ Picks(r, list, S, Len(list))
  BY OnlyInPicks
<1>2. DOMAIN r = 1..Len(r) /\ DOMAIN list = 1..Len(list)
  BY <1>1, LenProperties
<1>3. PICK at \in [1..Len(r) -> 1..Len(list)] :
        /\ \A k \in 1..Len(r) : r[k] = list[at[k]] /\ r[k] \in S
        /\ \A m \in 1..Len(list) : list[m] \in S => \E k \in 1..Len(r) : at[k] = m
  BY <1>1 DEF Picks
<1> HIDE DEF r
<1>4. \A x \in Range(r) : x \in Range(list) \cap S
  BY <1>2, <1>3 DEF Range
<1>5. \A x \in Range(list) \cap S : x \in Range(r)
  BY <1>2, <1>3 DEF Range
<1> QED BY <1>4, <1>5 DEF r

-----------------------------------------------------------------------------
(* Histories.                                                              *)

\* Every return has its call before it, and no call is there twice.
Sound(ms) ==
  /\ \A i \in 1..Len(ms) : ms[i].part = "return" =>
       \E j \in 1..(i - 1) : ms[j] = [ms[i] EXCEPT !.part = "call"]
  /\ \A i, j \in 1..Len(ms) : ms[i].part = "call" /\ ms[i] = ms[j] => i = j

\* Without its empty messages a sound history is sound.
LEMMA WithPartsSound ==
  ASSUME NEW ms \in Seq(Messages), Sound(ms)
  PROVE  /\ WithParts(ms) \in Seq(Messages) /\ Len(WithParts(ms)) <= Len(ms)
         /\ Range(WithParts(ms)) \subseteq Range(ms)
         /\ Sound(WithParts(ms))
         /\ \A i \in 1..Len(WithParts(ms)) : WithParts(ms)[i].part # "empty"
<1> DEFINE S == {m \in Range(ms) : m.part # "empty"}
           r == WithParts(ms)
           n == Len(r)
<1>1. /\ r \in Seq(Messages) /\ n <= Len(ms) /\ Picks(r, ms, S, Len(ms))
      /\ Range(r) = Range(ms) \cap S
  BY OnlyInPicks, OnlyInRange DEF WithParts
<1>2. n \in Nat /\ Len(ms) \in Nat /\ DOMAIN ms = 1..Len(ms)
  BY <1>1, LenProperties
<1>3. PICK at \in [1..n -> 1..Len(ms)] :
        /\ \A k \in 1..n : r[k] = ms[at[k]] /\ r[k] \in S
        /\ \A k, l \in 1..n : k < l => at[k] < at[l]
        /\ \A m \in 1..Len(ms) : ms[m] \in S => \E k \in 1..n : at[k] = m
  BY <1>1 DEF Picks
<1>4. \A m \in 1..Len(ms) : ms[m].part # "empty" => ms[m] \in S
  BY <1>2 DEF Range
<1> HIDE DEF r, n
<1>5. \A i \in 1..n : r[i].part # "empty"
  BY <1>3
<1> HIDE DEF S
<1>6. ASSUME NEW i \in 1..n, r[i].part = "return"
      PROVE  \E j \in 1..(i - 1) : r[j] = [r[i] EXCEPT !.part = "call"]
  <2>1. PICK m \in 1..(at[i] - 1) : ms[m] = [ms[at[i]] EXCEPT !.part = "call"]
    BY <1>3, <1>6 DEF Sound
  <2>2. at[i] \in 1..Len(ms) /\ m \in 1..Len(ms) /\ m < at[i]
    BY <1>2, <1>3, <2>1
  <2>3. ms[at[i]] \in Messages
    BY <2>2
  <2>4. ms[m].part = "call"
    BY <2>1, <2>3 DEF Messages
  <2>5. PICK j \in 1..n : at[j] = m
    BY <1>3, <1>4, <2>2, <2>4
  <2>6. j < i
    BY <1>2, <1>3, <2>2, <2>5
  <2>7. r[j] = [r[i] EXCEPT !.part = "call"]
    BY <1>3, <2>1, <2>5
  <2> QED BY <1>2, <2>5, <2>6, <2>7
<1>7. ASSUME NEW i \in 1..n, NEW j \in 1..n, r[i].part = "call", r[i] = r[j]
      PROVE  i = j
  <2>1. at[i] = at[j]
    BY <1>3, <1>7 DEF Sound
  <2> QED BY <1>2, <1>3, <2>1
<1> QED BY <1>1, <1>5, <1>6, <1>7 DEF Sound, n, r, S

\* The cut that is found leaves at most the rest, and no return without a call.
LEMMA CutFound ==
  ASSUME NEW rest \in Seq(Messages), NEW ideal \in Nat, ideal <= Len(rest)
  PROVE  /\ FindValidCut(rest, ideal) \in ideal..Len(rest)
         /\ Ids(After(rest, FindValidCut(rest, ideal)), "return")
              \subseteq Ids(After(rest, FindValidCut(rest, ideal)), "call")
<1> DEFINE cuts == {k \in ideal..Len(rest) :
                      Ids(After(rest, k), "return") \subseteq Ids(After(rest, k), "call")}
<1>1. Len(rest) \in Nat
  BY LenProperties
<1>2. Len(rest) \in cuts
  <2>1. After(rest, Len(rest)) = << >>
    <3>1. \A i \in Len(rest) + 1..Len(rest) : rest[i] \in Messages
      BY <1>1
    <3>2. Len(SubSeq(rest, Len(rest) + 1, Len(rest))) = 0
          /\ SubSeq(rest, Len(rest) + 1, Len(rest)) \in Seq(Messages)
      BY <1>1, <3>1, SubSeqProperties
    <3> QED BY <3>2, EmptySeq DEF After
  <2>2. Range(<< >>) = {}
    BY DEF Range
  <2>3. Ids(After(rest, Len(rest)), "return") = {}
    BY <2>1, <2>2 DEF Ids
  <2> QED BY <1>1, <2>3
<1>3. \E k \in cuts : \A l \in cuts : k <= l
  <2>1. cuts \in SUBSET Nat
    BY <1>1
  <2> HIDE DEF cuts
  <2> QED BY <1>2, <2>1, LeastNumber
<1>4. FindValidCut(rest, ideal) \in cuts
  BY <1>3 DEF FindValidCut, Min
<1> QED BY <1>4

\* The first message and what is after the cut.
LEMMA CutSound ==
  ASSUME NEW ms \in Seq(Messages), Sound(ms), Len(ms) > MaxMessages
  PROVE  LET q == <<Head(ms)>> \o After(Tail(ms), FindValidCut(Tail(ms), Len(ms) - MaxMessages))
         IN  /\ q \in Seq(Messages) /\ Len(q) <= MaxMessages
             /\ Range(q) \subseteq Range(ms)
             /\ Sound(q)
<1> DEFINE n == Len(ms)
           rest == Tail(ms)
           cut == FindValidCut(rest, n - MaxMessages)
           tail == After(rest, cut)
           q == <<Head(ms)>> \o tail
<1>1. n \in Nat /\ MaxMessages \in Nat \ {0} /\ n > MaxMessages /\ DOMAIN ms = 1..n
  BY SessionAssumption, LenProperties
<1>2. /\ rest \in Seq(Messages) /\ Len(rest) = n - 1 /\ Head(ms) = ms[1]
      /\ \A i \in 1..n - 1 : rest[i] = ms[i + 1]
  <2>1. ms # << >>
    BY <1>1, EmptySeq
  <2> QED BY <1>1, <2>1, HeadTailProperties, EmptySeq
<1>3. /\ cut \in n - MaxMessages..n - 1
      /\ Ids(tail, "return") \subseteq Ids(tail, "call")
  <2>1. n - MaxMessages \in Nat /\ n - MaxMessages <= Len(rest)
    BY <1>1, <1>2
  <2> QED BY <1>2, <2>1, CutFound
<1> DEFINE l == n - 1 - cut
<1>4. /\ tail \in Seq(Messages) /\ Len(tail) = l
      /\ \A k \in 1..l : tail[k] = ms[1 + cut + k]
  <2> HIDE DEF rest, cut, n
  <2>1. cut \in Nat /\ n - 1 \in Nat
    BY <1>1, <1>3
  <2>2. \A i \in cut + 1..n - 1 : rest[i] \in Messages
    BY <1>2, <2>1
  <2>3. /\ SubSeq(rest, cut + 1, n - 1) \in Seq(Messages)
        /\ Len(SubSeq(rest, cut + 1, n - 1)) =
             IF cut + 1 <= n - 1 THEN n - 1 - (cut + 1) + 1 ELSE 0
        /\ \A k \in 1..n - 1 - (cut + 1) + 1 :
             SubSeq(rest, cut + 1, n - 1)[k] = rest[cut + 1 + k - 1]
    BY <2>1, <2>2, SubSeqProperties
  <2>4. tail = SubSeq(rest, cut + 1, n - 1)
    BY <1>2 DEF After
  <2>5. \A k \in 1..l : tail[k] = rest[cut + k] /\ rest[cut + k] = ms[1 + cut + k]
    BY <1>1, <1>2, <1>3, <2>1, <2>3, <2>4
  <2>6. /\ n - 1 - (cut + 1) + 1 = l
        /\ (IF cut + 1 <= n - 1 THEN n - 1 - (cut + 1) + 1 ELSE 0) = l
    BY <1>1, <1>3, <2>1
  <2>7. Len(SubSeq(rest, cut + 1, n - 1)) = l
    BY <2>3, <2>6
  <2> QED BY <2>3, <2>4, <2>5, <2>7
<1> HIDE DEF tail
<1>5. ms[1] \in Messages
  BY <1>1
<1>6. /\ q \in Seq(Messages) /\ Len(q) = 1 + l /\ q[1] = ms[1]
      /\ \A k \in 1..l : q[1 + k] = ms[1 + cut + k] /\ q[1 + k] = tail[k]
  <2>1. <<Head(ms)>> \in Seq(Messages) /\ Len(<<Head(ms)>>) = 1 /\ <<Head(ms)>>[1] = ms[1]
    BY <1>2, <1>5
  <2>2. l \in Nat
    BY <1>1, <1>3
  <2> HIDE DEF l
  <2> QED BY <1>4, <2>1, <2>2, ConcatProperties
<1> HIDE DEF n, rest, cut, q
<1> DEFINE at(i) == IF i = 1 THEN 1 ELSE cut + i
<1>7. ASSUME NEW i \in 1..1 + l
      PROVE  q[i] = ms[at(i)] /\ at(i) \in 1..n
  <2>1. CASE i = 1
    BY <1>1, <1>6, <2>1
  <2>2. CASE i # 1
    <3>1. i - 1 \in 1..l /\ 1 + (i - 1) = i /\ 1 + cut + (i - 1) = cut + i
      BY <1>1, <1>3, <2>2
    <3>2. q[1 + (i - 1)] = ms[1 + cut + (i - 1)]
      BY <1>6, <3>1
    <3> QED BY <1>1, <1>3, <2>2, <3>1, <3>2
  <2> QED BY <2>1, <2>2
<1>8. \A i, j \in 1..1 + l : at(i) < at(j) => i < j
  BY <1>1, <1>3
<1>9. \A i, j \in 1..1 + l : at(i) = at(j) => i = j
  BY <1>1, <1>3
<1>10. ASSUME NEW i \in 1..1 + l, q[i].part = "return"
       PROVE  \E j \in 1..(i - 1) : q[j] = [q[i] EXCEPT !.part = "call"]
  <2>1. PICK b \in 1..(at(i) - 1) : ms[b] = [ms[at(i)] EXCEPT !.part = "call"]
    BY <1>7, <1>10 DEF Sound, n
  <2>2. i # 1 /\ i - 1 \in 1..l
    BY <1>1, <1>3, <2>1
  <2>3. q[i] = tail[i - 1] /\ q[i] \in Messages
    <3>1. q[1 + (i - 1)] = tail[i - 1]
      BY <1>6, <2>2
    <3> QED BY <1>6, <3>1
  <2>4. <<q[i].turn, q[i].n>> \in Ids(tail, "return")
    BY <1>4, <1>10, <2>2, <2>3 DEF Ids, Range
  <2>5. PICK k \in 1..l : tail[k].part = "call" /\ tail[k].turn = q[i].turn /\ tail[k].n = q[i].n
    <3>1. <<q[i].turn, q[i].n>> \in Ids(tail, "call")
      BY <1>3, <2>4
    <3>2. PICK m \in Range(tail) : m.part = "call" /\ <<q[i].turn, q[i].n>> = <<m.turn, m.n>>
      BY <3>1 DEF Ids
    <3>3. PICK k \in DOMAIN tail : tail[k] = m
      BY <3>2 DEF Range
    <3>4. DOMAIN tail = 1..l
      BY <1>4, LenProperties
    <3> QED BY <3>2, <3>3, <3>4
  <2>6. q[1 + k] = tail[k] /\ q[1 + k] \in Messages /\ 1 + k \in 1..1 + l
    BY <1>3, <1>4, <1>6, <2>5
  <2>7. q[1 + k] = [q[i] EXCEPT !.part = "call"]
    BY <2>3, <2>5, <2>6 DEF Messages
  <2>8. ms[at(1 + k)] = ms[b] /\ ms[at(1 + k)].part = "call"
    BY <1>7, <2>1, <2>5, <2>6, <2>7
  <2>9. at(1 + k) = b
    <3>1. b \in 1..n /\ at(1 + k) \in 1..n
      BY <1>1, <1>7, <2>1, <2>6
    <3> HIDE DEF at
    <3> QED BY <2>8, <3>1 DEF Sound, n
  <2>10. 1 + k < i
    BY <1>1, <1>7, <1>8, <2>1, <2>6, <2>9
  <2> QED BY <2>6, <2>7, <2>10
<1>11. ASSUME NEW i \in 1..1 + l, NEW j \in 1..1 + l, q[i].part = "call", q[i] = q[j]
       PROVE  i = j
  <2>1. at(i) = at(j)
    BY <1>7, <1>11 DEF Sound, n
  <2> QED BY <1>9, <2>1
<1>12. Sound(q)
  BY <1>6, <1>10, <1>11 DEF Sound
<1>13. Range(q) \subseteq Range(ms)
  BY <1>1, <1>6, <1>7 DEF Range
<1>14. Len(q) <= MaxMessages
  BY <1>1, <1>3, <1>6
<1> QED BY <1>6, <1>12, <1>13, <1>14 DEF q, tail, cut, rest, n

\* So trimming keeps a history sound and within the cap, and invents nothing.
LEMMA TrimSound ==
  ASSUME NEW ms \in Seq(Messages), Sound(ms)
  PROVE  /\ TrimHistory(ms) \in Seq(Messages) /\ Len(TrimHistory(ms)) <= MaxMessages
         /\ Range(TrimHistory(ms)) \subseteq Range(ms)
         /\ Sound(TrimHistory(ms))
         /\ \A i \in 1..Len(TrimHistory(ms)) : TrimHistory(ms)[i].part # "empty"
<1>1. Len(ms) \in Nat /\ MaxMessages \in Nat
  BY SessionAssumption, LenProperties
<1>2. CASE Len(ms) <= MaxMessages
  <2>1. TrimHistory(ms) = WithParts(ms)
    BY <1>2 DEF TrimHistory
  <2>2. Len(WithParts(ms)) \in Nat
    BY WithPartsSound, LenProperties
  <2> QED BY <1>1, <1>2, <2>1, <2>2, WithPartsSound
<1>3. CASE Len(ms) > MaxMessages
  <2> DEFINE q == <<Head(ms)>> \o After(Tail(ms), FindValidCut(Tail(ms), Len(ms) - MaxMessages))
  <2>1. /\ q \in Seq(Messages) /\ Len(q) <= MaxMessages
        /\ Range(q) \subseteq Range(ms) /\ Sound(q)
    BY <1>3, CutSound
  <2>2. TrimHistory(ms) = WithParts(q)
    BY <1>1, <1>3 DEF TrimHistory
  <2> HIDE DEF q
  <2>3. Len(WithParts(q)) \in Nat /\ Len(q) \in Nat
    BY <2>1, WithPartsSound, LenProperties
  <2> QED BY <1>1, <2>1, <2>2, <2>3, WithPartsSound
<1> QED BY <1>1, <1>2, <1>3

-----------------------------------------------------------------------------
(* The sessions the store in memory holds.                                 *)

\* What the store in memory keeps of the sessions it holds.
Indexed ==
  /\ lastAccess \in Seq(Sessions)
  /\ DOMAIN store = Sessions
  /\ ~redis => /\ IsFiniteSet(Held(store)) /\ Cardinality(Held(store)) <= MaxSessions
               /\ Held(store) \subseteq Range(lastAccess)
               /\ Range(lastAccess) = locks

\* The touched session comes last and nowhere else.
LEMMA Touched ==
  ASSUME lastAccess \in Seq(Sessions), NEW s \in Sessions
  PROVE  /\ Touch(s) \in Seq(Sessions)
         /\ Range(Touch(s)) = Range(lastAccess) \cup {s}
         /\ Len(Touch(s)) \in Nat \ {0}
         /\ \A i \in 1..Len(Touch(s)) : Touch(s)[i] = s => i = Len(Touch(s))
<1> DEFINE r == OnlyIn(lastAccess, Sessions \ {s})
<1>1. r \in Seq(Sessions) /\ Range(r) = Range(lastAccess) \cap (Sessions \ {s})
  BY OnlyInPicks, OnlyInRange
<1>2. Range(lastAccess) \subseteq Sessions
  BY LenProperties DEF Range
<1>3. Len(r) \in Nat /\ DOMAIN r = 1..Len(r)
  BY <1>1, LenProperties
<1> DEFINE u == Append(r, s)
<1>4. /\ u \in Seq(Sessions) /\ Len(u) = Len(r) + 1 /\ u[Len(r) + 1] = s
      /\ \A i \in 1..Len(r) : u[i] = r[i]
      /\ DOMAIN u = 1..Len(u)
  BY <1>1, <1>3, AppendProperties, LenProperties
<1>5. Touch(s) = u
  BY DEF Touch
<1> HIDE DEF u, r
<1>6. \A i \in 1..Len(r) : r[i] \in Range(r) /\ r[i] # s
  <2>1. \A i \in 1..Len(r) : r[i] \in Range(r)
    BY <1>3 DEF Range
  <2> QED BY <1>1, <2>1
<1>7. \A i \in 1..Len(u) : u[i] = s => i = Len(u)
  BY <1>3, <1>4, <1>6
<1>8. Range(u) = Range(r) \cup {s}
  <2>1. \A x \in Range(u) : x \in Range(r) \cup {s}
    BY <1>3, <1>4 DEF Range
  <2>2. Len(r) + 1 \in DOMAIN u /\ \A i \in DOMAIN r : i \in DOMAIN u /\ u[i] = r[i]
    BY <1>3, <1>4
  <2>3. \A x \in Range(r) \cup {s} : x \in Range(u)
    BY <1>4, <2>2 DEF Range
  <2> QED BY <2>1, <2>3
<1>9. Range(u) = Range(lastAccess) \cup {s}
  BY <1>1, <1>2, <1>8
<1> QED BY <1>3, <1>4, <1>5, <1>7, <1>9

\* The session to evict is a held one, and no held one is before it.
LEMMA OldestHeld ==
  ASSUME NEW st, NEW order \in Seq(Sessions), Held(st) \cap Range(order) # {}
  PROVE  \E i \in 1..Len(order) :
           /\ Oldest(st, order) = order[i] /\ order[i] \in Held(st)
           /\ \A j \in 1..Len(order) : order[j] \in Held(st) => i <= j
<1> DEFINE at == {i \in 1..Len(order) : order[i] \in Held(st)}
<1>1. DOMAIN order = 1..Len(order) /\ Len(order) \in Nat
  BY LenProperties
<1>2. at # {} /\ at \in SUBSET Nat
  BY <1>1 DEF Range
<1>3. \E i \in at : \A j \in at : i <= j
  <2> HIDE DEF at
  <2> QED BY <1>2, LeastNumber
<1>4. Min(at) \in at /\ \A j \in at : Min(at) <= j
  BY <1>3 DEF Min
<1> QED BY <1>4 DEF Oldest

\* A save evicts none but another session, and keeps the store within its cap.
LEMMA SavedHistory ==
  ASSUME Indexed, NEW s \in Sessions, NEW ms, SaveHistory(s, ms)
  PROVE  /\ Indexed'
         /\ \E gone \in SUBSET Sessions :
              /\ s \notin gone
              /\ store' = Forget([store EXCEPT ![s] = TrimHistory(ms)], gone)
<1> DEFINE st == [store EXCEPT ![s] = TrimHistory(ms)]
           order == Touch(s)
<1>1. DOMAIN st = Sessions /\ \A u \in Sessions \ {s} : st[u] = store[u]
  BY DEF Indexed
<1>2. Held(st) \subseteq Held(store) \cup {s}
  BY <1>1 DEF Held
<1> HIDE DEF st
<1>3. /\ order \in Seq(Sessions) /\ Range(order) = Range(lastAccess) \cup {s}
      /\ Len(order) \in Nat \ {0}
      /\ \A i \in 1..Len(order) : order[i] = s => i = Len(order)
  BY Touched DEF Indexed
<1> HIDE DEF order
<1>4. CASE redis
  <2>1. store' = Forget(st, {}) /\ UNCHANGED <<lastAccess, locks, redis>>
    BY <1>4 DEF SaveHistory, st
  <2>2. Indexed'
    BY <1>4, <2>1 DEF Indexed, Forget
  <2> QED BY <2>1, <2>2 DEF st
<1>5. CASE ~redis
  <2>1. PICK gone : gone = Victims(st, order)
    OBVIOUS
  <2>2. /\ store' = Forget(st, gone)
        /\ lastAccess' = OnlyIn(order, Sessions \ gone)
        /\ locks' = (locks \cup {s}) \ gone /\ redis' = redis
    BY <1>5, <2>1 DEF SaveHistory, st, order, LocksAfter
  <2>3. /\ IsFiniteSet(Held(store)) /\ Cardinality(Held(store)) <= MaxSessions
        /\ Held(store) \subseteq Range(lastAccess) /\ Range(lastAccess) = locks
    BY <1>5 DEF Indexed
  <2>4. IsFiniteSet(Held(st)) /\ Cardinality(Held(st)) <= MaxSessions + 1
    <3>1. IsFiniteSet(Held(store) \cup {s}) /\ Cardinality(Held(store)) \in Nat
          /\ Cardinality(Held(store) \cup {s}) <= Cardinality(Held(store)) + 1
      <4>1. /\ IsFiniteSet(Held(store) \cup {s})
            /\ Cardinality(Held(store) \cup {s}) =
                 IF s \in Held(store) THEN Cardinality(Held(store)) ELSE Cardinality(Held(store)) + 1
        BY <2>3, FS_AddElement
      <4>2. Cardinality(Held(store)) \in Nat
        BY <2>3, FS_CardinalityType
      <4> QED BY <4>1, <4>2
    <3>2. IsFiniteSet(Held(st)) /\ Cardinality(Held(st)) <= Cardinality(Held(store) \cup {s})
      BY <1>2, <3>1, FS_Subset
    <3>3. Cardinality(Held(st)) \in Nat /\ Cardinality(Held(store) \cup {s}) \in Nat
      BY <3>1, <3>2, FS_CardinalityType
    <3> QED BY <2>3, <3>1, <3>2, <3>3, SessionAssumption
  <2>5. Cardinality(Held(st)) \in Nat /\ MaxSessions \in Nat \ {0}
    BY <2>4, FS_CardinalityType, SessionAssumption
  <2>6. /\ gone \subseteq Held(st) /\ s \notin gone
        /\ IsFiniteSet(Held(st) \ gone) /\ Cardinality(Held(st) \ gone) <= MaxSessions
    <3>1. CASE Cardinality(Held(st)) > MaxSessions
      <4>1. gone = {Oldest(st, order)}
        BY <2>1, <3>1 DEF Victims
      <4>2. \E u \in Held(st) : u # s
        <5> SUFFICES ASSUME Held(st) \subseteq {s} PROVE FALSE
          OBVIOUS
        <5>1. IsFiniteSet({s}) /\ Cardinality({s}) = 1
          BY FS_Singleton
        <5>2. Cardinality(Held(st)) <= 1
          BY <5>1, FS_Subset
        <5> QED BY <2>5, <3>1, <5>2
      <4>3. PICK u \in Held(st) : u # s
        BY <4>2
      <4>4. u \in Range(order) /\ u \in Sessions
        BY <1>2, <1>3, <2>3, <4>3 DEF Held
      <4>5. PICK i \in 1..Len(order) :
              /\ Oldest(st, order) = order[i] /\ order[i] \in Held(st)
              /\ \A j \in 1..Len(order) : order[j] \in Held(st) => i <= j
        BY <1>3, <4>3, <4>4, OldestHeld
      <4>6. PICK j \in 1..Len(order) : order[j] = u
        BY <1>3, <4>4, LenProperties DEF Range
      <4>7. order[i] # s
        BY <1>3, <4>3, <4>5, <4>6
      <4>8. /\ IsFiniteSet(Held(st) \ {order[i]})
            /\ Cardinality(Held(st) \ {order[i]}) = Cardinality(Held(st)) - 1
        BY <2>4, <4>5, FS_RemoveElement
      <4> QED BY <2>4, <2>5, <4>1, <4>5, <4>7, <4>8
    <3>2. CASE ~ (Cardinality(Held(st)) > MaxSessions)
      <4>1. gone = {} /\ Held(st) \ gone = Held(st)
        BY <2>1, <3>2 DEF Victims
      <4> QED BY <2>4, <2>5, <3>2, <4>1
    <3> QED BY <3>1, <3>2
  <2>7. Held(store') = Held(st) \ gone /\ DOMAIN store' = Sessions
    BY <2>2 DEF Held, Forget
  <2>8. /\ lastAccess' \in Seq(Sessions)
        /\ Range(lastAccess') = (Range(lastAccess) \cup {s}) \cap (Sessions \ gone)
    BY <1>3, <2>2, OnlyInPicks, OnlyInRange
  <2>9. Range(lastAccess) \subseteq Sessions
    BY LenProperties DEF Indexed, Range
  <2>10. /\ Range(lastAccess') = locks' /\ Held(store') \subseteq Range(lastAccess')
    <3>1. Held(st) \subseteq Sessions
      BY DEF Held
    <3> QED BY <1>2, <2>2, <2>3, <2>7, <2>8, <2>9, <3>1
  <2>11. Indexed'
    BY <2>2, <2>6, <2>7, <2>8, <2>10, <1>5 DEF Indexed
  <2>12. gone \in SUBSET Sessions
    BY <2>6 DEF Held
  <2> QED BY <2>2, <2>6, <2>11, <2>12 DEF st
<1> QED BY <1>4, <1>5 DEF Indexed

LEMMA ReadHistory ==
  ASSUME Indexed, NEW s \in Sessions, GetHistory(s)
  PROVE  Indexed'
<1>1. CASE redis
  BY <1>1 DEF GetHistory, Indexed, Held
<1>2. CASE ~redis
  <2>1. lastAccess' = Touch(s) /\ locks' = locks \cup {s} /\ UNCHANGED <<redis, store>>
    BY <1>2 DEF GetHistory
  <2>2. /\ lastAccess' \in Seq(Sessions)
        /\ Range(lastAccess') = Range(lastAccess) \cup {s}
    BY <2>1, Touched DEF Indexed
  <2>3. Held(store') = Held(store)
    BY <2>1
  <2> QED BY <1>2, <2>1, <2>2, <2>3 DEF Indexed
<1> QED BY <1>1, <1>2

LEMMA ExpiredHistories ==
  ASSUME Indexed, NEW gone \in SUBSET Sessions, Expire(gone)
  PROVE  Indexed'
<1>1. /\ store' = Forget(store, gone) /\ DOMAIN store' = Sessions /\ redis' = redis
      /\ Held(store') = Held(store) \ gone
  BY DEF Expire, Held, Forget
<1>2. CASE redis
  BY <1>1, <1>2 DEF Expire, Indexed
<1>3. CASE ~redis
  <2>1. /\ IsFiniteSet(Held(store)) /\ Cardinality(Held(store)) <= MaxSessions
        /\ Held(store) \subseteq Range(lastAccess) /\ Range(lastAccess) = locks
        /\ lastAccess \in Seq(Sessions)
    BY <1>3 DEF Indexed
  <2>2. lastAccess' = OnlyIn(lastAccess, Sessions \ gone) /\ locks' = locks \ gone
    BY <1>3 DEF Expire
  <2>3. /\ lastAccess' \in Seq(Sessions)
        /\ Range(lastAccess') = Range(lastAccess) \cap (Sessions \ gone)
    BY <2>1, <2>2, OnlyInPicks, OnlyInRange
  <2>4. Range(lastAccess) \subseteq Sessions
    BY <2>1, LenProperties DEF Range
  <2>5. /\ IsFiniteSet(Held(store')) /\ Cardinality(Held(store')) <= Cardinality(Held(store))
    BY <1>1, <2>1, FS_Subset
  <2>6. Cardinality(Held(store')) \in Nat /\ Cardinality(Held(store)) \in Nat /\ MaxSessions \in Nat
    BY <2>1, <2>5, FS_CardinalityType, SessionAssumption
  <2>7. Held(store') \subseteq Range(lastAccess') /\ Range(lastAccess') = locks'
    BY <1>1, <2>1, <2>2, <2>3, <2>4
  <2> QED BY <1>1, <2>1, <2>3, <2>5, <2>6, <2>7 DEF Indexed
<1> QED BY <1>2, <1>3

-----------------------------------------------------------------------------
(* What a step does to the runs and the store: a turn begins, its run goes *)
(* on or is over, its messages are saved, sessions expire.                 *)

Begun(t) == run[t].stage # "none"
Reading(t) == run[t].stage \in {"request", "tool", "ended"}

StoreStill == UNCHANGED <<sessionVars, issued, session, ghostVars>>

Begins(t, s) ==
  /\ ~Begun(t) /\ Owner[s] = PrincipalOf[t]
  /\ session' = [session EXCEPT ![t] = s]
  /\ Ran(t, run'[t]) /\ run'[t].stage = "request" /\ run'[t].requests = run[t].requests
  /\ UNCHANGED ghostVars
  /\ \/ /\ s \in issued /\ issued' = issued /\ GetHistory(s)
        /\ run'[t].messages = Append(History(s), Message(t, "prompt", 0))
     \/ /\ s \notin issued /\ issued' = issued \cup {s} /\ UNCHANGED sessionVars
        /\ run'[t].messages = Append(<< >>, Message(t, "prompt", 0))

GoesOn(t) ==
  /\ Ran(t, run'[t])
  /\ \/ \E part \in {"text", "call", "empty"} :
          /\ run[t].stage = "request" /\ run'[t].stage = StageAfter[part]
          /\ run'[t].requests = run[t].requests + 1
          /\ run'[t].messages = Append(run[t].messages, Message(t, part, run[t].requests))
     \/ /\ run[t].stage = "tool" /\ run'[t].stage = "request"
        /\ run'[t].requests = run[t].requests
        /\ run'[t].messages = Append(run[t].messages, Message(t, "return", run[t].requests - 1))

IsOver(t) ==
  /\ Ran(t, run'[t]) /\ Begun(t)
  /\ run'[t].stage \notin {"none", "request", "tool", "ended"}
  /\ run'[t].requests \in {0, run[t].requests}

Saves(t) ==
  /\ run[t].stage = "ended" /\ IsOver(t)
  /\ Record(t, run[t].messages)
  /\ UNCHANGED <<issued, session>>

Expires(gone) ==
  /\ Expire(gone)
  /\ forgotten' = forgotten \cup UNION {TurnsIn(History(s)) : s \in gone}
  /\ UNCHANGED <<run, issued, session, saved, rivals>>

LEMMA OverRun ==
  ASSUME Conduct, NEW t \in Turns, Begun(t),
         NEW stage \in Stages \ {"none", "request", "tool", "ended"}, EndRun(t, stage)
  PROVE  IsOver(t)
<1>1. /\ DOMAIN run = Turns /\ DOMAIN run[t] = RunFields
      /\ Ran(t, run'[t]) /\ run'[t].stage = stage
  BY EndedRun DEF Conduct, Shape
<1>2. run'[t].requests = 0
  BY <1>1 DEF EndRun, Released, RunFields
<1> QED BY <1>1, <1>2 DEF IsOver

LEMMA LoopStep ==
  ASSUME Conduct, NEW t \in Turns, RunStep(t)
  PROVE  StoreStill /\ (GoesOn(t) \/ IsOver(t))
<1>1. StoreStill
  BY DEF RunStep, StoreStill, requestVars
<1>2. /\ DOMAIN run = Turns /\ DOMAIN run[t] = RunFields
      /\ run[t].stage \in {"request", "tool"} /\ Begun(t)
      /\ run[t].reason = "none" /\ run[t].audit = << >>
  BY DEF RunStep, AskModel, CallTool, RunFails, Conduct, Shape, Begun, Outcome
<1>3. ASSUME NEW reason, Exceeded(t, reason, t \notin Streams) \/ (Refused(t) /\ reason = "budget_exceeded")
      PROVE  IsOver(t)
  <2>1. PICK records \in {<< >>, <<reason>>} :
          run' = [run EXCEPT ![t] = Stopped(run[t], reason, records)]
    BY <1>2, <1>3 DEF Exceeded, Refused
  <2>2. Ran(t, run'[t]) /\ run'[t].stage = "stopped"
    BY <1>2, <2>1, StoppedRun DEF Conduct
  <2>3. run'[t].requests = 0
    BY <1>2, <2>1 DEF Stopped, Released, RunFields
  <2> QED BY <1>2, <2>2, <2>3 DEF IsOver
<1>4. ASSUME NEW part \in {"text", "call", "empty"}, NEW cost, run[t].stage = "request",
             run' = [run EXCEPT ![t] = Answered(run[t], t, part, cost)]
      PROVE  GoesOn(t)
  <2>1. /\ Ran(t, run'[t]) /\ run'[t].stage = StageAfter[part]
        /\ run'[t].requests = run[t].requests + 1
        /\ run'[t].messages = Append(run[t].messages, Message(t, part, run[t].requests))
    BY <1>2, <1>4 DEF Answered, Ran, RunFields
  <2> QED BY <1>4, <2>1 DEF GoesOn
<1>5. CASE AskModel(t, t \notin Streams)
  BY <1>1, <1>2, <1>3, <1>4, <1>5 DEF AskModel
<1>6. CASE CallTool(t, t \notin Streams)
  <2>1. CASE ~ (run[t].calls >= ToolCallLimit) /\ ~ (run[t].tokens >= TokenLimit)
    <3>1. /\ Ran(t, run'[t]) /\ run'[t].stage = "request"
          /\ run'[t].requests = run[t].requests
          /\ run'[t].messages = Append(run[t].messages, Message(t, "return", run[t].requests - 1))
      BY <1>2, <1>6, <2>1 DEF CallTool, Ran, RunFields
    <3> QED BY <1>1, <1>6, <3>1 DEF GoesOn, CallTool
  <2>2. CASE run[t].calls >= ToolCallLimit \/ run[t].tokens >= TokenLimit
    BY <1>1, <1>3, <1>6, <2>2 DEF CallTool
  <2> QED BY <2>1, <2>2
<1>7. CASE RunFails(t)
  BY <1>1, <1>2, <1>7, OverRun DEF RunFails, Stages
<1> QED BY <1>5, <1>6, <1>7 DEF RunStep

LEMMA StageStep ==
  ASSUME Conduct, NEW t \in Turns, Begun(t), NEW stage \in {"landed", "saved", "unsaved"}, Stage(t, stage)
  PROVE  IsOver(t)
<1>1. DOMAIN run = Turns /\ DOMAIN run[t] = RunFields
  BY DEF Conduct, Shape
<1>2. CASE t \in Streams /\ stage # "landed"
  BY <1>2, OverRun DEF Stage, Stages
<1>3. CASE ~ (t \in Streams /\ stage # "landed")
  <2>1. run' = [run EXCEPT ![t].stage = stage]
    BY <1>3 DEF Stage
  <2>2. Ran(t, run'[t]) /\ run'[t].stage = stage /\ run'[t].requests = run[t].requests
    BY <1>1, <2>1 DEF Ran, RunFields
  <2> QED BY <2>2 DEF IsOver
<1> QED BY <1>2, <1>3

LEMMA BeginStep ==
  ASSUME Conduct, NEW t \in Turns, NEW s \in Sessions, Continue(t, s) \/ StartSession(t, s)
  PROVE  Begins(t, s)
<1>1. /\ status[t] = "new" /\ Owner[s] = PrincipalOf[t]
      /\ session' = [session EXCEPT ![t] = s] /\ UNCHANGED ghostVars
      /\ \/ s \in issued /\ issued' = issued /\ GetHistory(s) /\ BeginRun(t, History(s))
         \/ s \notin issued /\ issued' = issued \cup {s} /\ UNCHANGED sessionVars /\ BeginRun(t, << >>)
  BY DEF Continue, StartSession, Start, Authorized
<1>2. DOMAIN run = Turns /\ DOMAIN run[t] = RunFields /\ ~Begun(t)
  BY <1>1 DEF Conduct, Shape, Standing, Begun
<1>3. ASSUME NEW history, BeginRun(t, history)
      PROVE  /\ Ran(t, run'[t]) /\ run'[t].stage = "request" /\ run'[t].requests = run[t].requests
             /\ run'[t].messages = Append(history, Message(t, "prompt", 0))
  BY <1>2, <1>3 DEF BeginRun, Ran, RunFields
<1> QED BY <1>1, <1>2, <1>3 DEF Begins

LEMMA Kinds ==
  ASSUME Conduct, [Next]_vars
  PROVE  \/ UNCHANGED run /\ StoreStill
         \/ \E gone \in SUBSET Sessions : Expires(gone)
         \/ \E t \in Turns :
              \/ \E s \in Sessions : Begins(t, s)
              \/ StoreStill /\ (GoesOn(t) \/ IsOver(t))
              \/ Saves(t)
<1>1. CASE UNCHANGED vars
  BY <1>1 DEF vars, StoreStill, requestVars
<1>2. CASE SessionsExpire
  BY <1>2 DEF SessionsExpire, Expires, requestVars
<1>3. ASSUME NEW t \in Turns, Turn(t)
      PROVE  \/ UNCHANGED run /\ StoreStill
             \/ \E s \in Sessions : Begins(t, s)
             \/ StoreStill /\ (GoesOn(t) \/ IsOver(t))
             \/ Saves(t)
  <2>1. /\ Shape /\ Standing(t) /\ DOMAIN run = Turns
        /\ Open(t) => Begun(t)
    BY DEF Conduct, Shape, Standing, Open, Begun
  <2>2. CASE \E s \in Sessions : Continue(t, s) \/ StartSession(t, s)
    BY <2>2, BeginStep
  <2>3. CASE Forbidden(t) \/ LoadFails(t)
    BY <2>3 DEF Forbidden, LoadFails, Refuse, StoreStill
  <2>4. CASE RunStep(t)
    BY <2>4, LoopStep
  <2>5. CASE Save(t)
    <3>1. Begun(t) /\ \E stage \in {"landed", "saved"} : Stage(t, stage)
      BY <2>1, <2>5 DEF Save
    <3> QED BY <2>5, <3>1, StageStep DEF Save, Saves, Completed, requestVars
  <2>6. CASE SaveReturns(t)
    <3>1. Begun(t) /\ \E stage \in {"saved", "unsaved"} : Stage(t, stage)
      BY <2>1, <2>6 DEF SaveReturns
    <3> QED BY <2>6, <3>1, StageStep DEF SaveReturns, StoreStill, requestVars
  <2>7. CASE Reply(t) \/ ChatTimesOut(t)
    <3>1. StoreStill
      BY <2>7 DEF Reply, ChatTimesOut, Answer, StoreStill
    <3>2. Begun(t) /\ \E stage \in Stages \ {"none", "request", "tool", "ended"} : EndRun(t, stage)
      BY <2>1, <2>7 DEF Reply, ChatTimesOut, Stages
    <3> QED BY <3>1, <3>2, OverRun
  <2>8. CASE Consume(t)
    <3>1. CASE Cleanup(t)
      <4>1. Begun(t)
        BY <2>1, <3>1 DEF Cleanup, At, Standing, Open
      <4>2. /\ EndProducer(t) /\ UNCHANGED <<issued, session>>
        BY <3>1 DEF Cleanup
      <4>3. CASE ~Running(t)
        <5>1. run[t].stage \in Stages \ {"none", "request", "tool", "ended"}
          BY <2>1, <4>1, <4>3 DEF Shape, Running, Begun
        <5>2. EndRun(t, run[t].stage) /\ UNCHANGED <<sessionVars, ghostVars>>
          BY <4>2, <4>3 DEF EndProducer, Running, Completed
        <5> QED BY <4>1, <4>2, <5>1, <5>2, OverRun DEF StoreStill
      <4>4. CASE Running(t)
        <5>1. IsOver(t)
          BY <4>1, <4>2, <4>4, OverRun DEF EndProducer, Stages
        <5> QED BY <4>2, <4>4, <5>1 DEF EndProducer, StoreStill, Saves, Completed
      <4> QED BY <4>3, <4>4
    <3>2. CASE ~Cleanup(t)
      BY <2>8, <3>2 DEF Consume, Disconnect, Wait, Get, GetTimesOut, ReadOn, Leave,
                        ConsumerOnly, StoreStill, requestVars
    <3> QED BY <3>1, <3>2
  <2>9. CASE ProducerEnds(t)
    BY <2>9 DEF ProducerEnds, StoreStill, requestVars
  <2> QED BY <1>3, <2>2, <2>3, <2>4, <2>5, <2>6, <2>7, <2>8, <2>9 DEF Turn
<1> QED BY <1>1, <1>2, <1>3 DEF Next

-----------------------------------------------------------------------------
(* Histories and the messages of the runs.  A run takes the history of its *)
(* session, of earlier turns of that session, and appends to it: a call    *)
(* with a number of its own, a return after its call.  A save trims what   *)
(* it stores, and trimming keeps all that.                                 *)

Of(x, s) == x \in Turns /\ Begun(x) /\ session[x] = s

Bound(s) ==
  /\ Sound(store[s]) /\ Len(store[s]) <= MaxMessages
  /\ \A i \in 1..Len(store[s]) : store[s][i].part # "empty"
  /\ \A x \in TurnsIn(store[s]) : Of(x, s)

Telling(t) ==
  LET r == run[t] IN
  /\ r.messages \in Seq(Messages) /\ Sound(r.messages)
  /\ t \in TurnsIn(r.messages)
  /\ \A x \in TurnsIn(r.messages) : Of(x, session[t])
  /\ \A m \in Range(r.messages) : m.turn = t /\ m.part = "call" => m.n < r.requests
  /\ r.stage = "tool" => r.requests >= 1 /\ Message(t, "call", r.requests - 1) \in Range(r.messages)

Chapters ==
  /\ store \in [Sessions -> Seq(Messages) \cup {NoHistory}]
  /\ DOMAIN session = Turns
  /\ saved \subseteq Turns
  /\ \A t \in saved : Begun(t)
  /\ \A t \in Turns :
       /\ run[t].requests \in Nat
       /\ Begun(t) => /\ session[t] \in Sessions \cap issued
                      /\ PrincipalOf[t] = Owner[session[t]]
       /\ Reading(t) => Telling(t)
  /\ \A s \in Held(store) : Bound(s)

LEMMA MessageAdded ==
  ASSUME NEW ms \in Seq(Messages), Sound(ms), NEW m \in Messages,
         m.part = "return" => [m EXCEPT !.part = "call"] \in Range(ms),
         m.part = "call" => m \notin Range(ms)
  PROVE  /\ Append(ms, m) \in Seq(Messages) /\ Sound(Append(ms, m))
         /\ Range(Append(ms, m)) = Range(ms) \cup {m}
<1> DEFINE q == Append(ms, m)
<1>1. Len(ms) \in Nat /\ DOMAIN ms = 1..Len(ms)
  BY LenProperties
<1>2. /\ q \in Seq(Messages) /\ Len(q) = Len(ms) + 1 /\ q[Len(ms) + 1] = m
      /\ \A i \in 1..Len(ms) : q[i] = ms[i]
      /\ DOMAIN q = 1..Len(q)
  BY <1>1, AppendProperties, LenProperties
<1> HIDE DEF q
<1>3. Range(q) = Range(ms) \cup {m}
  <2>1. \A x \in Range(q) : x \in Range(ms) \cup {m}
    BY <1>1, <1>2 DEF Range
  <2>2. Len(ms) + 1 \in DOMAIN q /\ \A i \in DOMAIN ms : i \in DOMAIN q /\ q[i] = ms[i]
    BY <1>1, <1>2
  <2>3. \A x \in Range(ms) \cup {m} : x \in Range(q)
    BY <1>2, <2>2 DEF Range
  <2> QED BY <2>1, <2>3
<1>4. ASSUME NEW i \in 1..Len(q), q[i].part = "return"
      PROVE  \E j \in 1..(i - 1) : q[j] = [q[i] EXCEPT !.part = "call"]
  <2>1. CASE i = Len(ms) + 1
    <3>1. PICK j \in 1..Len(ms) : ms[j] = [m EXCEPT !.part = "call"]
      BY <1>1, <1>2, <1>4, <2>1 DEF Range
    <3>2. j \in 1..(i - 1) /\ q[j] = ms[j] /\ q[i] = m
      BY <1>1, <1>2, <2>1
    <3> QED BY <3>1, <3>2
  <2>2. CASE i \in 1..Len(ms)
    <3>1. PICK j \in 1..(i - 1) : ms[j] = [ms[i] EXCEPT !.part = "call"]
      BY <1>2, <1>4, <2>2 DEF Sound
    <3>2. j \in 1..Len(ms)
      BY <1>1, <2>2
    <3> QED BY <1>2, <2>2, <3>1, <3>2
  <2>3. i = Len(ms) + 1 \/ i \in 1..Len(ms)
    BY <1>1, <1>2
  <2> QED BY <2>1, <2>2, <2>3
<1>5. ASSUME NEW i \in 1..Len(q), NEW j \in 1..Len(q), q[i].part = "call", q[i] = q[j]
      PROVE  i = j
  <2>1. \A k \in 1..Len(ms) : q[k] = ms[k] /\ ms[k] \in Range(ms)
    BY <1>1, <1>2 DEF Range
  <2>2. CASE i \in 1..Len(ms) /\ j \in 1..Len(ms)
    BY <1>5, <2>1, <2>2 DEF Sound
  <2>3. CASE i = Len(ms) + 1 \/ j = Len(ms) + 1
    BY <1>1, <1>2, <1>5, <2>1, <2>3
  <2> QED BY <1>1, <1>2, <2>2, <2>3
<1> QED BY <1>2, <1>3, <1>4, <1>5 DEF Sound, q

LEMMA HistoryTold ==
  ASSUME Chapters, NEW s \in Sessions
  PROVE  /\ History(s) \in Seq(Messages) /\ Sound(History(s))
         /\ \A x \in TurnsIn(History(s)) : Of(x, s)
<1>1. CASE store[s] = NoHistory
  <2>1. History(s) = << >> /\ << >> \in Seq(Messages) /\ Len(<< >>) = 0 /\ Range(<< >>) = {}
    BY <1>1, EmptySeq DEF History, Range
  <2> QED BY <2>1 DEF Sound, TurnsIn
<1>2. CASE store[s] # NoHistory
  BY <1>2 DEF Chapters, History, Held, Bound
<1> QED BY <1>1, <1>2

LEMMA ChaptersInit == Init => Chapters
<1> SUFFICES ASSUME Init PROVE Chapters
  OBVIOUS
<1>1. /\ store = [s \in Sessions |-> NoHistory] /\ saved = {}
      /\ session = [t \in Turns |-> NoSession] /\ run = [t \in Turns |-> NewRun]
  BY DEF Init, SessionInit, RunInit
<1>2. Held(store) = {}
  BY <1>1 DEF Held
<1>3. \A t \in Turns : run[t].requests = 0 /\ ~Begun(t) /\ ~Reading(t)
  BY <1>1 DEF NewRun, Begun, Reading
<1> QED BY <1>1, <1>2, <1>3 DEF Chapters

\* A step of one turn leaves the others their messages.
LEMMA OthersTell ==
  ASSUME Chapters, NEW t \in Turns,
         \A u \in Turns \ {t} : run'[u] = run[u] /\ session'[u] = session[u],
         Begun(t) => Begun(t)' /\ session'[t] = session[t]
  PROVE  /\ \A x, s : Of(x, s) => Of(x, s)'
         /\ \A u \in Turns \ {t} : (Reading(u) <=> Reading(u)') /\ (Reading(u) => Telling(u)')
         /\ \A s \in Sessions : Bound(s) /\ store'[s] = store[s] => Bound(s)'
<1>1. \A x, s : Of(x, s) => Of(x, s)'
  BY DEF Of, Begun
<1>2. ASSUME NEW u \in Turns \ {t}
      PROVE  (Reading(u) <=> Reading(u)') /\ (Reading(u) => Telling(u)')
  <2>1. run'[u] = run[u] /\ session'[u] = session[u]
    OBVIOUS
  <2>2. Reading(u) <=> Reading(u)'
    BY <2>1 DEF Reading
  <2>3. Telling(u) => Telling(u)'
    BY <1>1, <2>1 DEF Telling
  <2> QED BY <2>2, <2>3 DEF Chapters
<1>3. ASSUME NEW s \in Sessions, Bound(s), store'[s] = store[s]
      PROVE  Bound(s)'
  BY <1>1, <1>3 DEF Bound
<1> QED BY <1>1, <1>2, <1>3

LEMMA BeginsTelling ==
  ASSUME Chapters, NEW t \in Turns, NEW s \in Sessions, Begins(t, s)
  PROVE  Telling(t)' /\ Begun(t)' /\ session'[t] = s
<1>1. /\ session'[t] = s /\ Begun(t)' /\ ~Begun(t)
      /\ run'[t].stage = "request" /\ run'[t].requests = run[t].requests
      /\ \A u \in Turns \ {t} : run'[u] = run[u] /\ session'[u] = session[u]
  BY DEF Begins, Ran, Chapters, Begun
<1>2. PICK h : /\ h \in {History(s), << >>}
               /\ run'[t].messages = Append(h, Message(t, "prompt", 0))
  BY DEF Begins
<1>3. /\ h \in Seq(Messages) /\ Sound(h) /\ \A x \in TurnsIn(h) : Of(x, s)
  <2>1. << >> \in Seq(Messages) /\ Len(<< >>) = 0 /\ Range(<< >>) = {}
    BY EmptySeq DEF Range
  <2>2. Sound(<< >>) /\ TurnsIn(<< >>) = {}
    BY <2>1 DEF Sound, TurnsIn
  <2> QED BY <1>2, <2>1, <2>2, HistoryTold
<1> DEFINE m == Message(t, "prompt", 0)
<1>4. m \in Messages /\ m.part = "prompt" /\ m.turn = t
  BY DEF Message, Messages, Parts
<1> HIDE DEF m
<1>5. /\ Append(h, m) \in Seq(Messages) /\ Sound(Append(h, m))
      /\ Range(Append(h, m)) = Range(h) \cup {m}
  BY <1>3, <1>4, MessageAdded
<1>6. run'[t].messages = Append(h, m)
  BY <1>2 DEF m
<1>7. \A k \in Range(h) : Of(k.turn, s) /\ k.turn # t
  BY <1>1, <1>3 DEF TurnsIn, Of
<1>8. \A x, v : Of(x, v) => Of(x, v)'
  BY <1>1, OthersTell
<1>9. Of(t, s)'
  BY <1>1 DEF Of
<1>10. \A k \in Range(h) \cup {m} : Of(k.turn, s)' /\ ~ (k.turn = t /\ k.part = "call")
  BY <1>4, <1>7, <1>8, <1>9
<1>11. Telling(t)'
  BY <1>1, <1>4, <1>5, <1>6, <1>10 DEF Telling, TurnsIn
<1> QED BY <1>1, <1>11

LEMMA GoesOnTelling ==
  ASSUME Chapters, NEW t \in Turns, GoesOn(t), session' = session
  PROVE  /\ Reading(t) /\ Telling(t)' /\ Begun(t)' /\ run'[t].requests \in Nat
         /\ TurnsIn(run'[t].messages) = TurnsIn(run[t].messages)
<1>1. PICK ms, k : ms = run[t].messages /\ k = run[t].requests
  OBVIOUS
<1>2. /\ Reading(t) /\ Begun(t)' /\ \A u \in Turns \ {t} : run'[u] = run[u]
      /\ k \in Nat /\ ms \in Seq(Messages) /\ Sound(ms) /\ t \in TurnsIn(ms)
      /\ \A x \in TurnsIn(ms) : Of(x, session[t])
      /\ \A m \in Range(ms) : m.turn = t /\ m.part = "call" => m.n < k
  BY <1>1 DEF GoesOn, Reading, Begun, Ran, Chapters, Telling, StageAfter
<1>3. \A x, v : Of(x, v) => Of(x, v)'
  BY <1>2, OthersTell
<1>4. ASSUME NEW m \in Messages, NEW l \in Nat, m.turn = t, k <= l,
             run'[t].messages = Append(ms, m), run'[t].requests = l,
             m.part = "return" => [m EXCEPT !.part = "call"] \in Range(ms),
             m.part = "call" => m \notin Range(ms) /\ m.n < l,
             run'[t].stage = "tool" => l >= 1 /\ Message(t, "call", l - 1) = m
      PROVE  /\ Telling(t)' /\ run'[t].requests \in Nat
             /\ TurnsIn(run'[t].messages) = TurnsIn(ms)
  <2>1. /\ Append(ms, m) \in Seq(Messages) /\ Sound(Append(ms, m))
        /\ Range(Append(ms, m)) = Range(ms) \cup {m}
    BY <1>2, <1>4, MessageAdded
  <2>2. TurnsIn(Append(ms, m)) = TurnsIn(ms)
    BY <1>2, <1>4, <2>1 DEF TurnsIn
  <2>3. \A c \in Range(ms) \cup {m} : c.turn = t /\ c.part = "call" => c.n < l
    <3>1. \A c \in Range(ms) : c \in Messages
      BY <1>2, LenProperties DEF Range
    <3>2. \A c \in Range(ms) : c.n \in Nat
      BY <3>1 DEF Messages
    <3> QED BY <1>2, <1>4, <3>2
  <2>4. \A x \in TurnsIn(ms) : Of(x, session[t])'
    BY <1>2, <1>3
  <2> QED BY <1>2, <1>4, <2>1, <2>2, <2>3, <2>4 DEF Telling
<1>5. CASE \E part \in {"text", "call", "empty"} :
             /\ run[t].stage = "request" /\ run'[t].stage = StageAfter[part]
             /\ run'[t].requests = run[t].requests + 1
             /\ run'[t].messages = Append(run[t].messages, Message(t, part, run[t].requests))
  <2>1. PICK part \in {"text", "call", "empty"} :
          /\ run'[t].stage = StageAfter[part] /\ run'[t].requests = k + 1
          /\ run'[t].messages = Append(ms, Message(t, part, k))
    BY <1>1, <1>5
  <2>2. PICK m : m = Message(t, part, k)
    OBVIOUS
  <2>3. m \in Messages /\ m.turn = t /\ m.part = part /\ m.n = k
    BY <1>2, <2>1, <2>2 DEF Message, Messages, Parts
  <2>4. part = "call" => m \notin Range(ms)
    BY <1>2, <2>3
  <2>5. run'[t].stage = "tool" => part = "call"
    BY <2>1 DEF StageAfter
  <2>6. PICK l : l = k + 1
    OBVIOUS
  <2>7. l \in Nat /\ k <= l /\ l >= 1 /\ k < l /\ l - 1 = k
    BY <1>2, <2>6
  <2>8. run'[t].stage = "tool" => l >= 1 /\ Message(t, "call", l - 1) = m
    BY <2>2, <2>5, <2>7
  <2>9. /\ m.part = "return" => [m EXCEPT !.part = "call"] \in Range(ms)
        /\ m.part = "call" => m \notin Range(ms) /\ m.n < l
    BY <2>3, <2>4, <2>7
  <2>10. /\ Telling(t)' /\ run'[t].requests \in Nat
         /\ TurnsIn(run'[t].messages) = TurnsIn(ms)
    BY <1>4, <2>1, <2>2, <2>3, <2>6, <2>7, <2>8, <2>9
  <2> QED BY <1>1, <1>2, <2>10
<1>6. CASE /\ run[t].stage = "tool" /\ run'[t].stage = "request"
           /\ run'[t].requests = run[t].requests
           /\ run'[t].messages = Append(run[t].messages, Message(t, "return", run[t].requests - 1))
  <2>1. k >= 1 /\ Message(t, "call", k - 1) \in Range(ms)
    BY <1>1, <1>2, <1>6 DEF Chapters, Telling
  <2>2. PICK m : m = Message(t, "return", k - 1)
    OBVIOUS
  <2>3. k - 1 \in Nat
    BY <1>2, <2>1
  <2>4. /\ m \in Messages /\ m.turn = t /\ m.part = "return"
        /\ [m EXCEPT !.part = "call"] = Message(t, "call", k - 1)
    BY <2>2, <2>3 DEF Message, Messages, Parts
  <2> QED BY <1>1, <1>2, <1>4, <1>6, <2>1, <2>2, <2>4
<1> QED BY <1>1, <1>2, <1>5, <1>6 DEF GoesOn

\* The store after a save.
LEMMA SaveBinds ==
  ASSUME Chapters, Indexed, NEW t \in Turns, Saves(t)
  PROVE  \E s \in Sessions, gone \in SUBSET Sessions :
           /\ s = session[t] /\ s \notin gone
           /\ store' = Forget([store EXCEPT ![s] = TrimHistory(run[t].messages)], gone)
           /\ store' \in [Sessions -> Seq(Messages) \cup {NoHistory}]
           /\ History(s)' = TrimHistory(run[t].messages)
           /\ \A v \in Sessions \ {s} : store'[v] = store[v] \/ store'[v] = NoHistory
<1>1. /\ Reading(t) /\ Begun(t) /\ Record(t, run[t].messages)
  BY DEF Saves, Reading, Begun
<1>2. /\ session[t] \in Sessions /\ Telling(t)
      /\ store \in [Sessions -> Seq(Messages) \cup {NoHistory}]
  BY <1>1 DEF Chapters
<1>3. PICK gone \in SUBSET Sessions :
        /\ session[t] \notin gone
        /\ store' = Forget([store EXCEPT ![session[t]] = TrimHistory(run[t].messages)], gone)
  BY <1>1, <1>2, SavedHistory DEF Record
<1>4. PICK s, q : s = session[t] /\ q = TrimHistory(run[t].messages)
  OBVIOUS
<1>5. q \in Seq(Messages) /\ q # NoHistory
  BY <1>2, <1>4, TrimSound, HistoryAssumption DEF Telling
<1>6. /\ store' = [v \in Sessions |-> IF v \in gone THEN NoHistory ELSE [store EXCEPT ![s] = q][v]]
  BY <1>3, <1>4 DEF Forget
<1>7. /\ s \in Sessions /\ s \notin gone /\ store'[s] = q
      /\ \A v \in Sessions \ {s} : store'[v] = store[v] \/ store'[v] = NoHistory
      /\ store' \in [Sessions -> Seq(Messages) \cup {NoHistory}]
  BY <1>2, <1>3, <1>4, <1>5, <1>6
<1>8. History(s)' = q
  BY <1>5, <1>7 DEF History
<1> QED BY <1>3, <1>4, <1>7, <1>8

LEMMA ChaptersStep == Chapters /\ Indexed /\ Conduct /\ [Next]_vars => Chapters'
<1> SUFFICES ASSUME Chapters, Indexed, Conduct, [Next]_vars PROVE Chapters'
  OBVIOUS
<1>1. CASE UNCHANGED run /\ StoreStill
  <2>1. UNCHANGED <<run, store, session, saved, issued>>
    BY <1>1 DEF StoreStill, sessionVars, ghostVars
  <2>2. \A x, s : Of(x, s) <=> Of(x, s)'
    BY <2>1 DEF Of, Begun
  <2>3. \A t \in Turns : (Begun(t) <=> Begun(t)') /\ (Reading(t) <=> Reading(t)')
                         /\ (Telling(t) => Telling(t)')
    BY <2>1, <2>2 DEF Telling, Begun, Reading
  <2>4. \A s \in Held(store') : s \in Held(store) /\ Bound(s)'
    BY <2>1, <2>2 DEF Held, Bound, Chapters
  <2> QED BY <2>1, <2>3, <2>4 DEF Chapters
<1>2. ASSUME NEW gone \in SUBSET Sessions, Expires(gone) PROVE Chapters'
  <2>1. UNCHANGED <<run, session, saved, issued>> /\ store' = Forget(store, gone)
    BY <1>2 DEF Expires, Expire
  <2>2. \A x, s : Of(x, s) <=> Of(x, s)'
    BY <2>1 DEF Of, Begun
  <2>3. \A t \in Turns : (Begun(t) <=> Begun(t)') /\ (Reading(t) <=> Reading(t)')
                         /\ (Telling(t) => Telling(t)')
    BY <2>1, <2>2 DEF Telling, Begun, Reading
  <2>4. /\ store' \in [Sessions -> Seq(Messages) \cup {NoHistory}]
        /\ \A s \in Held(store') : s \in Held(store) /\ store'[s] = store[s]
    BY <2>1 DEF Forget, Held, Chapters
  <2>5. \A s \in Held(store') : Bound(s)'
    BY <2>2, <2>4 DEF Bound, Chapters
  <2> QED BY <2>1, <2>3, <2>4, <2>5 DEF Chapters
\* A step of one turn.
<1>3. ASSUME NEW t \in Turns, Ran(t, run'[t]), DOMAIN session' = Turns, issued \subseteq issued',
             \A u \in Turns \ {t} : session'[u] = session[u],
             Begun(t) => session'[t] = session[t], Begun(t)',
             session'[t] \in Sessions \cap issued', PrincipalOf[t] = Owner[session'[t]],
             saved' \subseteq saved \cup {t}, run'[t].requests \in Nat, Reading(t)' => Telling(t)',
             store' \in [Sessions -> Seq(Messages) \cup {NoHistory}],
             \A s \in Held(store') : store'[s] = store[s] \/ Bound(s)'
      PROVE  Chapters'
  <2>1. \A u \in Turns \ {t} : run'[u] = run[u] /\ session'[u] = session[u]
    BY <1>3 DEF Ran
  <2>2. /\ \A u \in Turns \ {t} : (Reading(u) <=> Reading(u)') /\ (Reading(u) => Telling(u)')
        /\ \A s \in Sessions : Bound(s) /\ store'[s] = store[s] => Bound(s)'
    BY <1>3, <2>1, OthersTell
  <2>3. ASSUME NEW u \in Turns
        PROVE  /\ run'[u].requests \in Nat
               /\ Begun(u)' => /\ session'[u] \in Sessions \cap issued'
                               /\ PrincipalOf[u] = Owner[session'[u]]
               /\ Reading(u)' => Telling(u)'
    BY <1>3, <2>1, <2>2 DEF Chapters, Begun
  <2>4. \A s \in Held(store') : Bound(s)'
    BY <1>3, <2>2 DEF Chapters, Held
  <2>5. \A u \in saved' : u \in Turns /\ Begun(u)'
    BY <1>3, <2>1 DEF Chapters, Begun
  <2> QED BY <1>3, <2>3, <2>4, <2>5 DEF Chapters
<1>4. ASSUME NEW t \in Turns, NEW s \in Sessions, Begins(t, s) PROVE Chapters'
  <2>1. Telling(t)' /\ Begun(t)' /\ session'[t] = s
    BY <1>4, BeginsTelling
  <2>2. /\ Ran(t, run'[t]) /\ DOMAIN session' = Turns /\ store' = store /\ saved' = saved
        /\ \A u \in Turns \ {t} : session'[u] = session[u]
        /\ issued \subseteq issued' /\ s \in issued' /\ ~Begun(t)
        /\ PrincipalOf[t] = Owner[s] /\ run'[t].requests = run[t].requests
    BY <1>4 DEF Begins, Chapters, GetHistory, sessionVars, ghostVars
  <2> QED BY <1>3, <2>1, <2>2 DEF Chapters
<1>5. ASSUME NEW t \in Turns, StoreStill, GoesOn(t) PROVE Chapters'
  <2>1. UNCHANGED <<store, session, saved, issued>>
    BY <1>5 DEF StoreStill, sessionVars, ghostVars
  <2>2. Reading(t) /\ Telling(t)' /\ Begun(t)' /\ run'[t].requests \in Nat
    BY <1>5, <2>1, GoesOnTelling
  <2>3. Ran(t, run'[t]) /\ Begun(t)
    BY <1>5, <2>2 DEF GoesOn, Begun, Reading
  <2> QED BY <1>3, <2>1, <2>2, <2>3 DEF Chapters
<1>6. ASSUME NEW t \in Turns, StoreStill, IsOver(t) PROVE Chapters'
  <2>1. UNCHANGED <<store, session, saved, issued>>
    BY <1>6 DEF StoreStill, sessionVars, ghostVars
  <2>2. Ran(t, run'[t]) /\ Begun(t) /\ Begun(t)' /\ ~Reading(t)' /\ run'[t].requests \in Nat
    BY <1>6 DEF IsOver, Begun, Reading, Chapters
  <2> QED BY <1>3, <2>1, <2>2 DEF Chapters
<1>7. ASSUME NEW t \in Turns, Saves(t) PROVE Chapters'
  <2>1. /\ UNCHANGED <<session, issued>> /\ saved' = saved \cup {t}
        /\ Ran(t, run'[t]) /\ Begun(t) /\ Begun(t)' /\ ~Reading(t)' /\ run'[t].requests \in Nat
    BY <1>7 DEF Saves, IsOver, Record, Begun, Reading, Chapters
  <2>2. PICK s \in Sessions :
          /\ s = session[t]
          /\ store' \in [Sessions -> Seq(Messages) \cup {NoHistory}]
          /\ History(s)' = TrimHistory(run[t].messages)
          /\ \A v \in Sessions \ {s} : store'[v] = store[v] \/ store'[v] = NoHistory
    BY <1>7, SaveBinds
  <2>3. Telling(t) /\ Reading(t)
    BY <1>7 DEF Saves, Reading, Chapters
  <2>4. \A x, v : Of(x, v) => Of(x, v)'
    BY <2>1, OthersTell DEF Ran
  <2>5. s \in Held(store') => Bound(s)'
    <3> SUFFICES ASSUME store'[s] # NoHistory PROVE Bound(s)'
      BY DEF Held
    <3>1. PICK q : q = TrimHistory(run[t].messages)
      OBVIOUS
    <3>2. store'[s] = q
      BY <2>2, <3>1 DEF History
    <3>3. /\ Len(q) <= MaxMessages /\ Range(q) \subseteq Range(run[t].messages) /\ Sound(q)
          /\ \A i \in 1..Len(q) : q[i].part # "empty"
      BY <2>3, <3>1, TrimSound DEF Telling
    <3>4. \A x \in TurnsIn(q) : Of(x, s)'
      BY <2>2, <2>3, <2>4, <3>3 DEF Telling, TurnsIn
    <3> QED BY <3>2, <3>3, <3>4 DEF Bound
  <2>6. \A v \in Held(store') : store'[v] = store[v] \/ Bound(v)'
    BY <2>2, <2>5 DEF Held
  <2> QED BY <1>3, <2>1, <2>2, <2>6 DEF Chapters
<1> QED BY <1>1, <1>2, <1>4, <1>5, <1>6, <1>7, Kinds
-----------------------------------------------------------------------------
(* The store in memory.                                                    *)

LEMMA IndexedInit == Init => Indexed
<1> SUFFICES ASSUME Init PROVE Indexed
  OBVIOUS
<1>1. /\ lastAccess = << >> /\ locks = {} /\ store = [s \in Sessions |-> NoHistory]
  BY DEF Init, SessionInit
<1>2. Held(store) = {} /\ Range(lastAccess) = {} /\ lastAccess \in Seq(Sessions)
  BY <1>1, EmptySeq DEF Held, Range
<1>3. IsFiniteSet({}) /\ Cardinality({}) = 0
  BY FS_EmptySet
<1>4. Cardinality(Held(store)) <= MaxSessions
  BY <1>2, <1>3, SessionAssumption
<1> QED BY <1>1, <1>2, <1>3, <1>4 DEF Indexed

LEMMA IndexedStep == Indexed /\ Chapters /\ Conduct /\ [Next]_vars => Indexed'
<1> SUFFICES ASSUME Indexed, Chapters, Conduct, [Next]_vars PROVE Indexed'
  OBVIOUS
<1>1. CASE UNCHANGED sessionVars
  BY <1>1 DEF Indexed, Held, sessionVars
<1>2. ASSUME NEW t \in Turns, NEW s \in Sessions, Begins(t, s) PROVE Indexed'
  BY <1>1, <1>2, ReadHistory DEF Begins
<1>3. ASSUME NEW gone \in SUBSET Sessions, Expires(gone) PROVE Indexed'
  BY <1>3, ExpiredHistories DEF Expires
<1>4. ASSUME NEW t \in Turns, Saves(t) PROVE Indexed'
  <2>1. session[t] \in Sessions
    BY <1>4 DEF Saves, Chapters, Begun
  <2> QED BY <1>4, <2>1, SavedHistory DEF Saves, Record
<1> QED BY <1>1, <1>2, <1>3, <1>4, Kinds DEF StoreStill

-----------------------------------------------------------------------------
(* A saved turn: still in its session's history, unless it was forgotten,  *)
(* with none under way in the session that has read the history without it *)
(* and is no rival; or a rival of it has been saved.                       *)

Missed(x, u) ==
  session[u] = session[x] /\ Reading(u) /\ x \notin TurnsIn(run[u].messages)

Stays(x) ==
  /\ x \in TurnsIn(History(session[x]))
  /\ \A u \in Turns \ {x} : Missed(x, u) => u \in rivals[x]

Keeping == \A x \in saved : rivals[x] \cap saved # {} \/ x \in forgotten \/ Stays(x)

LEMMA KeepingInit == Init => Keeping
BY DEF Init, Keeping

\* What a save does for one turn.
LEMMA SaveKeeps ==
  ASSUME Chapters, Chapters', Indexed, Keeping, NEW t \in Turns, Saves(t), NEW x \in saved'
  PROVE  \/ rivals'[x] \cap saved' # {}
         \/ x \in forgotten'
         \/ Stays(x)'
<1>1. PICK ms, s : ms = run[t].messages /\ s = session[t]
  OBVIOUS
<1>2. /\ saved' = saved \cup {t} /\ x \in Turns /\ s \in Sessions /\ Telling(t) /\ Reading(t)
      /\ session' = session /\ Begun(t)
      /\ session[x] \in Sessions /\ t \in TurnsIn(ms)
      /\ \A y \in TurnsIn(ms) : session[y] = s
  BY <1>1 DEF Saves, Record, Chapters, Reading, Begun, Telling, Of
<1>3. /\ forgotten' = (forgotten \ TurnsIn(ms)) \cup Dropped(t, ms)
      /\ rivals'[x] = IF x = t \/ x \in forgotten \cap TurnsIn(ms)
                        THEN rivals[x] \cup InFlight(x) ELSE rivals[x]
  BY <1>1, <1>2 DEF Saves, Record
<1>4. /\ ~Reading(t)' /\ \A u \in Turns \ {t} : run'[u] = run[u]
  BY DEF Saves, IsOver, Ran, Reading
<1>5. /\ History(s)' = TrimHistory(ms)
      /\ \A v \in Sessions \ {s} : store'[v] = store[v] \/ store'[v] = NoHistory
  BY <1>1, SaveBinds
<1>6. TurnsIn(ms) \ TurnsIn(TrimHistory(ms)) \subseteq forgotten'
  BY <1>3 DEF Dropped
<1>7. \A u \in Turns : Missed(x, u)' => Missed(x, u) /\ u # t
  BY <1>2, <1>4 DEF Missed, Reading
\* It is taken, or taken again.
<1>8. CASE x = t \/ x \in forgotten \cap TurnsIn(ms)
  <2>1. x \in TurnsIn(ms) /\ session'[x] = s
    BY <1>1, <1>2, <1>8
  <2>2. x \in forgotten' \/ x \in TurnsIn(History(s)')
    BY <1>5, <1>6, <2>1
  <2>3. \A u \in Turns \ {x} : Missed(x, u)' => u \in rivals'[x]
    <3>1. \A u \in Turns \ {x} : Missed(x, u) => u \in InFlight(x)
      BY DEF Missed, InFlight, Reading
    <3> QED BY <1>3, <1>7, <1>8, <3>1
  <2> QED BY <2>1, <2>2, <2>3 DEF Stays
<1>9. CASE ~ (x = t \/ x \in forgotten \cap TurnsIn(ms)) /\ x \in saved
  <2>1. rivals'[x] = rivals[x]
    BY <1>3, <1>9
  <2>2. CASE rivals[x] \cap saved # {}
    BY <1>2, <2>1, <2>2
  <2>3. CASE x \in forgotten
    BY <1>3, <1>9, <2>3
  <2>4. CASE Stays(x) /\ x \notin forgotten
    <3>1. /\ x \in TurnsIn(History(session[x]))
          /\ \A u \in Turns \ {x} : Missed(x, u) => u \in rivals[x]
      BY <2>4 DEF Stays
    <3>2. \A u \in Turns \ {x} : Missed(x, u)' => u \in rivals'[x]
      BY <1>7, <2>1, <3>1
    <3>3. CASE x \in TurnsIn(ms)
      <4>1. session[x] = s /\ (x \in forgotten' \/ x \in TurnsIn(History(s)'))
        BY <1>2, <1>5, <1>6, <3>3
      <4> QED BY <1>2, <3>2, <4>1 DEF Stays
    <3>4. CASE x \notin TurnsIn(ms) /\ session[x] = s
      <4>1. Missed(x, t)
        BY <1>1, <1>2, <3>4 DEF Missed
      <4>2. t \in rivals'[x] /\ t \in saved'
        BY <1>2, <1>9, <2>1, <3>1, <4>1
      <4> QED BY <4>2
    <3>5. CASE session[x] # s
      <4>1. PICK v : v = session[x]
        OBVIOUS
      <4>2. v \in Sessions \ {s} /\ x \in TurnsIn(History(v)) /\ session'[x] = v
        BY <1>2, <3>1, <3>5, <4>1
      <4>3. store[v] # NoHistory
        <5>1. Range(<< >>) = {}
          BY EmptySeq DEF Range
        <5> QED BY <4>2, <5>1 DEF History, TurnsIn
      <4>4. CASE store'[v] = NoHistory
        <5>1. v \in {w \in Held(store) : store'[w] = NoHistory}
          BY <4>2, <4>3, <4>4 DEF Held
        <5>2. x \in Dropped(t, ms)
          BY <4>2, <5>1 DEF Dropped
        <5> QED BY <1>3, <5>2
      <4>5. CASE store'[v] = store[v]
        <5>1. History(v)' = History(v)
          BY <4>5 DEF History
        <5> QED BY <3>2, <4>2, <5>1 DEF Stays
      <4> QED BY <1>5, <4>2, <4>4, <4>5
    <3> QED BY <3>3, <3>4, <3>5
  <2> QED BY <1>9, <2>2, <2>3, <2>4 DEF Keeping
<1> QED BY <1>2, <1>8, <1>9

LEMMA KeepingStep ==
  Keeping /\ Chapters /\ Chapters' /\ Indexed /\ Conduct /\ [Next]_vars => Keeping'
<1> SUFFICES ASSUME Keeping, Chapters, Chapters', Indexed, Conduct, [Next]_vars
             PROVE  Keeping'
  OBVIOUS
\* Steps that save nothing.
<1>1. ASSUME UNCHANGED <<saved, rivals>>, forgotten \subseteq forgotten',
             \A x \in saved : session'[x] = session[x],
             \A x \in saved : x \in forgotten' \/ History(session[x])' = History(session[x]),
             \A x \in saved : Stays(x) =>
               \A u \in Turns \ {x} : Missed(x, u)' => Missed(x, u)
      PROVE  Keeping'
  <2> SUFFICES ASSUME NEW x \in saved
               PROVE  rivals[x] \cap saved # {} \/ x \in forgotten' \/ Stays(x)'
    BY <1>1 DEF Keeping
  <2>1. PICK v : v = session[x]
    OBVIOUS
  <2>2. session'[x] = v /\ (x \in forgotten' \/ History(v)' = History(v))
    BY <1>1, <2>1
  <2>3. Stays(x) => x \in forgotten' \/ Stays(x)'
    BY <1>1, <2>1, <2>2 DEF Stays
  <2> QED BY <1>1, <2>3 DEF Keeping
<1>2. CASE UNCHANGED run /\ StoreStill
  <2>1. UNCHANGED <<run, store, session, saved, forgotten, rivals>>
    BY <1>2 DEF StoreStill, sessionVars, ghostVars
  <2> QED BY <1>1, <2>1 DEF History, Missed, Reading
<1>3. ASSUME NEW gone \in SUBSET Sessions, Expires(gone) PROVE Keeping'
  <2>1. /\ UNCHANGED <<run, session, saved, rivals>> /\ store' = Forget(store, gone)
        /\ forgotten' = forgotten \cup UNION {TurnsIn(History(s)) : s \in gone}
    BY <1>3 DEF Expires, Expire
  <2>2. ASSUME NEW x \in saved
        PROVE  rivals[x] \cap saved # {} \/ x \in forgotten' \/ Stays(x)'
    <3>1. PICK v : v = session[x]
      OBVIOUS
    <3>2. v \in Sessions /\ session'[x] = v
      BY <2>1, <3>1 DEF Chapters
    <3>3. CASE v \in gone
      <4>1. Stays(x) => x \in TurnsIn(History(v))
        BY <3>1 DEF Stays
      <4>2. Stays(x) => x \in forgotten'
        BY <2>1, <3>3, <4>1
      <4> QED BY <2>1, <4>2 DEF Keeping
    <3>4. CASE v \notin gone
      <4>1. History(v)' = History(v)
        BY <2>1, <3>2, <3>4 DEF History, Forget
      <4>2. \A u : Missed(x, u)' <=> Missed(x, u)
        BY <2>1 DEF Missed, Reading
      <4>3. Stays(x) => Stays(x)'
        BY <2>1, <3>1, <3>2, <4>1, <4>2 DEF Stays
      <4> QED BY <2>1, <4>3 DEF Keeping
    <3> QED BY <3>3, <3>4
  <2> QED BY <2>1, <2>2 DEF Keeping
<1>4. ASSUME NEW t \in Turns, NEW s \in Sessions, Begins(t, s) PROVE Keeping'
  <2>1. /\ UNCHANGED <<store, saved, rivals, forgotten>> /\ t \notin saved
        /\ session'[t] = s
        /\ \A u \in Turns \ {t} : run'[u] = run[u] /\ session'[u] = session[u]
    BY <1>4 DEF Begins, Ran, GetHistory, sessionVars, ghostVars, Chapters
  <2>2. ASSUME NEW x \in saved, Stays(x), NEW u \in Turns \ {x}, Missed(x, u)'
        PROVE  Missed(x, u)
    <3>1. x \in Turns \ {t} /\ session'[x] = session[x] /\ session[x] \in issued
      BY <2>1 DEF Chapters
    <3>2. CASE u # t
      BY <2>1, <2>2, <3>1, <3>2 DEF Missed, Reading
    <3>3. CASE u = t
      <4>1. session[x] = s /\ x \in TurnsIn(History(s))
        BY <2>1, <2>2, <3>1, <3>3 DEF Missed, Stays
      <4>2. run'[t].messages = Append(History(s), Message(t, "prompt", 0))
        BY <1>4, <3>1, <4>1 DEF Begins
      <4>3. History(s) \in Seq(Messages)
        BY HistoryTold
      <4>4. PICK i \in 1..Len(History(s)) : History(s)[i].turn = x
        BY <4>1, <4>3, LenProperties DEF TurnsIn, Range
      <4>5. PICK h, m : h = History(s) /\ m = Message(t, "prompt", 0)
        OBVIOUS
      <4>6. m \in Messages
        BY <4>5 DEF Message, Messages, Parts
      <4>7. /\ Append(h, m) \in Seq(Messages) /\ Len(Append(h, m)) = Len(h) + 1
            /\ Append(h, m)[i] = h[i] /\ Len(h) \in Nat
        BY <4>3, <4>4, <4>5, <4>6, AppendProperties, LenProperties
      <4>8. i \in DOMAIN Append(h, m)
        BY <4>4, <4>5, <4>7, LenProperties
      <4>9. x \in TurnsIn(Append(h, m))
        BY <4>4, <4>5, <4>7, <4>8 DEF TurnsIn, Range
      <4> QED BY <2>2, <3>3, <4>2, <4>5, <4>9 DEF Missed
    <3> QED BY <3>2, <3>3
  <2> QED BY <1>1, <2>1, <2>2 DEF History, Chapters
<1>5. ASSUME NEW t \in Turns, StoreStill, GoesOn(t) \/ IsOver(t) PROVE Keeping'
  <2>1. /\ UNCHANGED <<store, session, saved, rivals, forgotten>>
        /\ \A u \in Turns \ {t} : run'[u] = run[u]
    BY <1>5 DEF StoreStill, sessionVars, ghostVars, GoesOn, IsOver, Ran
  <2>2. Reading(t)' => Reading(t) /\ TurnsIn(run'[t].messages) = TurnsIn(run[t].messages)
    BY <1>5, <2>1, GoesOnTelling DEF IsOver, Reading
  <2>3. \A x, u : u \in Turns /\ Missed(x, u)' => Missed(x, u)
    BY <2>1, <2>2 DEF Missed, Reading
  <2> QED BY <1>1, <2>1, <2>3 DEF History
<1>6. ASSUME NEW t \in Turns, Saves(t) PROVE Keeping'
  BY <1>6, SaveKeeps DEF Keeping
<1> QED BY <1>2, <1>3, <1>4, <1>5, <1>6, Kinds

\* Histories, the store in memory, and what the turns under way may still save.
THEOREM ChatInvariant == Spec => [](Conduct /\ Chapters /\ Indexed /\ Keeping)
<1>1. Init => Conduct /\ Chapters /\ Indexed /\ Keeping
  BY ConductInit, ChaptersInit, IndexedInit, KeepingInit
<1>2. Conduct /\ Chapters /\ Indexed /\ Keeping /\ [Next]_vars
        => (Conduct /\ Chapters /\ Indexed /\ Keeping)'
  BY ConductStep, ChaptersStep, IndexedStep, KeepingStep
<1> QED BY <1>1, <1>2, PTL DEF Spec

\* A saved turn stays in the history of its session until the store forgets it
\* or a turn that had read the history without it is saved over it.
THEOREM TurnsKept == Spec => []TurnsAreKept
<1>1. Keeping => TurnsAreKept
  BY DEF Keeping, Stays, TurnsAreKept
<1> QED BY <1>1, ChatInvariant, PTL

\* A stored history is within the cap, without empty messages, and has the call
\* of every return, however often it was trimmed.
THEOREM HistoriesAreSound == Spec => []HistoryWellFormed
<1>1. Chapters => HistoryWellFormed
  BY DEF Chapters, Bound, Sound, HistoryWellFormed
<1> QED BY <1>1, ChatInvariant, PTL

\* The store in memory keeps to its cap, and finds every session it holds.
THEOREM StoreIsBounded == Spec => []StoreWithinLimits
<1>1. Indexed => StoreWithinLimits
  BY DEF Indexed, StoreWithinLimits
<1> QED BY <1>1, ChatInvariant, PTL

\* A history holds turns of the principal its session was signed for only.
THEOREM HistoriesAreOwned == Spec => []SessionsAreOwned
<1>1. Chapters => SessionsAreOwned
  BY HistoryTold DEF Chapters, Of, SessionsAreOwned
<1> QED BY <1>1, ChatInvariant, PTL
=============================================================================
