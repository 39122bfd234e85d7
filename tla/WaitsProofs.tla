---------------------------- MODULE WaitsProofs ----------------------------
(***************************************************************************)
(* The hook runner of the plugins crate and the SDK's thread client, for   *)
(* any number of commands, payloads, calls, runs and faults.               *)
(***************************************************************************)
EXTENDS MCWaits, TLAPS

(* A child has ended: its code comes behind the others.                    *)
LEMMA CodeAppended ==
  ASSUME NEW q \in Seq(Codes), NEW x \in Codes
  PROVE  LET r == Append(q, x) IN
         /\ r \in Seq(Codes) /\ Len(r) = Len(q) + 1 /\ r # <<>> /\ r[Len(r)] = x
         /\ \A i \in 1..Len(q) : r[i] = q[i]
OBVIOUS

(* The step of the parent that takes note of how a command ended.          *)
LEMMA ConcludeKeeps ==
  ASSUME HookInv, more_commands, NEW o, conclude(o),
         UNCHANGED <<large, codes>>, behaviour' \in Behaviour,
         o = "deny" => child = "exited" /\ behaviour'.code = 2 /\ behaviour' = behaviour,
         o # "deny" => \A i \in 1..Len(codes) : codes[i] # 2
  PROVE  HookInv'
<1>1. TypeOK'
  BY HookAssumption DEF HookInv, TypeOK, conclude, more_commands
<1> QED
  BY <1>1 DEF HookInv, TypeOK, conclude, more_commands

LEMMA HookStep ==
  ASSUME BrokenPipeTolerated
  PROVE  HookInv /\ [Next]_vars => HookInv'
<1> SUFFICES ASSUME HookInv, [Next]_vars PROVE HookInv'
  OBVIOUS
<1>0. /\ TypeOK /\ behaviour \in Behaviour /\ codes \in Seq(Codes)
      /\ large \in BOOLEAN /\ behaviour.code \in Codes
  BY DEF HookInv, TypeOK, Behaviour
<1>1. CASE spawn
  <2>1. PICK b \in Children(large) :
          /\ behaviour' = b
          /\ IF b.starts
             THEN /\ parent' = "write" /\ child' = "started"
                  /\ UNCHANGED <<at, denied>>
             ELSE conclude("warn")
    BY <1>1 DEF spawn
  <2>2. b \in Behaviour /\ more_commands /\ parent = "spawn" /\ child = "none"
        /\ UNCHANGED <<large, codes>>
    BY <1>0, <1>1, HookAssumption DEF spawn, HookInv
  <2>3. CASE b.starts
    BY <2>1, <2>2, <2>3 DEF HookInv, TypeOK, more_commands
  <2>4. CASE ~b.starts
    <3>1. \A i \in 1..Len(codes) : codes[i] # 2
      BY <2>2 DEF HookInv
    <3> QED BY <2>1, <2>2, <2>4, <3>1, ConcludeKeeps
  <2> QED BY <2>3, <2>4
<1>2. CASE write_all
  BY <1>2 DEF write_all, HookInv, TypeOK, more_commands
<1>3. CASE write_all_broken_pipe
  BY <1>3 DEF write_all_broken_pipe, HookInv, TypeOK, more_commands
<1>4. CASE wait_with_output
  <2> DEFINE o == outcome_of(behaviour.code)
  <2>1. /\ parent = "wait" /\ child = "exited" /\ conclude(o)
        /\ UNCHANGED <<behaviour, large, codes>>
    BY <1>4 DEF wait_with_output
  <2>2. more_commands /\ codes[Len(codes)] = behaviour.code
    BY <2>1 DEF HookInv
  <2>3. o = "deny" <=> behaviour.code = 2
    BY <1>0 DEF outcome_of
  <2>4. behaviour.code # 2 => \A i \in 1..Len(codes) : codes[i] # 2
    BY <2>2 DEF HookInv
  <2> HIDE DEF o
  <2> QED BY <1>0, <2>1, <2>2, <2>3, <2>4, ConcludeKeeps
<1>5. CASE run_commands_end
  BY <1>5 DEF run_commands_end, HookInv, TypeOK, more_commands
<1>6. CASE child_step
  <2>1. /\ child \in {"started", "talking", "reading"}
        /\ child' \in {"talking", "finishing", "reading"}
        /\ UNCHANGED <<at, parent, behaviour, large, denied, codes>>
    BY <1>6 DEF child_step, child_moves
  <2> QED BY <2>1 DEF HookInv, TypeOK, more_commands
<1>7. CASE child_exits
  <2>1. /\ child = "finishing" /\ child' = "exited"
        /\ codes' = Append(codes, behaviour.code)
        /\ UNCHANGED <<at, parent, behaviour, large, denied>>
    BY <1>7 DEF child_exits
  <2>2. /\ codes' \in Seq(Codes) /\ Len(codes') = Len(codes) + 1
        /\ codes' # <<>> /\ codes'[Len(codes')] = behaviour.code
        /\ \A i \in 1..Len(codes) : codes'[i] = codes[i]
    BY <1>0, <2>1, CodeAppended
  <2>3. /\ \A i \in 1..Len(codes) : codes[i] # 2
        /\ parent # "done" /\ parent # "spawn" /\ ~denied
    BY <1>0, <2>1 DEF HookInv, TypeOK
  <2>4. \A i \in 1..Len(codes') : codes'[i] = 2 => i = Len(codes')
    BY <1>0, <2>2, <2>3
  <2>5. TypeOK'
    BY <2>1, <2>2 DEF HookInv, TypeOK
  <2> QED
    BY <2>1, <2>2, <2>3, <2>4, <2>5 DEF HookInv, more_commands
<1>8. CASE Finished \/ UNCHANGED vars
  BY <1>8 DEF Finished, vars, HookInv, TypeOK, more_commands
<1> QED
  BY <1>1, <1>2, <1>3, <1>4, <1>5, <1>6, <1>7, <1>8 DEF Next

(* With a broken pipe tolerated, as in the plugins crate, a hook that      *)
(* exits with code 2 denies the tool and is the last to run, whatever the  *)
(* size of the payload and the order of write and exit (run_commands,      *)
(* output_with_stdin of plugins/src/hooks.rs).                             *)
THEOREM DenialsHonoured ==
  ASSUME BrokenPipeTolerated
  PROVE  Spec => []HooksSound
<1>1. Init => HookInv
  <2> SUFFICES ASSUME Init PROVE HookInv
    OBVIOUS
  <2>1. behaviour \in Behaviour
    BY DEF Init, Behaviour, Codes
  <2>2. codes \in Seq(Codes) /\ Len(codes) = 0 /\ Commands \in Nat
    BY HookAssumption DEF Init
  <2>3. /\ at = 1 /\ parent = "spawn" /\ child = "none"
        /\ large \in BOOLEAN /\ denied \in BOOLEAN
    BY DEF Init
  <2>4. TypeOK
    BY <2>1, <2>2, <2>3 DEF TypeOK
  <2> QED BY <2>2, <2>4 DEF Init, HookInv
<1>2. HookInv => HooksSound
  <2> SUFFICES ASSUME HookInv PROVE DenialHonoured
    BY DEF HookInv, HooksSound
  <2>1. \A i \in 1..(Len(codes) - 1) : codes[i] # 2
    BY DEF HookInv, TypeOK
  <2>2. parent = "done" => (denied <=> codes # <<>> /\ codes[Len(codes)] = 2)
    BY DEF HookInv, TypeOK
  <2> QED BY <2>1, <2>2 DEF DenialHonoured
<1>3. HookInv /\ [Next]_vars => HookInv'
  BY HookStep
<1> QED
  BY <1>1, <1>2, <1>3, PTL DEF Spec

-----------------------------------------------------------------------------
(* The thread client. Sequences: adding one element, and a whole tail.     *)
LEMMA AppendFacts ==
  ASSUME NEW S, NEW q \in Seq(S), NEW x \in S
  PROVE  LET r == Append(q, x) IN
         /\ r \in Seq(S) /\ Len(r) = Len(q) + 1 /\ r # <<>> /\ r[Len(q) + 1] = x
         /\ \A i \in 1..Len(q) : r[i] = q[i]
OBVIOUS

LEMMA TailFacts ==
  ASSUME NEW S, NEW q \in Seq(S), q # <<>>
  PROVE  /\ Len(q) >= 1 /\ Head(q) = q[1] /\ Head(q) \in S
         /\ Tail(q) \in Seq(S) /\ Len(Tail(q)) = Len(q) - 1
         /\ \A i \in 1..(Len(q) - 1) : Tail(q)[i] = q[i + 1]
OBVIOUS

LEMMA ConcatFacts ==
  ASSUME NEW S, NEW q \in Seq(S), NEW p \in Seq(S)
  PROVE  /\ q \o p \in Seq(S) /\ Len(q \o p) = Len(q) + Len(p)
         /\ \A i \in 1..Len(q) : (q \o p)[i] = q[i]
         /\ \A i \in 1..Len(p) : (q \o p)[Len(q) + i] = p[i]
OBVIOUS

(* The events of a segment.                                                *)
LEMMA SegmentFacts ==
  ASSUME NEW end \in Ends
  PROVE  /\ segment(end) \in Seq(Ends \cup {"delta"})
         /\ Deltas(end) \in {0, 2} /\ Len(segment(end)) = Deltas(end) + 1
         /\ \A j \in 0..Deltas(end) : segment(end)[j + 1] = Expected(end, j)
<1>1. CASE end = "failed"
  <2>1. segment(end) = <<end>>
    BY <1>1 DEF segment
  <2> QED BY <1>1, <2>1 DEF Deltas, Expected
<1>2. CASE end # "failed"
  <2> DEFINE S == Ends \cup {"delta"}
             p == <<"delta", "delta">>
             q == <<end>>
  <2>1. p \in Seq(S) /\ q \in Seq(S) /\ Len(p) = 2 /\ Len(q) = 1 /\ q[1] = end
        /\ p[1] = "delta" /\ p[2] = "delta"
    OBVIOUS
  <2>2. segment(end) = p \o q /\ Deltas(end) = 2
    BY <1>2 DEF segment, Deltas
  <2> HIDE DEF p, q, S
  <2>0. /\ p \o q \in Seq(S) /\ Len(p \o q) = Len(p) + Len(q)
        /\ \A i \in 1..Len(p) : (p \o q)[i] = p[i]
        /\ \A i \in 1..Len(q) : (p \o q)[Len(p) + i] = q[i]
    BY <2>1, ConcatFacts
  <2>5. 1 \in 1..Len(p) /\ 2 \in 1..Len(p) /\ 1 \in 1..Len(q)
    BY <2>1
  <2>6. (p \o q)[1] = p[1] /\ (p \o q)[2] = p[2] /\ (p \o q)[Len(p) + 1] = q[1]
    BY <2>0, <2>5
  <2>3. /\ p \o q \in Seq(S) /\ Len(p \o q) = 3
        /\ (p \o q)[1] = "delta" /\ (p \o q)[2] = "delta" /\ (p \o q)[3] = end
    BY <2>0, <2>1, <2>6
  <2>4. \A j \in 0..2 : j = 0 \/ j = 1 \/ j = 2
    OBVIOUS
  <2> QED
    BY <2>2, <2>3, <2>4 DEF Expected, S
<1> QED
  BY <1>1, <1>2

(* The records of a call.                                                  *)
Rest(a, s) == /\ a.run = s.run /\ a.text = s.text /\ a.result = s.result
              /\ a.recovered = s.recovered

LEMMA SessionFields ==
  ASSUME NEW s \in Session
  PROVE  /\ s.pc \in {"new", "attached", "following", "reading", "done"}
         /\ s.run \in Nat /\ s.from \in Nat /\ s.stream \in Seq(Events)
         /\ s.text \in Seq(Nat) /\ s.result \in Results
         /\ s.recovered \in BOOLEAN /\ s.alone \in BOOLEAN
         /\ Len(s.stream) \in Nat /\ Len(s.text) \in Nat
         /\ s.tries \in 0..(SubmitAttempts + ReadAttempts)
BY DEF Session

LEMMA StreamAppended ==
  ASSUME NEW s \in Session, NEW e \in Events
  PROVE  LET a == [s EXCEPT !.stream = Append(@, e)] IN
         /\ a \in Session /\ a.stream = Append(s.stream, e) /\ Rest(a, s)
         /\ a.pc = s.pc /\ a.from = s.from /\ a.alone = s.alone
<1>1. Append(s.stream, e) \in Seq(Events)
  BY SessionFields
<1> QED
  BY <1>1 DEF Session, Rest

LEMMA Answered ==
  ASSUME NEW s \in Session, NEW result \in Results
  PROVE  LET a == answer(s, result) IN
         /\ a \in Session /\ a.pc = "done" /\ a.result = result
         /\ a.stream = <<>> /\ a.from = 0 /\ a.run = s.run /\ a.text = s.text
         /\ a.recovered = s.recovered /\ a.alone = s.alone
<1>1. 0 \in 0..(SubmitAttempts + ReadAttempts) /\ <<>> \in Seq(Events)
  BY ClientAssumption
<1> QED
  BY <1>1 DEF answer, Session

(* What a run was told is never taken back.                                *)
TruthGrows ==
  /\ Len(truth') >= Len(truth)
  /\ \A r \in 1..Len(truth) :
       /\ Len(truth'[r]) >= Len(truth[r])
       /\ \A i \in 1..Len(truth[r]) : truth'[r][i] = truth[r][i]

LEMMA TruthTypes ==
  ASSUME ClientTypeOK
  PROVE  /\ Len(truth) \in Nat /\ Len(due) = Len(truth)
         /\ \A r \in 1..Len(truth) :
              /\ truth[r] \in Seq(Ends \cup {"interrupted"}) /\ Len(truth[r]) \in Nat
              /\ due[r] \in Seq(Ends \cup {"delta"}) /\ Len(due[r]) \in Nat
              /\ truth[r] = <<>> <=> Len(truth[r]) = 0
<1>1. truth \in Seq(Seq(Ends \cup {"interrupted"})) /\ due \in Seq(Seq(Ends \cup {"delta"}))
      /\ Len(due) = Len(truth)
  BY DEF ClientTypeOK
<1>2. \A r \in 1..Len(truth) : truth[r] \in Seq(Ends \cup {"interrupted"})
                               /\ due[r] \in Seq(Ends \cup {"delta"})
  BY <1>1
<1>3. \A q \in Seq(Ends \cup {"interrupted"}) : (q = <<>> <=> Len(q) = 0) /\ Len(q) \in Nat
  OBVIOUS
<1>4. \A q \in Seq(Ends \cup {"delta"}) : Len(q) \in Nat
  OBVIOUS
<1> QED
  BY <1>1, <1>2, <1>3, <1>4

LEMMA TypeAfter ==
  ASSUME ClientTypeOK'
  PROVE  /\ Len(truth') \in Nat /\ Len(due') = Len(truth')
         /\ \A r \in 1..Len(truth') :
              /\ truth'[r] \in Seq(Ends \cup {"interrupted"}) /\ Len(truth'[r]) \in Nat
              /\ due'[r] \in Seq(Ends \cup {"delta"}) /\ Len(due'[r]) \in Nat
              /\ truth'[r] = <<>> <=> Len(truth'[r]) = 0
<1>1. truth' \in Seq(Seq(Ends \cup {"interrupted"})) /\ due' \in Seq(Seq(Ends \cup {"delta"}))
      /\ Len(due') = Len(truth')
  BY DEF ClientTypeOK
<1>2. \A r \in 1..Len(truth') : truth'[r] \in Seq(Ends \cup {"interrupted"})
                               /\ due'[r] \in Seq(Ends \cup {"delta"})
  BY <1>1
<1>3. \A q \in Seq(Ends \cup {"interrupted"}) : (q = <<>> <=> Len(q) = 0) /\ Len(q) \in Nat
  OBVIOUS
<1>4. \A q \in Seq(Ends \cup {"delta"}) : Len(q) \in Nat
  OBVIOUS
<1> QED
  BY <1>1, <1>2, <1>3, <1>4

ToldAfter(r, x) == \E i \in 1..Len(truth'[r]) : truth'[r][i] = x

LEMMA ToldGrows ==
  ASSUME ClientTypeOK, ClientTypeOK', TruthGrows
  PROVE  \A r \in 1..Len(truth) : \A x : Told(r, x) => ToldAfter(r, x)
<1> SUFFICES ASSUME NEW r \in 1..Len(truth), NEW x, Told(r, x)
             PROVE  ToldAfter(r, x)
  OBVIOUS
<1>1. PICK i \in 1..Len(truth[r]) : truth[r][i] = x
  BY DEF Told
<1>2. /\ Len(truth'[r]) >= Len(truth[r]) /\ truth'[r][i] = truth[r][i]
      /\ Len(truth') >= Len(truth)
  BY DEF TruthGrows
<1>3. Len(truth) \in Nat /\ Len(truth') \in Nat /\ Len(truth[r]) \in Nat
  BY TruthTypes, TypeAfter
<1>4. r \in 1..Len(truth')
  BY <1>2, <1>3
<1>5. Len(truth'[r]) \in Nat
  BY <1>4, TypeAfter
<1>6. i \in 1..Len(truth'[r])
  BY <1>2, <1>3, <1>5
<1> QED
  BY <1>1, <1>2, <1>6 DEF ToldAfter

(* What stays of a call that is not concerned, or whose stream alone is.   *)
LEMMA Endings ==
  ASSUME ClientTypeOK, ClientTypeOK', TruthGrows
  PROVE  \A r \in 1..Len(truth) : truth[r] # <<>> =>
           r \in 1..Len(truth') /\ truth'[r] # <<>> /\ truth'[r][1] = truth[r][1]
<1> SUFFICES ASSUME NEW r \in 1..Len(truth), truth[r] # <<>>
             PROVE  r \in 1..Len(truth') /\ truth'[r] # <<>> /\ truth'[r][1] = truth[r][1]
  OBVIOUS
<1>1. Len(truth[r]) >= 1 /\ 1 \in 1..Len(truth[r]) /\ Len(truth[r]) \in Nat /\ Len(truth) \in Nat
  BY TruthTypes
<1>2. /\ Len(truth'[r]) >= Len(truth[r]) /\ Len(truth') >= Len(truth)
      /\ truth'[r][1] = truth[r][1]
  BY <1>1 DEF TruthGrows
<1>3. Len(truth') \in Nat
  BY TypeAfter
<1>4. r \in 1..Len(truth')
  BY <1>1, <1>2, <1>3
<1>5. Len(truth'[r]) \in Nat /\ (truth'[r] = <<>> <=> Len(truth'[r]) = 0)
  BY <1>4, TypeAfter
<1> QED
  BY <1>1, <1>2, <1>4, <1>5

LEMMA KeptCall ==
  ASSUME ClientTypeOK, ClientTypeOK', TruthGrows, NEW d \in Calls,
         Begun(d), Returned(d), OwnText(d),
         Rest(client'[d], client[d]), client'[d].pc = client[d].pc,
         client'[d].alone => client[d].alone,
         client'[d].stream = client[d].stream \/ Subscribed(d)
  PROVE  Begun(d)' /\ Returned(d)' /\ OwnText(d)'
<1>1. client[d] \in Session /\ client'[d] \in Session /\ client[d].run <= Len(truth)
  BY DEF ClientTypeOK
<1> HIDE DEF Session
<1>2. client[d].run \in Nat
  BY <1>1, SessionFields
<1>3. Begun(d)'
  BY DEF Begun, Rest, Subscribed
<1>4. OwnText(d)'
  BY DEF OwnText, Rest
<1>5. ASSUME client[d].pc = "done", ~client[d].recovered, client[d].result \in Ends
      PROVE  /\ client[d].run > 0 /\ truth'[client[d].run] # <<>>
             /\ IF d \in TurnCalls
                THEN /\ client[d].result = truth'[client[d].run][1]
                     /\ client[d].text = IF client[d].result = "failed" THEN <<>> ELSE <<client[d].run, client[d].run>>
                ELSE ToldAfter(client[d].run, client[d].result)
  <2>1. /\ client[d].run \in 1..Len(truth) /\ truth[client[d].run] # <<>>
        /\ IF d \in TurnCalls
           THEN /\ client[d].result = truth[client[d].run][1]
                /\ client[d].text = IF client[d].result = "failed" THEN <<>> ELSE <<client[d].run, client[d].run>>
           ELSE Told(client[d].run, client[d].result)
    BY <1>1, <1>2, <1>5, TruthTypes DEF Returned
  <2>2. truth'[client[d].run] # <<>> /\ truth'[client[d].run][1] = truth[client[d].run][1]
    BY <2>1, Endings
  <2>3. Told(client[d].run, client[d].result) => ToldAfter(client[d].run, client[d].result)
    BY <2>1, ToldGrows
  <2> QED
    BY <2>1, <2>2, <2>3
<1>6. ASSUME client[d].pc = "done", client[d].recovered
      PROVE  /\ client[d].run > 0 /\ truth'[client[d].run] # <<>>
             /\ client[d].result # "completed" => ToldAfter(client[d].run, client[d].result)
  <2>1. /\ client[d].run \in 1..Len(truth) /\ truth[client[d].run] # <<>>
        /\ client[d].result # "completed" => Told(client[d].run, client[d].result)
    BY <1>1, <1>2, <1>6, TruthTypes DEF Returned
  <2>2. truth'[client[d].run] # <<>>
    BY <2>1, Endings
  <2>3. Told(client[d].run, client[d].result) => ToldAfter(client[d].run, client[d].result)
    BY <2>1, ToldGrows
  <2> QED
    BY <2>1, <2>2, <2>3
<1>7. Returned(d)'
  BY <1>5, <1>6 DEF Returned, Rest, Told, ToldAfter
<1> QED
  BY <1>3, <1>4, <1>7

LEMMA KeptBuffered ==
  ASSUME ClientTypeOK, ClientTypeOK', TruthGrows, NEW d \in Calls, Buffered(d),
         client'[d].stream = client[d].stream
  PROVE  Buffered(d)'
<1> DEFINE q == client[d].stream
<1>1. q \in Seq(Events)
  BY DEF ClientTypeOK, Session
<1> DEFINE good(i) == /\ q[i].type = "lost" <=> q[i].run = 0
                      /\ q[i].type = "lost" => i = Len(q)
                      /\ q[i].run <= Len(truth')
                      /\ q[i].type \in Ends => ToldAfter(q[i].run, q[i].type)
<1>2. SUFFICES ASSUME NEW i \in 1..Len(q) PROVE good(i)
  <2>1. client'[d].stream = q /\ \A r, end : Told(r, end)' <=> ToldAfter(r, end)
    BY DEF Told, ToldAfter
  <2> HIDE DEF q
  <2>2. (\A i \in 1..Len(q) : good(i)) => Buffered(d)'
    BY <2>1 DEF Buffered
  <2> QED BY <2>2
<1>3. /\ q[i].type = "lost" <=> q[i].run = 0
      /\ q[i].type = "lost" => i = Len(q)
      /\ q[i].run <= Len(truth)
      /\ q[i].type \in Ends => Told(q[i].run, q[i].type)
  BY DEF Buffered
<1>4. q[i] \in Events
  BY <1>1
<1>9. q[i].run \in Nat
  BY <1>4 DEF Events
<1>5. q[i].run <= Len(truth')
  BY <1>3, <1>9, TruthTypes, TypeAfter DEF TruthGrows
<1>6. ASSUME q[i].type \in Ends PROVE ToldAfter(q[i].run, q[i].type)
  <2>1. q[i].type # "lost"
    BY <1>6 DEF Ends
  <2>2. q[i].run \in 1..Len(truth) /\ Told(q[i].run, q[i].type)
    BY <1>3, <1>9, <1>6, <2>1, TruthTypes
  <2> QED
    BY <2>2, ToldGrows
<1> QED
  BY <1>3, <1>5, <1>6

LEMMA AddedBuffered ==
  ASSUME ClientTypeOK, ClientTypeOK', TruthGrows, NEW d \in Calls, Buffered(d),
         NEW e \in Events, ~Lost(client[d].stream),
         client'[d].stream = Append(client[d].stream, e),
         e.type = "lost" <=> e.run = 0, e.run <= Len(truth),
         e.type \in Ends => Told(e.run, e.type)
  PROVE  Buffered(d)'
<1> DEFINE q == client[d].stream
           p == Append(q, e)
<1>1. q \in Seq(Events)
  BY DEF ClientTypeOK, Session
<1>2. /\ p \in Seq(Events) /\ Len(p) = Len(q) + 1 /\ p[Len(q) + 1] = e
      /\ \A i \in 1..Len(q) : p[i] = q[i]
      /\ Len(q) \in Nat
  BY <1>1, AppendFacts
<1>3. \A i \in 1..Len(q) : q[i].type # "lost"
  <2>1. Len(q) = 0 \/ q[Len(q)].type # "lost"
    BY <1>1 DEF Lost, Last
  <2> QED
    BY <1>2, <2>1 DEF Buffered
<1>0. client'[d].stream = p
  OBVIOUS
<1> HIDE DEF p
<1>4. SUFFICES ASSUME NEW i \in 1..Len(p)
               PROVE  /\ p[i].type = "lost" <=> p[i].run = 0
                      /\ p[i].type = "lost" => i = Len(p)
                      /\ p[i].run <= Len(truth')
                      /\ p[i].type \in Ends => ToldAfter(p[i].run, p[i].type)
  BY <1>0 DEF Buffered, Told, ToldAfter
<1>5. /\ p[i].type = "lost" <=> p[i].run = 0
      /\ p[i].type = "lost" => i = Len(p)
      /\ p[i].run <= Len(truth)
      /\ p[i].type \in Ends => Told(p[i].run, p[i].type)
  <2>1. CASE i \in 1..Len(q)
    <3>1. p[i] = q[i] /\ q[i].type # "lost"
      BY <1>2, <1>3, <2>1
    <3>2. /\ q[i].type = "lost" <=> q[i].run = 0
          /\ q[i].run <= Len(truth)
          /\ q[i].type \in Ends => Told(q[i].run, q[i].type)
      BY <2>1 DEF Buffered
    <3> QED BY <3>1, <3>2
  <2>2. CASE i = Len(q) + 1
    BY <1>2, <2>2
  <2> QED
    BY <1>2, <2>1, <2>2
<1>6. p[i] \in Events
  BY <1>2
<1>9. p[i].run \in Nat
  BY <1>6 DEF Events
<1>7. p[i].run <= Len(truth')
  BY <1>5, <1>9, TruthTypes, TypeAfter DEF TruthGrows
<1>8. ASSUME p[i].type \in Ends PROVE ToldAfter(p[i].run, p[i].type)
  <2>1. p[i].type # "lost"
    BY <1>8 DEF Ends
  <2>2. p[i].run \in 1..Len(truth) /\ Told(p[i].run, p[i].type)
    BY <1>5, <1>9, <1>8, <2>1, TruthTypes
  <2> QED
    BY <2>2, ToldGrows
<1> QED
  BY <1>5, <1>7, <1>8

LEMMA ReplaceFacts ==
  ASSUME NEW S, NEW q \in Seq(S), NEW i \in 1..Len(q), NEW x \in S
  PROVE  LET p == [q EXCEPT ![i] = x] IN
         /\ p \in Seq(S) /\ Len(p) = Len(q) /\ p[i] = x
         /\ \A j \in 1..Len(q) : j # i => p[j] = q[j]
<1> DEFINE p == [q EXCEPT ![i] = x]
<1>1. p \in [1..Len(q) -> S] /\ Len(q) \in Nat
  OBVIOUS
<1>2. p \in Seq(S) /\ Len(p) = Len(q)
  BY <1>1, SMTT(20)
<1> QED
  BY <1>2

LEMMA EndAdded ==
  ASSUME ClientTypeOK, NEW k \in 1..Len(truth), NEW x \in Ends \cup {"interrupted"},
         truth' = [truth EXCEPT ![k] = Append(@, x)]
  PROVE  /\ truth' \in Seq(Seq(Ends \cup {"interrupted"})) /\ Len(truth') = Len(truth)
         /\ truth'[k] = Append(truth[k], x) /\ Len(truth'[k]) = Len(truth[k]) + 1
         /\ truth'[k][Len(truth[k]) + 1] = x
         /\ \A r \in 1..Len(truth) : r # k => truth'[r] = truth[r]
         /\ TruthGrows
<1> DEFINE X == Ends \cup {"interrupted"}
           a == Append(truth[k], x)
<1>1. truth \in Seq(Seq(X)) /\ truth[k] \in Seq(X) /\ x \in X
  BY TruthTypes DEF ClientTypeOK
<1>2. /\ a \in Seq(X) /\ Len(a) = Len(truth[k]) + 1 /\ a[Len(truth[k]) + 1] = x
      /\ \A i \in 1..Len(truth[k]) : a[i] = truth[k][i]
  BY <1>1, AppendFacts
<1>3. truth' = [truth EXCEPT ![k] = a]
  OBVIOUS
<1> HIDE DEF X, a
<1>4. /\ truth' \in Seq(Seq(X)) /\ Len(truth') = Len(truth) /\ truth'[k] = a
      /\ \A r \in 1..Len(truth) : r # k => truth'[r] = truth[r]
  BY <1>1, <1>2, <1>3, ReplaceFacts
<1>5. \A r \in 1..Len(truth) : Len(truth[r]) \in Nat
  BY TruthTypes
<1>6. TruthGrows
  BY <1>2, <1>4, <1>5, TruthTypes DEF TruthGrows
<1>7. /\ truth'[k] = Append(truth[k], x) /\ Len(truth'[k]) = Len(truth[k]) + 1
      /\ truth'[k][Len(truth[k]) + 1] = x
  BY <1>2, <1>4 DEF a
<1> QED
  BY <1>4, <1>6, <1>7 DEF X

LEMMA FinishType ==
  ASSUME ClientTypeOK, ServerInv, NEW end \in Ends, finish(end)
  PROVE  /\ ClientTypeOK' /\ TruthGrows
         /\ thread.run \in 1..Len(truth) /\ Len(truth') = Len(truth)
         /\ truth'[thread.run] = Append(truth[thread.run], end)
         /\ due'[thread.run] = due[thread.run] \o segment(end)
         /\ \A r \in 1..Len(truth) : r # thread.run => truth'[r] = truth[r] /\ due'[r] = due[r]
<1> DEFINE r == thread.run
           X == Ends \cup {"interrupted"}
           Y == Ends \cup {"delta"}
<1>1. r \in 1..Len(truth)
  <2>1. thread.kind = "running" /\ r \in Nat /\ Len(truth) \in Nat
    BY TruthTypes DEF finish, ClientTypeOK
  <2> QED BY <2>1 DEF ServerInv
<1>2. truth[r] \in Seq(X) /\ due[r] \in Seq(Y) /\ segment(end) \in Seq(Y)
  BY <1>1, TruthTypes, SegmentFacts
<1>4. due[r] \o segment(end) \in Seq(Y)
  BY <1>2, ConcatFacts
<1>5. truth \in Seq(Seq(X)) /\ due \in Seq(Seq(Y)) /\ r \in 1..Len(due)
  BY <1>1 DEF ClientTypeOK
<1>6. /\ truth' = [truth EXCEPT ![r] = Append(truth[r], end)]
      /\ due' = [due EXCEPT ![r] = due[r] \o segment(end)]
  BY DEF finish
<1> HIDE DEF X, Y
<1>7. /\ truth' \in Seq(Seq(X)) /\ Len(truth') = Len(truth) /\ truth'[r] = Append(truth[r], end)
      /\ \A j \in 1..Len(truth) : j # r => truth'[j] = truth[j]
      /\ TruthGrows
  BY <1>1, <1>6, EndAdded DEF X
<1>8. /\ due' \in Seq(Seq(Y)) /\ Len(due') = Len(due) /\ due'[r] = due[r] \o segment(end)
      /\ \A j \in 1..Len(due) : j # r => due'[j] = due[j]
  BY <1>4, <1>5, <1>6, ReplaceFacts
<1>10. /\ thread' \in [up : BOOLEAN, kind : {"idle", "running", "awaiting", "interrupted"},
                       run : Nat, log : Seq(Nat)]
       /\ Len(thread'.log) >= Len(thread.log)
  <2>1. thread.log \in Seq(Nat) /\ r \in Nat /\ 0 \in Nat /\ Len(thread.log) \in Nat
    BY DEF ClientTypeOK
  <2>2. Append(thread.log, r) \in Seq(Nat) /\ Len(Append(thread.log, r)) = Len(thread.log) + 1
    BY <2>1, AppendFacts
  <2>3. thread' = [thread EXCEPT
          !.kind = IF end = "waiting" THEN "awaiting" ELSE "idle",
          !.run = IF end = "waiting" THEN r ELSE 0,
          !.log = IF end = "failed" THEN thread.log ELSE Append(thread.log, r)]
    BY DEF finish
  <2>4. thread' \in [up : BOOLEAN, kind : {"idle", "running", "awaiting", "interrupted"},
                     run : Nat, log : Seq(Nat)]
    BY <2>1, <2>2, <2>3 DEF ClientTypeOK
  <2>5. thread'.log = IF end = "failed" THEN thread.log ELSE Append(thread.log, r)
    BY <2>3 DEF ClientTypeOK
  <2> QED
    BY <2>1, <2>2, <2>4, <2>5
<1>11. UNCHANGED <<client, faults>>
  BY DEF finish
<1>12. ClientTypeOK'
  <2>1. \A c \in Calls : client[c].run <= Len(truth) /\ client[c].from <= Len(thread.log)
                         /\ client[c].from \in Nat
    BY SessionFields DEF ClientTypeOK
  <2>2. Len(thread.log) \in Nat /\ Len(thread'.log) \in Nat
    BY <1>10 DEF ClientTypeOK
  <2>3. \A c \in Calls : client[c].from <= Len(thread'.log)
    BY <2>1, <2>2, <1>10
  <2> QED
    BY <1>7, <1>8, <1>10, <1>11, <2>1, <2>3 DEF ClientTypeOK, X, Y
<1> QED
  BY <1>1, <1>7, <1>8, <1>12 DEF ClientTypeOK

LEMMA ThreadTypes ==
  ASSUME ClientTypeOK
  PROVE  /\ thread.up \in BOOLEAN /\ thread.kind \in {"idle", "running", "awaiting", "interrupted"}
         /\ thread.run \in Nat /\ thread.log \in Seq(Nat) /\ Len(thread.log) \in Nat
BY DEF ClientTypeOK

LEMMA FinishServer ==
  ASSUME ClientTypeOK, ServerInv, NEW end \in Ends, finish(end)
  PROVE  ServerInv'
<1> DEFINE k == thread.run
<1>1. /\ ClientTypeOK' /\ TruthGrows /\ k \in 1..Len(truth) /\ Len(truth') = Len(truth)
      /\ truth'[k] = Append(truth[k], end) /\ due'[k] = due[k] \o segment(end)
      /\ \A r \in 1..Len(truth) : r # k => truth'[r] = truth[r] /\ due'[r] = due[r]
  BY FinishType
<1>2. /\ thread'.kind = IF end = "waiting" THEN "awaiting" ELSE "idle"
      /\ thread'.run = IF end = "waiting" THEN k ELSE 0
      /\ thread.kind = "running"
  BY DEF finish, ClientTypeOK
<1>3. ToldAfter(k, end) /\ truth'[k] # <<>>
  <2>1. truth[k] \in Seq(Ends \cup {"interrupted"})
    BY <1>1, TruthTypes
  <2>2. /\ Len(Append(truth[k], end)) = Len(truth[k]) + 1 /\ Len(truth[k]) \in Nat
        /\ Append(truth[k], end)[Len(truth[k]) + 1] = end /\ Append(truth[k], end) # <<>>
    BY <2>1, AppendFacts
  <2>3. Len(truth[k]) + 1 \in 1..Len(truth'[k]) /\ truth'[k][Len(truth[k]) + 1] = end
    BY <2>2, <1>1
  <2> QED
    BY <2>2, <2>3, <1>1 DEF ToldAfter
<1> HIDE DEF k
<1>4. \A r \in 1..Len(truth) : truth'[r] # <<>>
  <2> TAKE r \in 1..Len(truth)
  <2>1. CASE r = k
    BY <1>3, <2>1
  <2>2. CASE r # k
    BY <1>1, <2>2 DEF ServerInv, k
  <2> QED BY <2>1, <2>2
<1>5. ASSUME NEW r \in 1..Len(truth), NEW i \in 1..Len(due'[r]), due'[r][i] # "delta"
      PROVE  ToldAfter(r, due'[r][i])
  <2>1. \A j \in 1..Len(due[r]) : due[r][j] # "delta" => ToldAfter(r, due[r][j])
    <3> TAKE j \in 1..Len(due[r])
    <3>1. due[r][j] # "delta" => Told(r, due[r][j])
      BY DEF ServerInv
    <3> QED BY <3>1, <1>1, ToldGrows
  <2>2. CASE r # k
    BY <1>1, <1>5, <2>1, <2>2
  <2>3. CASE r = k
    <3>1. /\ due[k] \in Seq(Ends \cup {"delta"}) /\ segment(end) \in Seq(Ends \cup {"delta"})
          /\ Len(due[k]) \in Nat /\ Len(segment(end)) = Deltas(end) + 1 /\ Deltas(end) \in {0, 2}
          /\ \A j \in 0..Deltas(end) : segment(end)[j + 1] = Expected(end, j)
      BY <1>1, TruthTypes, SegmentFacts
    <3>2. /\ Len(due'[k]) = Len(due[k]) + Len(segment(end))
          /\ \A j \in 1..Len(due[k]) : due'[k][j] = due[k][j]
          /\ \A j \in 1..Len(segment(end)) : due'[k][Len(due[k]) + j] = segment(end)[j]
      BY <1>1, <3>1, ConcatFacts
    <3>3. CASE i \in 1..Len(due[k])
      BY <2>1, <2>3, <3>2, <3>3, <1>5
    <3>4. CASE i \notin 1..Len(due[k])
      <4>1. PICK j \in 0..Deltas(end) : i = Len(due[k]) + (j + 1)
        <5>1. /\ i - Len(due[k]) - 1 \in 0..Deltas(end)
              /\ i = Len(due[k]) + ((i - Len(due[k]) - 1) + 1)
          BY <2>3, <3>1, <3>2, <3>4
        <5> QED
          BY <5>1
      <4>2. j + 1 \in 1..Len(segment(end))
        BY <3>1
      <4>3. due'[k][i] = Expected(end, j)
        BY <3>1, <3>2, <4>1, <4>2
      <4>4. due'[k][i] = end
        BY <4>3, <2>3, <1>5 DEF Expected
      <4> QED
        BY <4>4, <1>3, <2>3
    <3> QED
      BY <3>3, <3>4
  <2> QED
    BY <2>2, <2>3
<1>6. thread'.run <= Len(truth') /\ (thread'.kind = "idle" <=> thread'.run = 0)
  BY <1>1, <1>2, TruthTypes
<1>7. thread'.kind = "awaiting" => ToldAfter(thread'.run, "waiting")
  BY <1>2, <1>3
<1>8. thread'.kind # "interrupted"
  BY <1>2
<1> QED
  BY <1>1, <1>4, <1>5, <1>6, <1>7, <1>8 DEF ServerInv, Told, ToldAfter

LEMMA FinishCall ==
  ASSUME ClientTypeOK, ServerInv, NEW end \in Ends, finish(end), NEW d \in Calls, CallInv(d)
  PROVE  CallInv(d)'
<1> DEFINE k == thread.run
<1>1. /\ ClientTypeOK' /\ TruthGrows /\ k \in 1..Len(truth) /\ Len(truth') = Len(truth)
      /\ truth'[k] = Append(truth[k], end) /\ due'[k] = due[k] \o segment(end)
      /\ \A r \in 1..Len(truth) : r # k => truth'[r] = truth[r] /\ due'[r] = due[r]
  BY FinishType
<1>2. client' = client /\ thread.kind = "running"
  BY DEF finish
<1>3. client[d] \in Session /\ client[d].run <= Len(truth)
  BY DEF ClientTypeOK
<1>4. Begun(d)' /\ Returned(d)' /\ OwnText(d)'
  BY <1>1, <1>2, KeptCall DEF CallInv, Rest
<1>5. Buffered(d)'
  BY <1>1, <1>2, KeptBuffered DEF CallInv
<1>6. SingleWriter(d)'
  <2>1. thread'.log = IF end = "failed" THEN thread.log ELSE Append(thread.log, k)
    BY DEF finish, ClientTypeOK
  <2>2. thread'.kind # "running"
    BY DEF finish, ClientTypeOK
  <2>3. ~(client[d].pc = "attached" /\ client[d].alone)
    BY <1>2 DEF CallInv, SingleWriter
  <2>4. ASSUME client[d].pc \in {"following", "reading"}, client[d].alone,
               NEW j \in (client[d].from + 1)..Len(thread'.log)
        PROVE  thread'.log[j] = client[d].run
    <3>1. /\ k = client[d].run
          /\ \A i \in (client[d].from + 1)..Len(thread.log) : thread.log[i] = client[d].run
      BY <1>2, <2>4 DEF CallInv, SingleWriter
    <3>2. thread.log \in Seq(Nat) /\ k \in Nat /\ Len(thread.log) \in Nat
      BY ThreadTypes
    <3>3. CASE end = "failed"
      BY <2>1, <3>1, <3>3, <2>4
    <3>4. CASE end # "failed"
      <4>1. /\ Len(thread'.log) = Len(thread.log) + 1 /\ thread'.log[Len(thread.log) + 1] = k
            /\ \A i \in 1..Len(thread.log) : thread'.log[i] = thread.log[i]
        BY <2>1, <3>2, <3>4, AppendFacts
      <4>2. client[d].from \in Nat
        BY <1>3, SessionFields
      <4>3. CASE j = Len(thread.log) + 1
        BY <4>1, <4>3, <3>1
      <4>4. CASE j # Len(thread.log) + 1
        <5>1. j \in 1..Len(thread.log) /\ j \in (client[d].from + 1)..Len(thread.log)
          BY <4>1, <4>2, <4>4, <2>4, <3>2
        <5> QED BY <5>1, <4>1, <3>1
      <4> QED BY <4>3, <4>4
    <3> QED BY <3>3, <3>4
  <2> QED
    BY <1>2, <2>2, <2>3, <2>4 DEF SingleWriter
<1>7. ASSUME d \in TurnCalls PROVE TurnInv(d)'
  <2>1. TurnInv(d)
    BY <1>7 DEF CallInv
  <2>2. client'[d].pc = "attached" => OnlyLost(d)'
    BY <1>2, <2>1 DEF TurnInv, OnlyLost
  <2>3. ASSUME client[d].pc = "following" PROVE FirstSegment(d)'
    <3> DEFINE n == client[d].run
    <3>1. n \in 1..Len(truth) /\ Len(client[d].text) \in Nat
      BY <1>3, <2>3, SessionFields, TruthTypes DEF CallInv, Begun
    <3>2. CASE n # k
      <4>1. truth'[n] = truth[n] /\ due'[n] = due[n]
        BY <3>1, <3>2, <1>1
      <4> QED
        BY <4>1, <2>1, <1>2 DEF TurnInv, FirstSegment, OnlyLost
    <3>3. CASE n = k
      <4>1. /\ due[k] \in Seq(Ends \cup {"delta"}) /\ segment(end) \in Seq(Ends \cup {"delta"})
            /\ Len(due[k]) \in Nat /\ Len(segment(end)) = Deltas(end) + 1 /\ Deltas(end) \in {0, 2}
            /\ \A j \in 0..Deltas(end) : segment(end)[j + 1] = Expected(end, j)
        BY <1>1, TruthTypes, SegmentFacts
      <4>2. /\ Len(due'[k]) = Len(due[k]) + Len(segment(end))
            /\ \A j \in 1..Len(due[k]) : due'[k][j] = due[k][j]
            /\ \A j \in 1..Len(segment(end)) : due'[k][Len(due[k]) + j] = segment(end)[j]
        BY <1>1, <4>1, ConcatFacts
      <4>3. truth[k] \in Seq(Ends \cup {"interrupted"}) /\ Len(truth[k]) \in Nat
            /\ (truth[k] = <<>> <=> Len(truth[k]) = 0)
        BY <1>1, TruthTypes
      <4>4. CASE truth[k] = <<>>
        <5>1. OnlyLost(d) /\ Len(client[d].text) = 0 /\ due[k] = <<>>
          BY <1>1, <2>1, <2>3, <3>3, <4>4 DEF TurnInv, FirstSegment, ServerInv
        <5>2. truth'[k][1] = end /\ truth'[k] # <<>> /\ end # "interrupted"
          BY <1>1, <4>3, <4>4, AppendFacts DEF Ends
        <5>3. \A j \in 0..Deltas(end) : j < Len(due'[k]) /\ due'[k][j + 1] = Expected(end, j)
          <6> TAKE j \in 0..Deltas(end)
          <6>1. j + 1 \in 1..Len(segment(end)) /\ Len(due[k]) = 0
            BY <4>1, <5>1
          <6> QED BY <6>1, <4>1, <4>2
        <5> QED
          BY <5>1, <5>2, <5>3, <4>1, <1>2, <3>3 DEF FirstSegment, OnlyLost
      <4>5. CASE truth[k] # <<>>
        <5>1. truth'[k] # <<>> /\ truth'[k][1] = truth[k][1]
          BY <1>1, <4>5, Endings
        <5> DEFINE first == truth[k][1]
                   seen == Len(client[d].text)
        <5>2. Deltas(first) \in {0, 2}
          BY DEF Deltas
        <5> HIDE DEF first
        <5>3. /\ first = "interrupted" => OnlyLost(d) /\ seen = 0 /\ client[d].stream # <<>>
              /\ first # "interrupted" =>
                /\ seen <= Deltas(first)
                /\ client[d].stream = <<>> => \A j \in 0..(Deltas(first) - seen) :
                     j < Len(due[k]) /\ due[k][j + 1] = Expected(first, seen + j)
                /\ ~OnlyLost(d) =>
                     /\ client[d].stream[1] = Event(Expected(first, seen), k)
                     /\ \A i \in 2..Len(client[d].stream) : client[d].stream[i].type = "lost"
                     /\ Len(client[d].stream) = 1 => \A j \in 1..(Deltas(first) - seen) :
                          j <= Len(due[k]) /\ due[k][j] = Expected(first, seen + j)
          BY <2>1, <2>3, <3>3, <4>5 DEF TurnInv, FirstSegment, first
        <5>4. \A j \in 0..(Deltas(first) - seen) : \A x :
                j < Len(due[k]) /\ due[k][j + 1] = x => j < Len(due'[k]) /\ due'[k][j + 1] = x
          <6> TAKE j \in 0..(Deltas(first) - seen)
          <6>1. j \in Nat
            BY <5>2, <3>1
          <6>2. j < Len(due[k]) => j + 1 \in 1..Len(due[k]) /\ j < Len(due'[k])
            BY <6>1, <4>1, <4>2
          <6> QED
            BY <6>2, <4>2
        <5>5. \A j \in 1..(Deltas(first) - seen) : \A x :
                j <= Len(due[k]) /\ due[k][j] = x => j <= Len(due'[k]) /\ due'[k][j] = x
          BY <4>1, <4>2, <5>2, <3>1
        <5>6. first = truth'[k][1]
          BY <5>1 DEF first
        <5> QED
          BY <5>1, <5>3, <5>4, <5>5, <5>6, <1>2, <3>3 DEF FirstSegment, OnlyLost
      <4> QED BY <4>4, <4>5
    <3> QED BY <3>2, <3>3
  <2>4. client[d].pc # "following" => FirstSegment(d)'
    BY <1>2 DEF FirstSegment
  <2> QED
    BY <2>2, <2>3, <2>4 DEF TurnInv
<1> QED
  BY <1>4, <1>5, <1>6, <1>7 DEF CallInv

(* An event that is sent: what a stream gets, and what a call keeps.       *)
SameBut(d) ==
  /\ Rest(client'[d], client[d]) /\ client'[d].pc = client[d].pc
  /\ client'[d].from = client[d].from /\ client'[d].alone = client[d].alone

LEMMA Delivered ==
  ASSUME ClientTypeOK, NEW e \in Events, client' = deliver(e)
  PROVE  /\ client' \in [Calls -> Session]
         /\ \A d \in Calls :
              /\ SameBut(d)
              /\ IF Subscribed(d) /\ ~Lost(client[d].stream) /\ Concerns(d, e)
                 THEN client'[d].stream = Append(client[d].stream, e)
                 ELSE client'[d].stream = client[d].stream
<1>1. \A d \in Calls : client[d] \in Session
  BY DEF ClientTypeOK
<1>2. ASSUME NEW d \in Calls
      PROVE  /\ client'[d] \in Session /\ SameBut(d)
             /\ IF Subscribed(d) /\ ~Lost(client[d].stream) /\ Concerns(d, e)
                THEN client'[d].stream = Append(client[d].stream, e)
                ELSE client'[d].stream = client[d].stream
  <2>1. CASE Subscribed(d) /\ ~Lost(client[d].stream) /\ Concerns(d, e)
    <3>1. client'[d] = [client[d] EXCEPT !.stream = Append(@, e)]
      BY <2>1 DEF deliver
    <3> QED
      BY <3>1, <1>1, <2>1, StreamAppended DEF SameBut
  <2>2. CASE ~(Subscribed(d) /\ ~Lost(client[d].stream) /\ Concerns(d, e))
    <3>1. client'[d] = client[d]
      BY <2>2 DEF deliver
    <3> QED
      BY <3>1, <2>2, <1>1 DEF SameBut, Rest
  <2> QED
    BY <2>1, <2>2
<1>3. client' = [d \in Calls |-> client'[d]]
  BY DEF deliver
<1> QED
  BY <1>2, <1>3

LEMMA KeptPart ==
  ASSUME ClientTypeOK, ClientTypeOK', TruthGrows, NEW d \in Calls, CallInv(d), SameBut(d),
         client'[d].stream = client[d].stream \/ Subscribed(d)
  PROVE  Begun(d)' /\ Returned(d)' /\ OwnText(d)'
BY KeptCall DEF CallInv, SameBut

LEMMA SendType ==
  ASSUME ClientTypeOK, NEW k \in 1..Len(due), send_event(k)
  PROVE  /\ ClientTypeOK' /\ TruthGrows /\ truth' = truth /\ thread' = thread
         /\ k \in 1..Len(truth) /\ Len(due[k]) >= 1
         /\ Len(due'[k]) = Len(due[k]) - 1
         /\ \A i \in 1..(Len(due[k]) - 1) : due'[k][i] = due[k][i + 1]
         /\ \A r \in 1..Len(truth) : r # k => due'[r] = due[r]
         /\ Event(due[k][1], k) \in Events /\ client' = deliver(Event(due[k][1], k))
         /\ due[k][1] \in Ends \cup {"delta"}
<1> DEFINE Y == Ends \cup {"delta"}
           e == Event(due[k][1], k)
<1>1. truth' = truth /\ thread' = thread /\ faults' = faults
  BY DEF send_event
<1>2. TruthGrows
  BY <1>1, TruthTypes DEF TruthGrows
<1>3. due \in Seq(Seq(Y)) /\ due[k] \in Seq(Y) /\ due[k] # <<>> /\ Len(due) = Len(truth)
      /\ k \in 1..Len(truth) /\ due' = [due EXCEPT ![k] = Tail(due[k])]
  BY TruthTypes DEF send_event, ClientTypeOK
<1>4. /\ Len(due[k]) >= 1 /\ Head(due[k]) = due[k][1] /\ due[k][1] \in Y
      /\ Tail(due[k]) \in Seq(Y) /\ Len(Tail(due[k])) = Len(due[k]) - 1
      /\ \A i \in 1..(Len(due[k]) - 1) : Tail(due[k])[i] = due[k][i + 1]
  BY <1>3, TailFacts
<1>5. /\ due' \in Seq(Seq(Y)) /\ Len(due') = Len(due) /\ due'[k] = Tail(due[k])
      /\ \A r \in 1..Len(due) : r # k => due'[r] = due[r]
  <2> HIDE DEF Y
  <2> QED BY <1>3, <1>4, ReplaceFacts
<1>6. e \in Events /\ client' = deliver(e)
  BY <1>3, <1>4 DEF Events, Event, send_event
<1>7. client' \in [Calls -> Session]
      /\ \A d \in Calls : client'[d].run = client[d].run /\ client'[d].from = client[d].from
  <2> HIDE DEF e
  <2> QED BY <1>6, Delivered DEF SameBut, Rest
<1>8. ClientTypeOK'
  BY <1>1, <1>5, <1>7 DEF ClientTypeOK
<1> QED
  BY <1>1, <1>2, <1>3, <1>4, <1>5, <1>6, <1>8

LEMMA SendServer ==
  ASSUME ClientTypeOK, ServerInv, NEW k \in 1..Len(due), send_event(k)
  PROVE  ServerInv'
<1>1. /\ truth' = truth /\ thread' = thread
      /\ k \in 1..Len(truth) /\ Len(due[k]) >= 1 /\ Len(due'[k]) = Len(due[k]) - 1
      /\ \A i \in 1..(Len(due[k]) - 1) : due'[k][i] = due[k][i + 1]
      /\ \A r \in 1..Len(truth) : r # k => due'[r] = due[r]
  BY SendType
<1>2. \A r \in 1..Len(truth) : truth[r] = <<>> => r # k
  BY <1>1, TruthTypes DEF ServerInv
<1>3. ASSUME NEW r \in 1..Len(truth), NEW i \in 1..Len(due'[r]), due'[r][i] # "delta"
      PROVE  Told(r, due'[r][i])
  <2>1. \A j \in 1..Len(due[r]) : due[r][j] # "delta" => Told(r, due[r][j])
    BY DEF ServerInv
  <2>2. CASE r = k
    <3>1. i \in 1..(Len(due[k]) - 1) /\ i + 1 \in 1..Len(due[k])
      BY <1>1, <1>3, <2>2, TruthTypes
    <3>2. due'[r][i] = due[r][i + 1] /\ i + 1 \in 1..Len(due[r])
      BY <3>1, <1>1, <2>2
    <3> QED BY <3>2, <2>1, <1>3
  <2>3. CASE r # k
    BY <1>1, <2>1, <2>3, <1>3
  <2> QED BY <2>2, <2>3
<1>4. thread.run <= Len(truth) /\ (thread.kind = "idle" <=> thread.run = 0)
      /\ (thread.kind = "awaiting" => Told(thread.run, "waiting"))
      /\ (thread.kind = "interrupted" => Told(thread.run, "interrupted"))
      /\ \A r \in 1..Len(truth) : truth[r] = <<>> =>
            due[r] = <<>> /\ thread.kind = "running" /\ thread.run = r
  BY DEF ServerInv
<1> QED
  BY <1>1, <1>2, <1>3, <1>4 DEF ServerInv, Told

LEMMA SendCall ==
  ASSUME ClientTypeOK, ServerInv, NEW k \in 1..Len(due), send_event(k), NEW d \in Calls, CallInv(d)
  PROVE  CallInv(d)'
<1> DEFINE e == Event(due[k][1], k)
<1>1. /\ ClientTypeOK' /\ TruthGrows /\ truth' = truth /\ thread' = thread
      /\ k \in 1..Len(truth) /\ Len(due[k]) >= 1 /\ Len(due'[k]) = Len(due[k]) - 1
      /\ \A i \in 1..(Len(due[k]) - 1) : due'[k][i] = due[k][i + 1]
      /\ \A r \in 1..Len(truth) : r # k => due'[r] = due[r]
      /\ e \in Events /\ client' = deliver(e) /\ due[k][1] \in Ends \cup {"delta"}
  BY SendType
<1>2. e.type = due[k][1] /\ e.run = k
  BY DEF Event
<1> HIDE DEF e
<1>3. /\ SameBut(d)
      /\ IF Subscribed(d) /\ ~Lost(client[d].stream) /\ Concerns(d, e)
         THEN client'[d].stream = Append(client[d].stream, e)
         ELSE client'[d].stream = client[d].stream
  BY <1>1, Delivered
<1>4. Begun(d)' /\ Returned(d)' /\ OwnText(d)'
  BY <1>1, <1>3, KeptPart
<1>5. Buffered(d)'
  <2>1. CASE client'[d].stream = client[d].stream
    BY <1>1, <2>1, KeptBuffered DEF CallInv
  <2>2. CASE client'[d].stream # client[d].stream
    <3>1. client'[d].stream = Append(client[d].stream, e) /\ ~Lost(client[d].stream)
      BY <1>3, <2>2
    <3>2. e.type # "lost" /\ e.run # 0 /\ e.run <= Len(truth)
      BY <1>1, <1>2, TruthTypes DEF Ends
    <3>3. e.type \in Ends => Told(e.run, e.type)
      <4>1. 1 \in 1..Len(due[k])
        BY <1>1, TruthTypes
      <4>2. due[k][1] # "delta" => Told(k, due[k][1])
        BY <1>1, <4>1 DEF ServerInv
      <4> QED BY <1>2, <4>2 DEF Ends
    <3> QED
      BY <1>1, <3>1, <3>2, <3>3, AddedBuffered DEF CallInv
  <2> QED BY <2>1, <2>2
<1>6. SingleWriter(d)'
  BY <1>1, <1>3 DEF SingleWriter, CallInv, SameBut, Rest
<1>7. ASSUME d \in TurnCalls PROVE TurnInv(d)'
  <2>1. TurnInv(d) /\ Begun(d) /\ client[d] \in Session /\ client[d].run <= Len(truth)
    BY <1>7 DEF CallInv, ClientTypeOK
  <2>2. d \notin ReplyCalls
    BY <1>7, ClientAssumption
  <2>3. k # 0
    BY <1>1
  <2>4. CASE client[d].run # k
    <3>1. client'[d].stream = client[d].stream
      BY <1>2, <1>3, <2>2, <2>3, <2>4 DEF Concerns
    <3>2. ASSUME client[d].pc = "following" PROVE due'[client[d].run] = due[client[d].run]
      <4>1. client[d].run \in 1..Len(truth)
        BY <2>1, <3>2, SessionFields, TruthTypes DEF Begun
      <4> QED BY <4>1, <1>1, <2>4
    <3> QED
      BY <2>1, <3>1, <3>2, <1>1, <1>3 DEF TurnInv, FirstSegment, OnlyLost, SameBut, Rest
  <2>5. CASE client[d].run = k
    <3>1. client[d].pc \notin {"new", "attached"}
      BY <2>1, <2>3, <2>5 DEF Begun
    <3>2. CASE client[d].pc # "following"
      BY <3>1, <3>2, <1>3 DEF TurnInv, FirstSegment, SameBut
    <3>3. CASE client[d].pc = "following"
      <4>1. client[d].stream = <<>>
        BY <3>3 DEF send_event
      <4>2. client'[d].stream = Append(<<>>, e)
        BY <1>2, <1>3, <3>3, <4>1, <2>5 DEF Subscribed, Lost, Concerns
      <4>3. client'[d].stream = <<e>> /\ client'[d].stream # <<>> /\ Len(client'[d].stream) = 1
            /\ client'[d].stream[1] = e
        BY <4>2
      <4> DEFINE first == truth[k][1]
                 seen == Len(client[d].text)
      <4>4. truth[k] # <<>>
        BY <1>1, TruthTypes DEF ServerInv
      <4>5. first # "interrupted"
        BY <2>1, <3>3, <2>5, <4>1, <4>4 DEF TurnInv, FirstSegment
      <4>6. Deltas(first) \in {0, 2} /\ seen \in Nat
        BY <2>1, SessionFields DEF Deltas
      <4> HIDE DEF first
      <4>7. /\ seen <= Deltas(first)
            /\ \A j \in 0..(Deltas(first) - seen) :
                 j < Len(due[k]) /\ due[k][j + 1] = Expected(first, seen + j)
        BY <2>1, <3>3, <2>5, <4>1, <4>4, <4>5 DEF TurnInv, FirstSegment, first
      <4>8. due[k][1] = Expected(first, seen)
        <5>1. 0 \in 0..(Deltas(first) - seen)
          BY <4>6, <4>7
        <5>2. due[k][0 + 1] = Expected(first, seen + 0)
          BY <5>1, <4>7
        <5> QED BY <5>2, <4>6
      <4>9. \A j \in 1..(Deltas(first) - seen) :
              j <= Len(due'[k]) /\ due'[k][j] = Expected(first, seen + j)
        <5> TAKE j \in 1..(Deltas(first) - seen)
        <5>1. j \in 0..(Deltas(first) - seen) /\ j \in Nat
          BY <4>6
        <5>2. j < Len(due[k]) /\ due[k][j + 1] = Expected(first, seen + j)
          BY <5>1, <4>7
        <5>3. j \in 1..(Len(due[k]) - 1) /\ j <= Len(due'[k])
          BY <5>1, <5>2, <1>1, TruthTypes
        <5> QED
          BY <5>2, <5>3, <1>1
      <4>10. e = Event(Expected(first, seen), k)
        BY <4>8 DEF e
      <4> QED
        BY <4>3, <4>4, <4>5, <4>7, <4>9, <4>10, <1>1, <1>3, <3>3, <2>5
        DEF TurnInv, FirstSegment, OnlyLost, SameBut, Rest, first
    <3> QED BY <3>2, <3>3
  <2> QED BY <2>4, <2>5
<1> QED
  BY <1>4, <1>5, <1>6, <1>7 DEF CallInv

(* The loss of a stream closes it: nothing more is expected behind it.     *)
LEMMA LostTurn ==
  ASSUME ClientTypeOK, ClientTypeOK', TruthGrows, NEW d \in Calls, CallInv(d), d \in TurnCalls,
         SameBut(d), Subscribed(d),
         IF Lost(client[d].stream) THEN client'[d].stream = client[d].stream
         ELSE client'[d].stream = Append(client[d].stream, Event("lost", 0)),
         \A r \in 1..Len(truth) : truth[r] = <<>> => truth'[r] = <<>> \/ truth'[r][1] = "interrupted"
  PROVE  TurnInv(d)'
<1> DEFINE q == client[d].stream
           p == client'[d].stream
           e == Event("lost", 0)
           n == client[d].run
           seen == Len(client[d].text)
<1>1. /\ TurnInv(d) /\ Begun(d) /\ q \in Seq(Events) /\ n \in Nat /\ seen \in Nat
      /\ n <= Len(truth) /\ Len(q) \in Nat
  BY SessionFields DEF CallInv, ClientTypeOK
<1>2. e \in Events /\ e.type = "lost"
  BY DEF Events, Event
<1> HIDE DEF e
<1>3. /\ p # <<>> /\ (Len(q) >= 1 => p[1] = q[1])
      /\ OnlyLost(d) => \A i \in 1..Len(p) : p[i].type = "lost"
      /\ ~OnlyLost(d) => /\ Len(p) >= 2 /\ Len(q) >= 1
                         /\ (\A i \in 2..Len(q) : q[i].type = "lost") =>
                            (\A i \in 2..Len(p) : p[i].type = "lost")
  <2>1. CASE Lost(q)
    <3>1. p = q /\ q # <<>> /\ q[Len(q)].type = "lost" /\ Len(q) >= 1
      BY <2>1, <1>1 DEF Lost, Last
    <3>2. ~OnlyLost(d) => Len(q) >= 2
      <4>1. Len(q) = 1 => \A i \in 1..Len(q) : q[i].type = "lost"
        BY <3>1
      <4> QED BY <4>1, <3>1, <1>1 DEF OnlyLost
    <3> QED BY <3>1, <3>2 DEF OnlyLost
  <2>2. CASE ~Lost(q)
    <3>1. p = Append(q, e)
      BY <2>2 DEF e
    <3>2. /\ Len(p) = Len(q) + 1 /\ p # <<>> /\ p[Len(q) + 1] = e
          /\ \A i \in 1..Len(q) : p[i] = q[i]
      <4> HIDE DEF p, q
      <4> QED BY <3>1, <1>1, <1>2, AppendFacts
    <3>3. ~OnlyLost(d) => Len(q) >= 1
      BY <1>1 DEF OnlyLost
    <3>4. OnlyLost(d) => \A i \in 1..Len(p) : p[i].type = "lost"
      <4>1. ASSUME OnlyLost(d), NEW i \in 1..Len(p) PROVE p[i].type = "lost"
        <5>1. i = Len(q) + 1 \/ i \in 1..Len(q)
          BY <3>2, <1>1
        <5> QED BY <5>1, <3>2, <1>2, <4>1 DEF OnlyLost
      <4> QED BY <4>1
    <3>5. (\A i \in 2..Len(q) : q[i].type = "lost") => (\A i \in 2..Len(p) : p[i].type = "lost")
      <4>1. ASSUME \A i \in 2..Len(q) : q[i].type = "lost", NEW i \in 2..Len(p)
            PROVE  p[i].type = "lost"
        <5>1. i = Len(q) + 1 \/ (i \in 2..Len(q) /\ i \in 1..Len(q))
          BY <3>2, <1>1
        <5> QED BY <5>1, <3>2, <1>2, <4>1
      <4> QED BY <4>1
    <3>6. 1 \in 1..Len(q) \/ Len(q) = 0
      BY <1>1
    <3> QED
      BY <3>2, <3>3, <3>4, <3>5, <3>6, <1>1
  <2> QED BY <2>1, <2>2
<1>4. OnlyLost(d) => OnlyLost(d)'
  BY <1>3 DEF OnlyLost
<1>5. client'[d].pc = "attached" => OnlyLost(d)'
  BY <1>1, <1>4 DEF TurnInv, SameBut
<1>6. ASSUME client[d].pc = "following" PROVE FirstSegment(d)'
  <2>1. n \in 1..Len(truth)
    BY <1>1, <1>6, TruthTypes DEF Begun
  <2>2. CASE truth[n] = <<>>
    <3>1. OnlyLost(d)' /\ seen = 0
      BY <1>1, <1>4, <1>6, <2>2 DEF TurnInv, FirstSegment
    <3>2. truth'[n] = <<>> \/ truth'[n][1] = "interrupted"
      BY <2>1, <2>2
    <3> QED
      BY <3>1, <3>2, <1>3 DEF FirstSegment, SameBut, Rest
  <2>3. CASE truth[n] # <<>>
    <3>1. truth'[n] # <<>> /\ truth'[n][1] = truth[n][1]
      BY <2>1, <2>3, Endings
    <3>2. CASE truth[n][1] = "interrupted"
      <4>1. OnlyLost(d)' /\ seen = 0
        BY <1>1, <1>4, <1>6, <2>3, <3>2 DEF TurnInv, FirstSegment
      <4> QED
        BY <3>1, <3>2, <4>1, <1>3 DEF FirstSegment, SameBut, Rest
    <3>3. CASE truth[n][1] # "interrupted"
      <4>1. /\ seen <= Deltas(truth[n][1])
            /\ ~OnlyLost(d) => /\ q[1] = Event(Expected(truth[n][1], seen), n)
                               /\ \A i \in 2..Len(q) : q[i].type = "lost"
        BY <1>1, <1>6, <2>3, <3>3 DEF TurnInv, FirstSegment
      <4>2. ~OnlyLost(d)' => /\ p[1] = Event(Expected(truth[n][1], seen), n)
                             /\ \A i \in 2..Len(p) : p[i].type = "lost"
                             /\ Len(p) # 1
        BY <4>1, <1>3, <1>4
      <4> QED
        BY <3>1, <3>3, <4>1, <4>2, <1>3 DEF FirstSegment, SameBut, Rest
    <3> QED BY <3>2, <3>3
  <2> QED BY <2>2, <2>3
<1>7. client[d].pc # "following" => FirstSegment(d)'
  BY DEF FirstSegment, SameBut
<1> QED
  BY <1>5, <1>6, <1>7 DEF TurnInv

(* The loss of a stream is buffered as an event of no run.                 *)
LEMMA LostBuffered ==
  ASSUME ClientTypeOK, ClientTypeOK', TruthGrows, NEW d \in Calls, CallInv(d),
         ~Lost(client[d].stream),
         client'[d].stream = Append(client[d].stream, Event("lost", 0))
  PROVE  Buffered(d)'
<1> DEFINE e == Event("lost", 0)
<1>1. e \in Events /\ e.type = "lost" /\ e.run = 0 /\ e.type \notin Ends
  BY DEF Events, Event, Ends
<1>2. e.run <= Len(truth) /\ client'[d].stream = Append(client[d].stream, e)
  BY <1>1, TruthTypes
<1> HIDE DEF e
<1> QED
  BY <1>1, <1>2, AddedBuffered DEF CallInv

LEMMA FaultCounted ==
  ASSUME faults \in 0..MaxFaults, faults < MaxFaults, faults' = faults + 1
  PROVE  faults' \in 0..MaxFaults
BY ClientAssumption

(* A call that a step leaves alone, on a thread whose messages and run stay. *)
LEMMA UntouchedCall ==
  ASSUME NEW d \in Calls, CallInv(d), client'[d] = client[d],
         UNCHANGED <<truth, due>>, thread'.log = thread.log,
         thread'.run = thread.run, thread'.kind = thread.kind
  PROVE  CallInv(d)'
<1>1. Begun(d)' /\ Buffered(d)'
  BY DEF CallInv, Begun, Buffered, Told
<1>2. d \in TurnCalls => TurnInv(d)'
  BY DEF CallInv, TurnInv, FirstSegment, OnlyLost
<1>3. Returned(d)'
  BY DEF CallInv, Returned, Told
<1>4. OwnText(d)' /\ SingleWriter(d)'
  BY DEF CallInv, OwnText, SingleWriter
<1> QED
  BY <1>1, <1>2, <1>3, <1>4 DEF CallInv

LEMMA LoseStream ==
  ASSUME ClientTypeOK, ServerInv, \A d \in Calls : CallInv(d), NEW c \in Calls, lose_stream(c)
  PROVE  ClientTypeOK' /\ ServerInv' /\ \A d \in Calls : CallInv(d)'
<1> DEFINE e == Event("lost", 0)
<1>1. e \in Events
  BY DEF Events, Event
<1>2. /\ thread' = thread /\ truth' = truth /\ due' = due /\ faults' = faults + 1 /\ faults < MaxFaults
      /\ Subscribed(c) /\ ~Lost(client[c].stream)
      /\ client' = [client EXCEPT ![c] = [client[c] EXCEPT !.stream = Append(@, e)]]
  BY DEF lose_stream
<1>3. TruthGrows
  BY <1>2, TruthTypes DEF TruthGrows
<1>4. \A d \in Calls : client[d] \in Session
  BY DEF ClientTypeOK
<1> DEFINE a == [client[c] EXCEPT !.stream = Append(@, e)]
<1> HIDE DEF e
<1>5. /\ a \in Session /\ a.stream = Append(client[c].stream, e) /\ Rest(a, client[c])
      /\ a.pc = client[c].pc /\ a.from = client[c].from /\ a.alone = client[c].alone
  BY <1>1, <1>4, StreamAppended
<1>6. client' = [client EXCEPT ![c] = a] /\ client \in [Calls -> Session]
  BY <1>2 DEF ClientTypeOK
<1> HIDE DEF a
<1>7. /\ client' \in [Calls -> Session] /\ client'[c] = a
      /\ \A d \in Calls : d # c => client'[d] = client[d]
  BY <1>5, <1>6
<1>8. \A d \in Calls : SameBut(d)
  BY <1>5, <1>7 DEF SameBut, Rest
<1>9. ClientTypeOK'
  <2>1. faults' \in 0..MaxFaults
    BY <1>2, FaultCounted DEF ClientTypeOK
  <2> QED
    BY <1>2, <1>7, <1>8, <2>1 DEF ClientTypeOK, SameBut, Rest
<1>10. ServerInv'
  BY <1>2 DEF ServerInv, Told
<1>11. ASSUME NEW d \in Calls PROVE CallInv(d)'
  <2>1. CallInv(d) /\ SameBut(d)
    BY <1>8
  <2>2. CASE d # c
    <3>1. client'[d] = client[d]
      BY <2>2, <1>7
    <3> QED BY <2>1, <3>1, <1>2, UntouchedCall
  <2>3. CASE d = c
    <3>1. Begun(d)' /\ Returned(d)' /\ OwnText(d)'
      BY <2>1, <2>3, <1>2, <1>3, <1>9, KeptPart
    <3>2. client'[d].stream = Append(client[d].stream, Event("lost", 0))
      BY <1>5, <1>7, <2>3 DEF e
    <3>3. Buffered(d)'
      BY <2>1, <2>3, <3>2, <1>2, <1>3, <1>9, LostBuffered
    <3>4. d \in TurnCalls => TurnInv(d)'
      BY <2>1, <2>3, <3>2, <1>2, <1>3, <1>9, LostTurn
    <3>5. SingleWriter(d)'
      BY <2>1, <1>2 DEF CallInv, SingleWriter, SameBut, Rest
    <3> QED BY <3>1, <3>3, <3>4, <3>5 DEF CallInv
  <2> QED BY <2>2, <2>3
<1> QED
  BY <1>9, <1>10, <1>11

LEMMA Crash ==
  ASSUME ClientTypeOK, ServerInv, \A d \in Calls : CallInv(d), crash
  PROVE  ClientTypeOK' /\ ServerInv' /\ \A d \in Calls : CallInv(d)'
<1> DEFINE e == Event("lost", 0)
           k == thread.run
<1>1. e \in Events /\ e.run = 0
  BY DEF Events, Event
<1>2. /\ client' = deliver(e) /\ faults' = faults + 1 /\ faults < MaxFaults
      /\ due' = [r \in DOMAIN due |-> <<>>]
      /\ truth' = IF thread.kind = "running" THEN [truth EXCEPT ![k] = Append(@, "interrupted")] ELSE truth
      /\ thread' = [thread EXCEPT !.up = FALSE, !.kind = IF @ = "running" THEN "interrupted" ELSE @]
  BY DEF crash
<1> HIDE DEF e
<1>3. /\ client' \in [Calls -> Session]
      /\ \A d \in Calls :
           /\ SameBut(d)
           /\ IF Subscribed(d) /\ ~Lost(client[d].stream) /\ Concerns(d, e)
              THEN client'[d].stream = Append(client[d].stream, e)
              ELSE client'[d].stream = client[d].stream
  BY <1>1, <1>2, Delivered
<1>4. \A d \in Calls : Concerns(d, e)
  BY <1>1 DEF Concerns
<1>5. /\ thread' \in [up : BOOLEAN, kind : {"idle", "running", "awaiting", "interrupted"},
                      run : Nat, log : Seq(Nat)]
      /\ thread'.log = thread.log /\ thread'.run = k /\ thread'.kind # "running"
      /\ thread'.kind = IF thread.kind = "running" THEN "interrupted" ELSE thread.kind
  BY <1>2 DEF ClientTypeOK
<1>6. k \in Nat /\ (thread.kind = "running" => k \in 1..Len(truth))
  BY ThreadTypes, TruthTypes DEF ServerInv
<1>7. /\ truth' \in Seq(Seq(Ends \cup {"interrupted"})) /\ Len(truth') = Len(truth) /\ TruthGrows
      /\ thread.kind = "running" => /\ Len(truth'[k]) = Len(truth[k]) + 1
                                    /\ truth'[k][Len(truth[k]) + 1] = "interrupted"
      /\ \A r \in 1..Len(truth) : r # k \/ thread.kind # "running" => truth'[r] = truth[r]
  <2>1. CASE thread.kind = "running"
    <3>1. truth' = [truth EXCEPT ![k] = Append(@, "interrupted")]
      BY <1>2, <2>1
    <3> HIDE DEF k
    <3> QED BY <1>6, <2>1, <3>1, EndAdded
  <2>2. CASE thread.kind # "running"
    <3>1. truth' = truth
      BY <1>2, <2>2
    <3> QED BY <2>2, <3>1, TruthTypes DEF ClientTypeOK, TruthGrows
  <2> QED BY <2>1, <2>2
<1>8. /\ due' \in Seq(Seq(Ends \cup {"delta"})) /\ Len(due') = Len(due)
      /\ \A r \in 1..Len(due) : due'[r] = <<>>
  <2>1. DOMAIN due = 1..Len(due) /\ Len(due) \in Nat
    BY DEF ClientTypeOK
  <2>2. due' \in [1..Len(due) -> Seq(Ends \cup {"delta"})]
    BY <1>2, <2>1
  <2> QED
    BY <2>1, <2>2, <1>2
<1>9. ClientTypeOK'
  <2>1. faults' \in 0..MaxFaults
    BY <1>2, FaultCounted DEF ClientTypeOK
  <2> QED
    BY <1>3, <1>5, <1>7, <1>8, <2>1 DEF ClientTypeOK, SameBut, Rest
<1>10. \A r \in 1..Len(truth) : truth[r] = <<>> =>
         truth'[r] # <<>> /\ truth'[r][1] = "interrupted"
  <2> TAKE r \in 1..Len(truth)
  <2>1. ASSUME truth[r] = <<>> PROVE truth'[r] # <<>> /\ truth'[r][1] = "interrupted"
    <3>1. r = k /\ thread.kind = "running" /\ Len(truth[r]) = 0
      BY <2>1, TruthTypes DEF ServerInv
    <3>2. Len(truth'[r]) = 1 /\ truth'[r][1] = "interrupted"
      BY <3>1, <1>7
    <3> QED BY <3>2
  <2> QED BY <2>1
<1>11. ServerInv'
  <2>1. \A r \in 1..Len(truth') : truth'[r] # <<>>
    BY <1>7, <1>10, <1>9, Endings
  <2>2. thread'.kind = "awaiting" => ToldAfter(thread'.run, "waiting")
    <3>1. thread'.kind = "awaiting" => thread.kind = "awaiting" /\ Told(k, "waiting")
      BY <1>5 DEF ServerInv
    <3>2. thread.kind = "awaiting" => k \in 1..Len(truth)
      BY <1>6, TruthTypes DEF ServerInv
    <3> QED BY <3>1, <3>2, <1>5, <1>7, <1>9, ToldGrows
  <2>3. thread'.kind = "interrupted" => ToldAfter(thread'.run, "interrupted")
    <3>1. CASE thread.kind = "running"
      <4>1. Len(truth[k]) + 1 \in 1..Len(truth'[k])
        BY <1>6, <1>7, <3>1, TruthTypes
      <4> QED BY <4>1, <3>1, <1>5, <1>7 DEF ToldAfter
    <3>2. CASE thread.kind # "running"
      <4>1. thread'.kind = "interrupted" => thread.kind = "interrupted" /\ Told(k, "interrupted")
        BY <1>5, <3>2 DEF ServerInv
      <4>2. thread.kind = "interrupted" => k \in 1..Len(truth)
        BY <1>6, TruthTypes DEF ServerInv
      <4> QED BY <4>1, <4>2, <1>5, <1>7, <1>9, ToldGrows
    <3> QED BY <3>1, <3>2
  <2>4. thread'.run <= Len(truth') /\ (thread'.kind = "idle" <=> thread'.run = 0)
    BY <1>5, <1>7 DEF ServerInv
  <2>5. \A r \in 1..Len(truth') : \A i \in 1..Len(due'[r]) : FALSE
    <3>1. Len(truth') = Len(due) /\ \A r \in 1..Len(due) : Len(due'[r]) = 0
      BY <1>7, <1>8 DEF ClientTypeOK
    <3> QED BY <3>1
  <2> QED
    BY <2>1, <2>2, <2>3, <2>4, <2>5 DEF ServerInv, Told, ToldAfter
<1>12. ASSUME NEW d \in Calls PROVE CallInv(d)'
  <2>1. /\ CallInv(d) /\ SameBut(d) /\ Begun(d)
        /\ IF Subscribed(d) /\ ~Lost(client[d].stream)
           THEN client'[d].stream = Append(client[d].stream, Event("lost", 0))
           ELSE client'[d].stream = client[d].stream
    BY <1>3, <1>4 DEF CallInv, e
  <2>2. Begun(d)' /\ Returned(d)' /\ OwnText(d)'
    BY <2>1, <1>7, <1>9, KeptPart
  <2>3. Buffered(d)'
    <3>1. CASE Subscribed(d) /\ ~Lost(client[d].stream)
      BY <2>1, <3>1, <1>7, <1>9, LostBuffered
    <3>2. CASE ~(Subscribed(d) /\ ~Lost(client[d].stream))
      <4>1. client'[d].stream = client[d].stream /\ Buffered(d)
        BY <2>1, <3>2 DEF CallInv
      <4> QED BY <4>1, <1>7, <1>9, KeptBuffered
    <3> QED BY <3>1, <3>2
  <2>4. d \in TurnCalls => TurnInv(d)'
    <3>1. CASE Subscribed(d)
      BY <2>1, <3>1, <1>7, <1>9, <1>10, LostTurn
    <3>2. CASE ~Subscribed(d)
      BY <2>1, <3>2 DEF Subscribed, TurnInv, FirstSegment, SameBut
    <3> QED BY <3>1, <3>2
  <2>5. SingleWriter(d)'
    <3>1. client[d].pc \in {"following", "reading"} /\ client[d].alone =>
            \A j \in (client[d].from + 1)..Len(thread.log) : thread.log[j] = client[d].run
      BY <2>1 DEF CallInv, SingleWriter
    <3>2. client[d].pc = "attached" /\ client[d].alone => client[d].from = Len(thread.log)
      BY <2>1 DEF CallInv, SingleWriter
    <3> QED BY <3>1, <3>2, <2>1, <1>5 DEF SingleWriter, SameBut, Rest
  <2> QED BY <2>2, <2>3, <2>4, <2>5 DEF CallInv
<1> QED
  BY <1>9, <1>11, <1>12

LEMMA Restart ==
  ASSUME ClientTypeOK, ServerInv, \A d \in Calls : CallInv(d), restart
  PROVE  ClientTypeOK' /\ ServerInv' /\ \A d \in Calls : CallInv(d)'
<1>1. /\ UNCHANGED <<truth, due, client, faults>>
      /\ thread' \in [up : BOOLEAN, kind : {"idle", "running", "awaiting", "interrupted"},
                      run : Nat, log : Seq(Nat)]
      /\ thread'.log = thread.log /\ thread'.run = thread.run /\ thread'.kind = thread.kind
  BY DEF restart, ClientTypeOK
<1>2. ClientTypeOK'
  BY <1>1 DEF ClientTypeOK
<1>3. ServerInv'
  BY <1>1 DEF ServerInv, Told
<1>4. ASSUME NEW d \in Calls PROVE CallInv(d)'
  BY <1>1, UntouchedCall
<1> QED
  BY <1>2, <1>3, <1>4

(* A step of a call touches nothing but the call.                          *)
LEMMA OwnStep ==
  ASSUME ClientTypeOK, ServerInv, \A d \in Calls : CallInv(d), NEW c \in Calls, NEW a \in Session,
         a.run <= Len(truth), a.from <= Len(thread.log),
         UNCHANGED <<thread, truth, due, faults>>, client' = [client EXCEPT ![c] = a]
  PROVE  /\ ClientTypeOK' /\ ServerInv' /\ client'[c] = a
         /\ \A d \in Calls \ {c} : CallInv(d)'
<1>1. /\ client' \in [Calls -> Session] /\ client'[c] = a
      /\ \A d \in Calls \ {c} : client'[d] = client[d]
  BY DEF ClientTypeOK
<1>2. ClientTypeOK'
  BY <1>1 DEF ClientTypeOK
<1>3. ServerInv'
  BY DEF ServerInv, Told
<1>4. ASSUME NEW d \in Calls \ {c} PROVE CallInv(d)'
  BY <1>1, UntouchedCall
<1> QED
  BY <1>1, <1>2, <1>3, <1>4

(* A call that fails returns no end.                                       *)
LEMMA Failed ==
  ASSUME ClientTypeOK, NEW c \in Calls, CallInv(c), client[c].pc # "done",
         client'[c] = answer(client[c], "error")
  PROVE  CallInv(c)'
<1>1. client[c] \in Session /\ "error" \in Results
  BY DEF ClientTypeOK, Results
<1>2. /\ client'[c].pc = "done" /\ client'[c].result = "error" /\ client'[c].stream = <<>>
      /\ client'[c].run = client[c].run /\ client'[c].text = client[c].text
      /\ client'[c].recovered = client[c].recovered
  BY <1>1, Answered
<1>3. ~client[c].recovered /\ \A i \in 1..Len(client[c].text) : client[c].text[i] = client[c].run
  BY DEF CallInv, Begun, OwnText
<1>4. Begun(c)' /\ Buffered(c)'
  BY <1>2 DEF Begun, Buffered
<1>5. Returned(c)'
  BY <1>2, <1>3 DEF Returned, Ends
<1>6. OwnText(c)'
  BY <1>2, <1>3 DEF OwnText
<1>7. SingleWriter(c)' /\ TurnInv(c)'
  BY <1>2 DEF SingleWriter, TurnInv, FirstSegment
<1> QED
  BY <1>4, <1>5, <1>6, <1>7 DEF CallInv

LEMMA Open ==
  ASSUME ClientTypeOK, ServerInv, \A d \in Calls : CallInv(d), NEW c \in Calls, open_event_stream(c)
  PROVE  ClientTypeOK' /\ ServerInv' /\ \A d \in Calls : CallInv(d)'
<1> DEFINE s == client[c]
<1>1. /\ s \in Session /\ s.run <= Len(truth) /\ s.from <= Len(thread.log) /\ s.pc = "new"
      /\ UNCHANGED <<thread, truth, due, faults>> /\ CallInv(c)
      /\ Len(thread.log) \in Nat /\ thread.up \in BOOLEAN
  BY ThreadTypes DEF open_event_stream, ClientTypeOK
<1>2. CASE ~thread.up
  <2> DEFINE a == answer(s, "error")
  <2>1. a \in Session /\ a.run = s.run /\ a.from = 0
    BY <1>1, Answered DEF Results
  <2>2. client' = [client EXCEPT ![c] = a]
    BY <1>2 DEF open_event_stream
  <2> HIDE DEF a
  <2>3. ClientTypeOK' /\ ServerInv' /\ client'[c] = a /\ \A d \in Calls \ {c} : CallInv(d)'
    <3>1. a.run <= Len(truth) /\ a.from <= Len(thread.log)
      BY <1>1, <2>1
    <3> QED BY <1>1, <2>1, <2>2, <3>1, OwnStep
  <2>4. CallInv(c)'
    BY <1>1, <2>3, Failed DEF a
  <2> QED BY <2>3, <2>4
<1>3. CASE thread.up
  <2> DEFINE a == [s EXCEPT !.pc = "attached", !.from = Len(thread.log),
                            !.alone = thread.kind # "running"]
  <2>1. /\ a \in Session /\ a.run = s.run /\ a.from = Len(thread.log) /\ a.pc = "attached"
        /\ a.alone = (thread.kind # "running") /\ a.stream = s.stream /\ a.text = s.text
        /\ a.recovered = s.recovered
    <3>1. (thread.kind # "running") \in BOOLEAN
      OBVIOUS
    <3> QED BY <1>1, <3>1 DEF Session
  <2>2. client' = [client EXCEPT ![c] = a]
    BY <1>3 DEF open_event_stream
  <2> HIDE DEF a
  <2>3. ClientTypeOK' /\ ServerInv' /\ client'[c] = a /\ \A d \in Calls \ {c} : CallInv(d)'
    <3>1. a.run <= Len(truth) /\ a.from <= Len(thread.log)
      BY <1>1, <2>1
    <3> QED BY <1>1, <2>1, <2>2, <3>1, OwnStep
  <2>4. s.run = 0 /\ s.text = <<>> /\ s.stream = <<>> /\ ~s.recovered
    BY <1>1 DEF CallInv, Begun
  <2>5. /\ client'[c].pc = "attached" /\ client'[c].run = 0 /\ client'[c].text = <<>>
        /\ client'[c].stream = <<>> /\ ~client'[c].recovered
        /\ client'[c].from = Len(thread'.log)
        /\ client'[c].alone => thread'.kind # "running"
    BY <1>1, <2>1, <2>3, <2>4
  <2>6. CallInv(c)'
    BY <2>5
    DEF CallInv, Begun, Buffered, TurnInv, FirstSegment, OnlyLost, Returned, OwnText, SingleWriter
  <2> QED BY <2>3, <2>6
<1> QED
  BY <1>1, <1>2, <1>3

LEMMA RestFacts ==
  ASSUME NEW q \in Seq(Nat), NEW n \in Nat, n <= Len(q)
  PROVE  LET x == SubSeq(q, n + 1, Len(q)) IN
         /\ Len(x) = Len(q) - n
         /\ \A i \in 1..Len(x) : x[i] = q[n + i]
<1> DEFINE x == SubSeq(q, n + 1, Len(q))
<1>1. Len(q) \in Nat
  OBVIOUS
<1>2. Len(x) = Len(q) - n
  BY <1>1
<1>3. ASSUME NEW i \in 1..Len(x) PROVE x[i] = q[(n + 1) + i - 1]
  BY <1>1, <1>2
<1>4. \A i \in 1..Len(x) : (n + 1) + i - 1 = n + i
  BY <1>1, <1>2
<1> QED
  BY <1>2, <1>3, <1>4

LEMMA Read ==
  ASSUME ClientTypeOK, ServerInv, \A d \in Calls : CallInv(d), NEW c \in Calls, read_for_reconcile(c)
  PROVE  ClientTypeOK' /\ ServerInv' /\ \A d \in Calls : CallInv(d)'
<1> DEFINE s == client[c]
<1>1. /\ s \in Session /\ s.run <= Len(truth) /\ s.from <= Len(thread.log) /\ s.pc = "reading"
      /\ UNCHANGED <<thread, truth, due, faults>> /\ CallInv(c)
      /\ Len(thread.log) \in Nat /\ thread.log \in Seq(Nat)
      /\ s.run \in Nat /\ s.run > 0 /\ ~s.recovered /\ s.from \in Nat /\ s.text \in Seq(Nat)
      /\ s.run \in 1..Len(truth)
  BY ThreadTypes, TruthTypes, SessionFields DEF read_for_reconcile, ClientTypeOK, CallInv, Begun
<1>2. PICK after \in {failed_read(s)} \cup (IF thread.up THEN {reconcile_buffered_run(s)} ELSE {}) :
        client' = [client EXCEPT ![c] = after]
  BY DEF read_for_reconcile
<1>3. CASE after = failed_read(s) /\ s.tries + 1 < ReadAttempts
  <2>1. after = [s EXCEPT !.tries = @ + 1]
    BY <1>3 DEF failed_read
  <2>2. /\ after \in Session /\ Rest(after, s) /\ after.pc = s.pc /\ after.from = s.from
        /\ after.stream = s.stream /\ after.alone = s.alone
    <3>1. s.tries + 1 \in 0..(SubmitAttempts + ReadAttempts)
      <4>1. s.tries \in Nat /\ SubmitAttempts \in Nat /\ ReadAttempts \in Nat
        BY <1>1, ClientAssumption, SessionFields
      <4>2. s.tries + 1 < ReadAttempts
        BY <1>3
      <4> HIDE DEF s
      <4> QED BY <4>1, <4>2
    <3> QED BY <1>1, <2>1, <3>1 DEF Session, Rest
  <2>3. ClientTypeOK' /\ ServerInv' /\ client'[c] = after /\ \A d \in Calls \ {c} : CallInv(d)'
    BY <1>1, <1>2, <2>2, OwnStep DEF Rest
  <2>4. Begun(c)' /\ Buffered(c)'
    BY <1>1, <2>2, <2>3 DEF CallInv, Begun, Buffered, Told, Rest
  <2>5. TurnInv(c)'
    BY <1>1, <2>2, <2>3 DEF TurnInv, FirstSegment
  <2>6. Returned(c)'
    BY <1>1, <2>2, <2>3 DEF Returned
  <2>7. OwnText(c)' /\ SingleWriter(c)'
    BY <1>1, <2>2, <2>3 DEF CallInv, OwnText, SingleWriter, Rest
  <2> QED BY <2>3, <2>4, <2>5, <2>6, <2>7 DEF CallInv
<1>4. CASE after = answer(s, "error")
  <2>1. after \in Session /\ after.run = s.run /\ after.from = 0
    BY <1>1, <1>4, Answered DEF Results
  <2>2. ClientTypeOK' /\ ServerInv' /\ client'[c] = after /\ \A d \in Calls \ {c} : CallInv(d)'
    <3>1. after.run <= Len(truth) /\ after.from <= Len(thread.log)
      BY <1>1, <2>1
    <3> QED BY <1>1, <1>2, <2>1, <3>1, OwnStep
  <2>3. CallInv(c)'
    BY <1>1, <1>4, <2>2, Failed
  <2> QED BY <2>2, <2>3
<1>5. CASE after = reconcile_buffered_run(s)
  <2> DEFINE status == recovered_status(s)
             b == answer(s, status)
             x == IF s.text = <<>> /\ status # "error" THEN appended_messages(s) ELSE s.text
  <2>1. status \in {"error", "completed", "waiting", "interrupted"} /\ status \in Results
    BY ThreadTypes DEF recovered_status, Results, Ends
  <2>2. x \in Seq(Nat)
    BY <1>1 DEF appended_messages
  <2>3. /\ b \in Session /\ b.pc = "done" /\ b.result = status /\ b.stream = <<>> /\ b.from = 0
        /\ b.run = s.run /\ b.text = s.text /\ b.alone = s.alone
    BY <1>1, <2>1, Answered
  <2>4. after = [b EXCEPT !.recovered = status # "error",
                          !.text = IF @ = <<>> /\ status # "error" THEN appended_messages(s) ELSE @]
    BY <1>5 DEF reconcile_buffered_run
  <2> HIDE DEF b
  <2>5. after = [b EXCEPT !.recovered = status # "error", !.text = x]
    BY <2>3, <2>4 DEF Session
  <2> HIDE DEF x, status
  <2>6. /\ after \in Session /\ after.pc = "done" /\ after.result = status /\ after.stream = <<>>
        /\ after.from = 0 /\ after.run = s.run /\ after.text = x /\ after.alone = s.alone
        /\ after.recovered = (status # "error")
    <3>1. (status # "error") \in BOOLEAN
      OBVIOUS
    <3> QED BY <2>2, <2>3, <2>5, <3>1 DEF Session
  <2>7. ClientTypeOK' /\ ServerInv' /\ client'[c] = after /\ \A d \in Calls \ {c} : CallInv(d)'
    <3>1. after.run <= Len(truth) /\ after.from <= Len(thread.log)
      BY <1>1, <2>6
    <3> QED BY <1>1, <1>2, <2>6, <3>1, OwnStep
  <2>8. Begun(c)' /\ Buffered(c)' /\ TurnInv(c)' /\ SingleWriter(c)'
    BY <2>6, <2>7 DEF Begun, Buffered, TurnInv, FirstSegment, SingleWriter
  <2>9. ASSUME status # "error"
        PROVE  /\ truth[s.run] # <<>>
               /\ status # "completed" => Told(s.run, status)
    <3>1. thread.run \in {0, s.run} /\ thread.kind # "running"
      BY <2>9 DEF status, recovered_status
    <3>2. truth[s.run] # <<>>
      BY <1>1, <3>1 DEF ServerInv
    <3>3. thread.kind # "idle" => thread.run = s.run
      BY <3>1 DEF ServerInv
    <3>4. CASE thread.kind = "idle"
      BY <3>1, <3>2, <3>4 DEF status, recovered_status
    <3>5. CASE thread.kind = "awaiting"
      <4>1. status = "waiting"
        BY <3>1, <3>5 DEF status, recovered_status
      <4> QED BY <4>1, <3>2, <3>3, <3>5 DEF ServerInv
    <3>6. CASE thread.kind = "interrupted"
      <4>1. status = "interrupted"
        BY <3>1, <3>6 DEF status, recovered_status
      <4> QED BY <4>1, <3>2, <3>3, <3>6 DEF ServerInv
    <3> QED
      BY <3>1, <3>4, <3>5, <3>6, ThreadTypes
  <2>10. Returned(c)'
    BY <2>1, <2>6, <2>7, <2>9, <1>1 DEF Returned, Told, Ends
  <2>11. s.alone => \A i \in 1..Len(x) : x[i] = s.run
    <3>1. CASE x = s.text
      BY <1>1, <3>1 DEF CallInv, OwnText
    <3>2. CASE x # s.text
      <4>1. x = SubSeq(thread.log, s.from + 1, Len(thread.log))
        BY <3>2 DEF x, appended_messages
      <4>2. s.alone => \A j \in (s.from + 1)..Len(thread.log) : thread.log[j] = s.run
        BY <1>1 DEF CallInv, SingleWriter
      <4>3. /\ Len(x) = Len(thread.log) - s.from
            /\ \A i \in 1..Len(x) : x[i] = thread.log[s.from + i]
        BY <4>1, <1>1, RestFacts
      <4>4. ASSUME NEW i \in 1..Len(x) PROVE s.from + i \in (s.from + 1)..Len(thread.log)
        <5>1. i \in 1..(Len(thread.log) - s.from)
          BY <4>3
        <5>2. s.from \in Nat /\ Len(thread.log) \in Nat
          BY <1>1
        <5> HIDE DEF s
        <5> QED BY <5>1, <5>2
      <4> QED BY <4>2, <4>3, <4>4
    <3> QED BY <3>1, <3>2
  <2>12. OwnText(c)'
    BY <2>6, <2>7, <2>11 DEF OwnText
  <2> QED
    BY <2>7, <2>8, <2>10, <2>12 DEF CallInv
<1>6. after = failed_read(s) => s.tries + 1 < ReadAttempts \/ after = answer(s, "error")
  BY DEF failed_read
<1> QED
  BY <1>2, <1>3, <1>4, <1>5, <1>6

(* A stream whose events say what the server recorded.                     *)
LEMMA StreamBuffered ==
  ASSUME NEW c, NEW w, client'[c].stream = w, truth' = truth,
         \A i \in 1..Len(w) :
           /\ w[i].type = "lost" <=> w[i].run = 0
           /\ w[i].type = "lost" => i = Len(w)
           /\ w[i].run <= Len(truth)
           /\ w[i].type \in Ends => Told(w[i].run, w[i].type)
  PROVE  Buffered(c)'
BY DEF Buffered, Told

LEMMA Next_event ==
  ASSUME ClientTypeOK, ServerInv, \A d \in Calls : CallInv(d), NEW c \in Calls, next_event(c)
  PROVE  ClientTypeOK' /\ ServerInv' /\ \A d \in Calls : CallInv(d)'
<1> DEFINE s == client[c]
           q == s.stream
           e == Head(q)
           t == [s EXCEPT !.stream = Tail(@)]
<1>1. /\ s \in Session /\ s.run <= Len(truth) /\ s.from <= Len(thread.log) /\ s.pc = "following"
      /\ q # <<>> /\ UNCHANGED <<thread, truth, due, faults>> /\ CallInv(c)
      /\ q \in Seq(Events) /\ s.run \in Nat /\ s.run > 0 /\ ~s.recovered /\ s.text \in Seq(Nat)
      /\ s.run \in 1..Len(truth) /\ Len(s.text) \in Nat
  <2>1. /\ s \in Session /\ s.run <= Len(truth) /\ s.from <= Len(thread.log)
        /\ CallInv(c) /\ Len(truth) \in Nat
    BY TruthTypes DEF ClientTypeOK
  <2>2. s.pc = "following" /\ q # <<>> /\ UNCHANGED <<thread, truth, due, faults>>
    BY DEF next_event
  <2>3. q \in Seq(Events) /\ s.run \in Nat /\ s.text \in Seq(Nat) /\ Len(s.text) \in Nat
    BY <2>1, SessionFields
  <2>4. s.run > 0 /\ ~s.recovered
    BY <2>1, <2>2 DEF CallInv, Begun
  <2> HIDE DEF s, q
  <2>5. s.run \in 1..Len(truth)
    BY <2>1, <2>3, <2>4
  <2> QED BY <2>1, <2>2, <2>3, <2>4, <2>5
<1>2. /\ Len(q) >= 1 /\ Len(q) \in Nat /\ e = q[1] /\ e \in Events
      /\ Tail(q) \in Seq(Events) /\ Len(Tail(q)) = Len(q) - 1
      /\ \A i \in 1..(Len(q) - 1) : Tail(q)[i] = q[i + 1]
  <2> HIDE DEF q
  <2> QED BY <1>1, TailFacts
<1>3. e.type \in Ends \cup {"delta", "lost"} /\ e.run \in Nat
  BY <1>2 DEF Events
<1>4. client' = [client EXCEPT ![c] = IF e.type = "lost" THEN [s EXCEPT !.pc = "reading", !.stream = <<>>]
                                      ELSE consume(t, e)]
  BY DEF next_event
<1>5. /\ t \in Session /\ Rest(t, s) /\ t.pc = s.pc /\ t.from = s.from /\ t.alone = s.alone
      /\ t.stream = Tail(q)
  BY <1>1, <1>2 DEF Session, Rest
<1> HIDE DEF t, e
<1>6. CASE e.type = "lost"
  <2> DEFINE a == [s EXCEPT !.pc = "reading", !.stream = <<>>]
  <2>1. /\ a \in Session /\ Rest(a, s) /\ a.pc = "reading" /\ a.from = s.from /\ a.alone = s.alone
        /\ a.stream = <<>>
    <3>1. <<>> \in Seq(Events)
      OBVIOUS
    <3> QED BY <1>1, <3>1 DEF Session, Rest
  <2>2. client' = [client EXCEPT ![c] = a]
    BY <1>4, <1>6
  <2> HIDE DEF a
  <2>3. ClientTypeOK' /\ ServerInv' /\ client'[c] = a /\ \A d \in Calls \ {c} : CallInv(d)'
    BY <1>1, <2>1, <2>2, OwnStep DEF Rest
  <2>4. Begun(c)' /\ Buffered(c)'
    BY <1>1, <2>1, <2>3 DEF Begun, Buffered, Rest
  <2>5. TurnInv(c)' /\ Returned(c)'
    BY <1>1, <2>1, <2>3 DEF TurnInv, FirstSegment, Returned
  <2>6. OwnText(c)' /\ SingleWriter(c)'
    BY <1>1, <2>1, <2>3 DEF CallInv, OwnText, SingleWriter, Rest
  <2> QED BY <2>3, <2>4, <2>5, <2>6 DEF CallInv
<1>7. ASSUME e.type # "lost", c \in TurnCalls
      PROVE  /\ truth[s.run] # <<>> /\ truth[s.run][1] # "interrupted" /\ e.run = s.run
             /\ e.type = Expected(truth[s.run][1], Len(s.text)) /\ Len(s.text) <= Deltas(truth[s.run][1])
             /\ \A i \in 2..Len(q) : q[i].type = "lost"
             /\ Len(q) = 1 => \A j \in 1..(Deltas(truth[s.run][1]) - Len(s.text)) :
                  /\ j <= Len(due[s.run])
                  /\ due[s.run][j] = Expected(truth[s.run][1], Len(s.text) + j)
  <2>1. FirstSegment(c) /\ ~OnlyLost(c)
    <3>1. 1 \in 1..Len(q)
      BY <1>2
    <3>2. FirstSegment(c)
      BY <1>1, <1>7 DEF CallInv, TurnInv
    <3>3. q[1].type # "lost"
      BY <1>2, <1>7
    <3> QED BY <3>1, <3>2, <3>3 DEF OnlyLost
  <2>2. truth[s.run] # <<>> /\ truth[s.run][1] # "interrupted"
    BY <2>1, <1>1 DEF FirstSegment
  <2>3. q[1] = Event(Expected(truth[s.run][1], Len(s.text)), s.run)
    BY <2>1, <2>2, <1>1 DEF FirstSegment
  <2>4. e.run = s.run /\ e.type = Expected(truth[s.run][1], Len(s.text))
    BY <2>3, <1>2 DEF Event
  <2>5. /\ Len(s.text) <= Deltas(truth[s.run][1])
        /\ \A i \in 2..Len(q) : q[i].type = "lost"
    BY <2>1, <2>2, <1>1 DEF FirstSegment
  <2>6. Len(q) = 1 => \A j \in 1..(Deltas(truth[s.run][1]) - Len(s.text)) :
          /\ j <= Len(due[s.run])
          /\ due[s.run][j] = Expected(truth[s.run][1], Len(s.text) + j)
    BY <2>1, <2>2, <1>1 DEF FirstSegment
  <2> QED
    BY <2>2, <2>4, <2>5, <2>6
<1>8. \A i \in 1..Len(Tail(q)) : i + 1 \in 1..Len(q) /\ i + 1 \in 2..Len(q) /\ Tail(q)[i] = q[i + 1]
  BY <1>2
<1>9. \A i \in 1..Len(Tail(q)) :
        /\ Tail(q)[i].type = "lost" <=> Tail(q)[i].run = 0
        /\ Tail(q)[i].type = "lost" => i = Len(Tail(q))
        /\ Tail(q)[i].run <= Len(truth)
        /\ Tail(q)[i].type \in Ends => Told(Tail(q)[i].run, Tail(q)[i].type)
  <2> TAKE i \in 1..Len(Tail(q))
  <2>1. /\ q[i + 1].type = "lost" <=> q[i + 1].run = 0
        /\ q[i + 1].type = "lost" => i + 1 = Len(q)
        /\ q[i + 1].run <= Len(truth)
        /\ q[i + 1].type \in Ends => Told(q[i + 1].run, q[i + 1].type)
    BY <1>1, <1>8 DEF CallInv, Buffered
  <2> QED BY <2>1, <1>2, <1>8
<1>10. CASE e.type # "lost" /\ e.run # s.run
  <2>1. client' = [client EXCEPT ![c] = t]
    BY <1>4, <1>5, <1>10 DEF consume, Rest
  <2>2. ClientTypeOK' /\ ServerInv' /\ client'[c] = t /\ \A d \in Calls \ {c} : CallInv(d)'
    BY <1>1, <1>5, <2>1, OwnStep DEF Rest
  <2>3. c \notin TurnCalls
    BY <1>7, <1>10
  <2>4. Buffered(c)'
    <3>1. client'[c].stream = Tail(q) /\ truth' = truth
      BY <1>1, <1>5, <2>2
    <3> QED BY <3>1, <1>9, StreamBuffered
  <2>5. Begun(c)' /\ Returned(c)' /\ OwnText(c)' /\ SingleWriter(c)'
    BY <1>1, <1>5, <2>2 DEF CallInv, Begun, Returned, OwnText, SingleWriter, Rest
  <2> QED BY <2>2, <2>3, <2>4, <2>5 DEF CallInv
<1>11. CASE e.type = "delta" /\ e.run = s.run
  <2> DEFINE x == Append(s.text, e.run)
             a == [t EXCEPT !.text = x]
  <2>1. /\ x \in Seq(Nat) /\ Len(x) = Len(s.text) + 1 /\ x[Len(s.text) + 1] = e.run
        /\ \A i \in 1..Len(s.text) : x[i] = s.text[i]
    BY <1>1, <1>3, AppendFacts
  <2>2. client' = [client EXCEPT ![c] = a]
    BY <1>4, <1>5, <1>11 DEF consume, Rest
  <2> HIDE DEF x
  <2>3. /\ a \in Session /\ a.run = s.run /\ a.text = x /\ a.pc = s.pc /\ a.from = s.from
        /\ a.alone = s.alone /\ a.stream = Tail(q) /\ ~a.recovered
    BY <1>1, <1>5, <2>1 DEF Session, Rest
  <2> HIDE DEF a
  <2>4. ClientTypeOK' /\ ServerInv' /\ client'[c] = a /\ \A d \in Calls \ {c} : CallInv(d)'
    BY <1>1, <2>2, <2>3, OwnStep
  <2>5. Buffered(c)'
    <3>1. client'[c].stream = Tail(q) /\ truth' = truth
      BY <1>1, <2>3, <2>4
    <3> QED BY <3>1, <1>9, StreamBuffered
  <2>6. \A i \in 1..Len(x) : x[i] = s.run
    <3> TAKE i \in 1..Len(x)
    <3>1. i = Len(s.text) + 1 \/ i \in 1..Len(s.text)
      BY <1>1, <2>1
    <3>2. \A j \in 1..Len(s.text) : s.text[j] = s.run
      BY <1>1 DEF CallInv, OwnText
    <3> QED BY <3>1, <3>2, <2>1, <1>11
  <2>7. Begun(c)' /\ Returned(c)' /\ OwnText(c)' /\ SingleWriter(c)'
    BY <1>1, <2>3, <2>4, <2>6 DEF CallInv, Begun, Returned, OwnText, SingleWriter
  <2>8. ASSUME c \in TurnCalls PROVE TurnInv(c)'
    <3> DEFINE first == truth[s.run][1]
               n == Len(s.text)
    <3>1. /\ truth[s.run] # <<>> /\ first # "interrupted" /\ "delta" = Expected(first, n)
          /\ n <= Deltas(first) /\ \A i \in 2..Len(q) : q[i].type = "lost"
          /\ Len(q) = 1 => \A j \in 1..(Deltas(first) - n) :
               j <= Len(due[s.run]) /\ due[s.run][j] = Expected(first, n + j)
      BY <1>7, <1>11, <2>8
    <3>2. Deltas(first) \in {0, 2} /\ n \in Nat
      BY <1>1 DEF Deltas
    <3>3. n # Deltas(first)
      <4>1. truth[s.run] \in Seq(Ends \cup {"interrupted"}) /\ Len(truth[s.run]) >= 1
        BY <1>1, <3>1, TruthTypes
      <4>2. first \in Ends \cup {"interrupted"}
        BY <4>1
      <4> QED BY <3>1, <4>2 DEF Expected, Ends
    <3> HIDE DEF first
    <3>4. n + 1 <= Deltas(first)
      BY <3>1, <3>2, <3>3
    <3>5. \A i \in 1..Len(Tail(q)) : Tail(q)[i].type = "lost"
      BY <3>1, <1>8
    <3>6. OnlyLost(c)'
      BY <3>5, <2>3, <2>4 DEF OnlyLost
    <3>7. Tail(q) = <<>> => \A j \in 0..(Deltas(first) - (n + 1)) :
            j < Len(due[s.run]) /\ due[s.run][j + 1] = Expected(first, (n + 1) + j)
      <4>1. SUFFICES ASSUME Tail(q) = <<>>, NEW j \in 0..(Deltas(first) - (n + 1))
                     PROVE  j < Len(due[s.run]) /\ due[s.run][j + 1] = Expected(first, (n + 1) + j)
        OBVIOUS
      <4>2. Len(q) = 1
        <5>1. Len(Tail(q)) = Len(q) - 1 /\ Len(q) \in Nat
          BY <1>2
        <5>2. Len(Tail(q)) = Len(<<>>) /\ Len(<<>>) = 0
          BY <4>1
        <5> QED BY <5>1, <5>2
      <4> HIDE DEF n
      <4>3. j + 1 \in 1..(Deltas(first) - n) /\ j \in Nat /\ n + (j + 1) = (n + 1) + j
        BY <3>2, <3>4
      <4>4. j + 1 <= Len(due[s.run]) /\ due[s.run][j + 1] = Expected(first, n + (j + 1))
        BY <4>2, <4>3, <3>1
      <4>5. Len(due[s.run]) \in Nat
        BY <1>1, TruthTypes
      <4> QED BY <4>3, <4>4, <4>5
    <3>8. /\ client'[c].pc = "following" /\ client'[c].run = s.run /\ Len(client'[c].text) = n + 1
          /\ client'[c].stream = Tail(q) /\ truth' = truth /\ due' = due
      BY <1>1, <2>1, <2>3, <2>4
    <3> QED
      BY <3>1, <3>4, <3>6, <3>7, <3>8 DEF TurnInv, FirstSegment, first
  <2> QED BY <2>4, <2>5, <2>7, <2>8 DEF CallInv
<1>12. CASE e.type \in Ends /\ e.run = s.run
  <2> DEFINE a == answer(t, e.type)
  <2>1. /\ a \in Session /\ a.pc = "done" /\ a.result = e.type /\ a.stream = <<>> /\ a.from = 0
        /\ a.run = s.run /\ a.text = s.text /\ ~a.recovered
    BY <1>1, <1>5, <1>12, Answered DEF Rest, Results
  <2>2. client' = [client EXCEPT ![c] = a]
    BY <1>4, <1>5, <1>12 DEF consume, Rest, Ends
  <2> HIDE DEF a
  <2>3. ClientTypeOK' /\ ServerInv' /\ client'[c] = a /\ \A d \in Calls \ {c} : CallInv(d)'
    <3>1. a.run <= Len(truth) /\ a.from <= Len(thread.log)
      BY <1>1, <2>1, ThreadTypes
    <3> QED BY <1>1, <2>1, <2>2, <3>1, OwnStep
  <2>4. Begun(c)' /\ Buffered(c)' /\ TurnInv(c)' /\ SingleWriter(c)'
    BY <2>1, <2>3 DEF Begun, Buffered, TurnInv, FirstSegment, SingleWriter
  <2>5. \A i \in 1..Len(s.text) : s.text[i] = s.run
    BY <1>1 DEF CallInv, OwnText
  <2>6. OwnText(c)'
    BY <2>1, <2>3, <2>5 DEF OwnText
  <2>7. Told(s.run, e.type) /\ truth[s.run] # <<>>
    <3>1. 1 \in 1..Len(q)
      BY <1>2
    <3>2. Told(s.run, e.type)
      BY <3>1, <1>1, <1>2, <1>12 DEF CallInv, Buffered
    <3> QED BY <3>2, <1>1, TruthTypes DEF Told
  <2>8. ASSUME c \in TurnCalls
        PROVE  /\ e.type = truth[s.run][1]
               /\ s.text = IF e.type = "failed" THEN <<>> ELSE <<s.run, s.run>>
    <3> DEFINE first == truth[s.run][1]
               n == Len(s.text)
    <3>1. e.type = Expected(first, n)
      BY <1>7, <1>12, <2>8 DEF Ends
    <3>2. n = Deltas(first) /\ e.type = first
      BY <3>1, <1>12 DEF Expected, Ends
    <3>3. CASE first = "failed"
      BY <3>2, <3>3, <1>1 DEF Deltas
    <3>4. CASE first # "failed"
      <4>1. n = 2
        BY <3>2, <3>4 DEF Deltas
      <4>2. s.text[1] = s.run /\ s.text[2] = s.run
        BY <4>1, <2>5
      <4>3. s.text = <<s.run, s.run>>
        BY <4>1, <4>2, <1>1
      <4> QED BY <4>3, <3>2, <3>4
    <3> QED BY <3>3, <3>4
  <2>9. Returned(c)'
    BY <1>1, <2>1, <2>3, <2>7, <2>8 DEF Returned, Told
  <2> QED BY <2>3, <2>4, <2>6, <2>9 DEF CallInv
<1> QED
  BY <1>3, <1>6, <1>10, <1>11, <1>12

(* A submission that is accepted: a new run without an end, or the one     *)
(* that asked.                                                             *)
LEMMA Accepted ==
  ASSUME ClientTypeOK, ServerInv, NEW c \in Calls, CanSubmit(c), accept(c)
  PROVE  /\ thread' \in [up : BOOLEAN, kind : {"idle", "running", "awaiting", "interrupted"},
                         run : Nat, log : Seq(Nat)]
         /\ thread'.kind = "running" /\ thread'.log = thread.log
         /\ thread'.run \in 1..Len(truth')
         /\ truth' \in Seq(Seq(Ends \cup {"interrupted"})) /\ Len(truth') <= MaxRuns
         /\ due' \in Seq(Seq(Ends \cup {"delta"})) /\ Len(due') = Len(truth')
         /\ TruthGrows
         /\ \A r \in 1..Len(truth) : truth'[r] = truth[r] /\ due'[r] = due[r]
         /\ c \in TurnCalls => truth'[thread'.run] = <<>>
         /\ ServerInv'
<1> DEFINE X == Ends \cup {"interrupted"}
           Y == Ends \cup {"delta"}
           k == IF c \in TurnCalls THEN Len(truth) + 1 ELSE thread.run
<1>1. /\ truth \in Seq(Seq(X)) /\ due \in Seq(Seq(Y)) /\ Len(due) = Len(truth)
      /\ Len(truth) \in Nat /\ Len(truth) <= MaxRuns /\ MaxRuns \in Nat
      /\ thread.run \in Nat /\ thread.run <= Len(truth)
  BY TruthTypes, ThreadTypes, ClientAssumption DEF ClientTypeOK, ServerInv
<1>2. thread.kind # "running"
  BY DEF CanSubmit
<1>3. \A r \in 1..Len(truth) : truth[r] # <<>>
  BY <1>2 DEF ServerInv
<1>4. k \in Nat /\ thread' = [thread EXCEPT !.kind = "running", !.run = k]
  BY <1>1 DEF accept
<1> HIDE DEF k
<1>5. /\ thread' \in [up : BOOLEAN, kind : {"idle", "running", "awaiting", "interrupted"},
                      run : Nat, log : Seq(Nat)]
      /\ thread'.kind = "running" /\ thread'.log = thread.log /\ thread'.run = k
  BY <1>4 DEF ClientTypeOK
<1>6. CASE c \in TurnCalls
  <2>1. truth' = Append(truth, <<>>) /\ due' = Append(due, <<>>) /\ k = Len(truth) + 1
    BY <1>6 DEF accept, k
  <2>2. Len(truth) < MaxRuns
    BY <1>6, ClientAssumption DEF CanSubmit
  <2>3. <<>> \in Seq(X) /\ <<>> \in Seq(Y)
    OBVIOUS
  <2> HIDE DEF X, Y
  <2>4. /\ truth' \in Seq(Seq(X)) /\ Len(truth') = Len(truth) + 1 /\ truth'[Len(truth) + 1] = <<>>
        /\ \A r \in 1..Len(truth) : truth'[r] = truth[r]
    BY <1>1, <2>1, <2>3, AppendFacts
  <2>5. /\ due' \in Seq(Seq(Y)) /\ Len(due') = Len(due) + 1 /\ due'[Len(due) + 1] = <<>>
        /\ \A r \in 1..Len(due) : due'[r] = due[r]
    BY <1>1, <2>1, <2>3, AppendFacts
  <2>6. TruthGrows
    <3>1. \A r \in 1..Len(truth) : Len(truth[r]) \in Nat
      BY TruthTypes
    <3>2. \A r \in 1..Len(truth) : /\ Len(truth'[r]) >= Len(truth[r])
                                   /\ \A i \in 1..Len(truth[r]) : truth'[r][i] = truth[r][i]
      BY <3>1, <2>4
    <3>3. Len(truth') >= Len(truth)
      BY <1>1, <2>4
    <3> QED BY <3>2, <3>3 DEF TruthGrows
  <2>7. thread'.run \in 1..Len(truth') /\ truth'[thread'.run] = <<>> /\ Len(truth') <= MaxRuns
        /\ Len(due') = Len(truth')
    BY <1>1, <1>5, <2>1, <2>2, <2>4, <2>5
  <2>8. ASSUME NEW r \in 1..Len(truth')
        PROVE  /\ truth'[r] = <<>> => due'[r] = <<>> /\ thread'.kind = "running" /\ thread'.run = r
               /\ \A i \in 1..Len(due'[r]) : due'[r][i] # "delta" => ToldAfter(r, due'[r][i])
    <3>1. CASE r \in 1..Len(truth)
      <4>1. truth'[r] = truth[r] /\ due'[r] = due[r] /\ truth[r] # <<>>
        BY <3>1, <2>4, <2>5, <1>1, <1>3
      <4>2. \A i \in 1..Len(due[r]) : due[r][i] # "delta" => Told(r, due[r][i])
        BY <3>1 DEF ServerInv
      <4> QED BY <4>1, <4>2 DEF Told, ToldAfter
    <3>2. CASE r \notin 1..Len(truth)
      <4>1. r = Len(truth) + 1
        BY <3>2, <2>4, <1>1
      <4>2. due'[r] = <<>> /\ thread'.run = r
        BY <4>1, <2>5, <1>1, <1>5, <2>1
      <4> QED BY <4>2, <1>5
    <3> QED BY <3>1, <3>2
  <2>9. thread'.run # 0 /\ thread'.run <= Len(truth')
    BY <2>7, <2>4, <1>1
  <2>10. ServerInv'
    BY <1>5, <2>8, <2>9 DEF ServerInv, Told, ToldAfter
  <2> QED
    BY <1>1, <1>5, <2>4, <2>5, <2>6, <2>7, <2>10 DEF X, Y
<1>7. CASE c \notin TurnCalls
  <2>1. truth' = truth /\ due' = due /\ k = thread.run
    BY <1>7 DEF accept, k
  <2>2. thread.kind = "awaiting"
    BY <1>7 DEF CanSubmit
  <2>3. thread.run # 0
    BY <2>2 DEF ServerInv
  <2>4. thread'.run \in 1..Len(truth') /\ thread'.run # 0
    BY <1>1, <1>5, <2>1, <2>3
  <2>5. TruthGrows
    BY <2>1, TruthTypes DEF TruthGrows
  <2>6. ASSUME NEW r \in 1..Len(truth)
        PROVE  /\ truth[r] # <<>>
               /\ \A i \in 1..Len(due[r]) : due[r][i] # "delta" => Told(r, due[r][i])
    BY <1>3 DEF ServerInv
  <2>7. ServerInv'
    BY <1>1, <1>5, <2>1, <2>4, <2>6 DEF ServerInv, Told
  <2> QED
    BY <1>1, <1>5, <1>7, <2>1, <2>4, <2>5, <2>7
<1> QED
  BY <1>6, <1>7

(* Its effect on the calls: the submitting one is given, the others are no *)
(* longer alone.                                                           *)
LEMMA Interfered ==
  ASSUME ClientTypeOK, ServerInv, \A d \in Calls : CallInv(d), NEW c \in Calls,
         CanSubmit(c), accept(c), NEW own \in Session, client' = interfere(c, own),
         own.run <= Len(truth'), own.from <= Len(thread.log), faults' \in 0..MaxFaults
  PROVE  /\ ClientTypeOK' /\ ServerInv' /\ client'[c] = own
         /\ \A d \in Calls \ {c} : CallInv(d)'
<1>1. /\ thread' \in [up : BOOLEAN, kind : {"idle", "running", "awaiting", "interrupted"},
                      run : Nat, log : Seq(Nat)]
      /\ thread'.log = thread.log
      /\ truth' \in Seq(Seq(Ends \cup {"interrupted"})) /\ Len(truth') <= MaxRuns
      /\ due' \in Seq(Seq(Ends \cup {"delta"})) /\ Len(due') = Len(truth')
      /\ TruthGrows
      /\ \A r \in 1..Len(truth) : truth'[r] = truth[r] /\ due'[r] = due[r]
      /\ ServerInv'
  BY Accepted
<1>2. ASSUME NEW d \in Calls \ {c}
      PROVE  /\ client'[d] \in Session /\ Rest(client'[d], client[d]) /\ client'[d].pc = client[d].pc
             /\ client'[d].stream = client[d].stream /\ client'[d].from = client[d].from
             /\ client'[d].alone => client[d].alone /\ client[d].pc \in {"new", "done"}
  <2>1. client[d] \in Session
    BY DEF ClientTypeOK
  <2>2. client'[d] = [client[d] EXCEPT !.alone = @ /\ client[d].pc \in {"new", "done"}]
    BY DEF interfere
  <2> DEFINE b == client[d].alone /\ client[d].pc \in {"new", "done"}
  <2>3. b \in BOOLEAN /\ client'[d] = [client[d] EXCEPT !.alone = b]
    BY <2>2
  <2> HIDE DEF b
  <2>4. /\ client'[d] \in Session /\ Rest(client'[d], client[d]) /\ client'[d].pc = client[d].pc
        /\ client'[d].stream = client[d].stream /\ client'[d].from = client[d].from
        /\ client'[d].alone = b
    BY <2>1, <2>3 DEF Session, Rest
  <2> QED BY <2>4 DEF b
<1>3. client'[c] = own /\ client' \in [Calls -> Session]
  <2>1. client'[c] = own /\ client' = [d \in Calls |-> client'[d]]
    BY DEF interfere
  <2> QED BY <2>1, <1>2
<1>4. ClientTypeOK'
  <2>1. Len(truth') >= Len(truth) /\ Len(truth) \in Nat /\ Len(truth') \in Nat
    BY <1>1, TruthTypes DEF TruthGrows
  <2>2. ASSUME NEW d \in Calls
        PROVE  client'[d].run <= Len(truth') /\ client'[d].from <= Len(thread'.log)
    <3>1. CASE d = c
      BY <3>1, <1>1, <1>3
    <3>2. CASE d # c
      <4>1. client'[d].run = client[d].run /\ client'[d].from = client[d].from
        BY <1>2, <3>2 DEF Rest
      <4>2. client[d].run \in Nat /\ client[d].run <= Len(truth) /\ client[d].from <= Len(thread.log)
        BY SessionFields DEF ClientTypeOK
      <4> QED BY <4>1, <4>2, <2>1, <1>1
    <3> QED BY <3>1, <3>2
  <2> QED BY <1>1, <1>3, <2>2 DEF ClientTypeOK
<1>5. ASSUME NEW d \in Calls \ {c} PROVE CallInv(d)'
  <2>1. /\ CallInv(d) /\ Rest(client'[d], client[d]) /\ client'[d].pc = client[d].pc
        /\ client'[d].stream = client[d].stream
        /\ client'[d].alone => client[d].alone /\ client[d].pc \in {"new", "done"}
    BY <1>2
  <2>2. Begun(d)' /\ Returned(d)' /\ OwnText(d)'
    BY <2>1, <1>1, <1>4, KeptCall DEF CallInv
  <2>3. Buffered(d)'
    BY <2>1, <1>1, <1>4, KeptBuffered DEF CallInv
  <2>4. SingleWriter(d)'
    BY <2>1 DEF SingleWriter
  <2>5. ASSUME d \in TurnCalls PROVE TurnInv(d)'
    <3>1. ASSUME client[d].pc = "following"
          PROVE  truth'[client[d].run] = truth[client[d].run] /\ due'[client[d].run] = due[client[d].run]
      <4>1. client[d].run \in Nat /\ client[d].run <= Len(truth) /\ client[d].run > 0
        BY <2>1, <3>1, SessionFields DEF ClientTypeOK, CallInv, Begun
      <4>2. client[d].run \in 1..Len(truth)
        BY <4>1, TruthTypes
      <4> QED BY <4>2, <1>1
    <3>2. client[d].pc = "attached" => OnlyLost(d)
      BY <2>1, <2>5 DEF CallInv, TurnInv
    <3>3. OnlyLost(d)' <=> OnlyLost(d)
      BY <2>1 DEF OnlyLost
    <3>4. FirstSegment(d)
      BY <2>1, <2>5 DEF CallInv, TurnInv
    <3>5. ASSUME client[d].pc = "following" PROVE FirstSegment(d)'
      <4>1. /\ client'[d].run = client[d].run /\ client'[d].text = client[d].text
            /\ client'[d].stream = client[d].stream
        BY <2>1 DEF Rest
      <4>2. /\ truth'[client'[d].run] = truth[client[d].run]
            /\ due'[client'[d].run] = due[client[d].run]
        BY <3>1, <3>5, <4>1
      <4> QED
        BY <3>3, <3>4, <3>5, <4>1, <4>2 DEF FirstSegment
    <3>6. client[d].pc # "following" => FirstSegment(d)'
      BY <2>1 DEF FirstSegment
    <3> QED
      BY <2>1, <3>2, <3>3, <3>5, <3>6 DEF TurnInv
  <2> QED BY <2>2, <2>3, <2>4, <2>5 DEF CallInv
<1> QED
  BY <1>1, <1>3, <1>4, <1>5

(* A submission without an answer: tried again, or an error.               *)
LEMMA Retried ==
  ASSUME ClientTypeOK, NEW c \in Calls, CallInv(c), client[c].pc = "attached"
  PROVE  LET a == retried(client[c]) IN
         /\ a \in Session /\ a.run = client[c].run /\ a.from <= Len(thread.log)
         /\ \/ /\ Rest(a, client[c]) /\ a.pc = "attached" /\ a.stream = client[c].stream /\ ~a.alone
            \/ a = answer(client[c], "error")
<1> DEFINE s == client[c]
<1>1. s \in Session /\ s.from <= Len(thread.log) /\ "error" \in Results
      /\ s.tries \in 0..(SubmitAttempts + ReadAttempts) /\ Len(thread.log) \in Nat
  BY SessionFields, ThreadTypes DEF ClientTypeOK, Results
<1>2. CASE s.tries + 1 < SubmitAttempts
  <2>1. s.tries + 1 \in 0..(SubmitAttempts + ReadAttempts)
    BY <1>1, <1>2, ClientAssumption
  <2>2. retried(s) = [s EXCEPT !.tries = @ + 1, !.alone = FALSE]
    BY <1>2 DEF retried
  <2> QED
    BY <1>1, <2>1, <2>2 DEF Session, Rest
<1>3. CASE ~(s.tries + 1 < SubmitAttempts)
  <2>1. retried(s) = answer(s, "error")
    BY <1>3 DEF retried
  <2>2. answer(s, "error") \in Session /\ answer(s, "error").run = s.run /\ answer(s, "error").from = 0
    BY <1>1, Answered
  <2> QED
    BY <1>1, <2>1, <2>2
<1> QED
  BY <1>2, <1>3

LEMMA StillAttached ==
  ASSUME ClientTypeOK, ClientTypeOK', TruthGrows, NEW c \in Calls, CallInv(c),
         client[c].pc = "attached", client'[c].pc = "attached", Rest(client'[c], client[c]),
         client'[c].stream = client[c].stream, ~client'[c].alone
  PROVE  CallInv(c)'
<1>1. Buffered(c)'
  BY KeptBuffered DEF CallInv
<1> QED
  BY <1>1 DEF CallInv, Begun, TurnInv, FirstSegment, OnlyLost, Returned, OwnText, SingleWriter, Rest

LEMMA Submit ==
  ASSUME ClientTypeOK, ServerInv, \A d \in Calls : CallInv(d), NEW c \in Calls, submit(c)
  PROVE  ClientTypeOK' /\ ServerInv' /\ \A d \in Calls : CallInv(d)'
<1> DEFINE s == client[c]
<1>1. /\ s \in Session /\ s.run <= Len(truth) /\ s.from <= Len(thread.log) /\ s.pc = "attached"
      /\ CallInv(c) /\ faults \in 0..MaxFaults /\ MaxFaults \in Nat
      /\ s.run = 0 /\ s.text = <<>> /\ ~s.recovered /\ s.run \in Nat
      /\ Len(thread.log) \in Nat /\ Len(truth) \in Nat
  BY SessionFields, ThreadTypes, TruthTypes, ClientAssumption DEF submit, ClientTypeOK, CallInv, Begun
<1> DEFINE u == retried(s)
<1>2. /\ u \in Session /\ u.run = s.run /\ u.from <= Len(thread.log)
      /\ \/ /\ Rest(u, s) /\ u.pc = "attached" /\ u.stream = s.stream /\ ~u.alone
         \/ u = answer(s, "error")
  BY <1>1, Retried
<1> HIDE DEF u
<1>3. ASSUME CanSubmit(c), accept(c), UNCHANGED faults,
             client' = interfere(c, [s EXCEPT !.pc = "following", !.run = thread'.run, !.tries = 0])
      PROVE  ClientTypeOK' /\ ServerInv' /\ \A d \in Calls : CallInv(d)'
  <2> DEFINE k == thread'.run
             a == [s EXCEPT !.pc = "following", !.run = k, !.tries = 0]
  <2>1. /\ thread'.kind = "running" /\ thread'.log = thread.log /\ k \in 1..Len(truth')
        /\ Len(truth') \in Nat /\ TruthGrows /\ (c \in TurnCalls => truth'[k] = <<>>)
    <3>1. truth' \in Seq(Seq(Ends \cup {"interrupted"}))
      BY <1>3, Accepted
    <3> QED BY <1>3, <3>1, Accepted
  <2>2. /\ a \in Session /\ a.pc = "following" /\ a.run = k /\ a.from = s.from /\ a.alone = s.alone
        /\ a.stream = s.stream /\ a.text = s.text /\ a.recovered = s.recovered
    <3>1. k \in Nat /\ 0 \in 0..(SubmitAttempts + ReadAttempts)
      BY <2>1, ClientAssumption
    <3> HIDE DEF k
    <3> QED BY <1>1, <3>1 DEF Session
  <2>3. client' = interfere(c, a) /\ a.run <= Len(truth') /\ a.from <= Len(thread.log)
        /\ faults' \in 0..MaxFaults
    BY <1>1, <1>3, <2>1, <2>2
  <2> HIDE DEF a
  <2>4. /\ ClientTypeOK' /\ ServerInv' /\ client'[c] = a
        /\ \A d \in Calls \ {c} : CallInv(d)'
    BY <1>3, <2>2, <2>3, Interfered
  <2>5. Buffered(c)'
    BY <1>1, <2>1, <2>2, <2>4, KeptBuffered DEF CallInv
  <2>6. Begun(c)' /\ Returned(c)' /\ OwnText(c)'
    BY <1>1, <2>1, <2>2, <2>4 DEF Begun, Returned, OwnText
  <2>7. SingleWriter(c)'
    <3>1. s.alone => s.from = Len(thread.log)
      BY <1>1 DEF CallInv, SingleWriter
    <3> QED BY <3>1, <1>1, <2>1, <2>2, <2>4 DEF SingleWriter
  <2>8. c \in TurnCalls => TurnInv(c)'
    <3>1. c \in TurnCalls => OnlyLost(c)
      BY <1>1 DEF CallInv, TurnInv
    <3> QED BY <3>1, <1>1, <2>1, <2>2, <2>4 DEF TurnInv, FirstSegment, OnlyLost
  <2> QED
    BY <2>4, <2>5, <2>6, <2>7, <2>8 DEF CallInv
<1>4. ASSUME CanSubmit(c), faults < MaxFaults, accept(c), client' = interfere(c, u), faults' = faults + 1
      PROVE  ClientTypeOK' /\ ServerInv' /\ \A d \in Calls : CallInv(d)'
  <2>1. TruthGrows /\ Len(truth') >= Len(truth)
    BY <1>4, Accepted DEF TruthGrows
  <2>2. truth' \in Seq(Seq(Ends \cup {"interrupted"}))
    BY <1>4, Accepted
  <2>3. u.run <= Len(truth') /\ faults' \in 0..MaxFaults
    BY <1>1, <1>2, <1>4, <2>1, <2>2
  <2>4. /\ ClientTypeOK' /\ ServerInv' /\ client'[c] = u
        /\ \A d \in Calls \ {c} : CallInv(d)'
    BY <1>2, <1>4, <2>3, Interfered
  <2>5. CallInv(c)'
    <3>1. CASE u = answer(s, "error")
      BY <1>1, <2>4, <3>1, Failed
    <3>2. CASE Rest(u, s) /\ u.pc = "attached" /\ u.stream = s.stream /\ ~u.alone
      BY <1>1, <2>1, <2>4, <3>2, StillAttached
    <3> QED BY <1>2, <3>1, <3>2
  <2> QED BY <2>4, <2>5
<1>5. ASSUME client' = [client EXCEPT ![c] = IF thread.up THEN answer(@, "error") ELSE u],
             UNCHANGED <<thread, truth, due, faults>>
      PROVE  ClientTypeOK' /\ ServerInv' /\ \A d \in Calls : CallInv(d)'
  <2> DEFINE a == IF thread.up THEN answer(s, "error") ELSE u
  <2>1. answer(s, "error") \in Session /\ answer(s, "error").run = s.run /\ answer(s, "error").from = 0
    BY <1>1, Answered DEF Results
  <2>2. a \in Session /\ a.run <= Len(truth) /\ a.from <= Len(thread.log) /\ client' = [client EXCEPT ![c] = a]
    BY <1>1, <1>2, <1>5, <2>1
  <2>3. a = answer(s, "error") \/ (Rest(a, s) /\ a.pc = "attached" /\ a.stream = s.stream /\ ~a.alone)
    BY <1>2
  <2> HIDE DEF a
  <2>4. /\ ClientTypeOK' /\ ServerInv' /\ client'[c] = a
        /\ \A d \in Calls \ {c} : CallInv(d)'
    BY <1>5, <2>2, OwnStep
  <2>5. CallInv(c)'
    <3>1. TruthGrows
      BY <1>5, TruthTypes DEF TruthGrows
    <3>2. CASE a = answer(s, "error")
      BY <1>1, <2>4, <3>2, Failed
    <3>3. CASE Rest(a, s) /\ a.pc = "attached" /\ a.stream = s.stream /\ ~a.alone
      BY <1>1, <2>4, <3>1, <3>3, StillAttached
    <3> QED BY <2>3, <3>2, <3>3
  <2> QED BY <2>4, <2>5
<1> QED
  BY <1>3, <1>4, <1>5 DEF submit, u

LEMMA ClientStep ==
  ASSUME ClientInv, [ClientNext]_clientVars
  PROVE  ClientInv'
<1>1. ClientTypeOK /\ ServerInv /\ \A c \in Calls : CallInv(c)
  BY DEF ClientInv
<1> DEFINE G == ClientTypeOK' /\ ServerInv' /\ \A c \in Calls : CallInv(c)'
<1>2. ASSUME NEW c \in Calls, Call(c) PROVE G
  BY <1>1, <1>2, Open, Submit, Next_event, Read DEF Call
<1>3. ASSUME NEW c \in Calls, lose_stream(c) PROVE G
  BY <1>1, <1>3, LoseStream
<1>4. ASSUME NEW end \in Ends, finish(end) PROVE G
  BY <1>1, <1>4, FinishType, FinishServer, FinishCall
<1>5. ASSUME NEW r \in DOMAIN due, send_event(r) PROVE G
  <2>1. r \in 1..Len(due)
    BY <1>1 DEF ClientTypeOK
  <2> QED BY <1>1, <1>5, <2>1, SendType, SendServer, SendCall
<1>6. ASSUME crash PROVE G
  BY <1>1, <1>6, Crash
<1>7. ASSUME restart PROVE G
  BY <1>1, <1>7, Restart
<1>8. ASSUME UNCHANGED clientVars PROVE G
  <2>1. thread' = thread /\ truth' = truth /\ due' = due /\ client' = client /\ faults' = faults
    BY <1>8 DEF clientVars
  <2>2. ClientTypeOK'
    BY <1>1, <2>1 DEF ClientTypeOK
  <2>3. ServerInv'
    BY <1>1, <2>1 DEF ServerInv, Told
  <2>4. ASSUME NEW d \in Calls PROVE CallInv(d)'
    BY <1>1, <2>1
    DEF CallInv, Begun, Buffered, TurnInv, FirstSegment, OnlyLost, Returned, OwnText, SingleWriter, Told
  <2> QED BY <2>2, <2>3, <2>4
<1>9. G
  BY <1>2, <1>3, <1>4, <1>5, <1>6, <1>7, <1>8 DEF ClientNext, Server
<1> QED
  BY <1>9 DEF ClientInv

LEMMA ClientStart == ClientInit => ClientInv
<1> SUFFICES ASSUME ClientInit PROVE ClientInv
  OBVIOUS
<1>1. PICK made \in Scenarios : client = [c \in Calls |->
        [pc |-> IF c \in made THEN "new" ELSE "done", run |-> 0, from |-> 0, stream |-> <<>>, text |-> <<>>,
         tries |-> 0, result |-> "none", recovered |-> FALSE, alone |-> TRUE]]
  BY DEF ClientInit
<1>2. <<>> \in Seq(Events) /\ <<>> \in Seq(Nat) /\ 0 \in 0..(SubmitAttempts + ReadAttempts)
      /\ "none" \in Results
  BY ClientAssumption DEF Results
<1>3. ASSUME NEW c \in Calls
      PROVE  /\ client[c] \in Session /\ client[c].pc \in {"new", "done"} /\ client[c].run = 0
             /\ client[c].from = 0 /\ client[c].stream = <<>> /\ client[c].text = <<>>
             /\ client[c].result = "none" /\ ~client[c].recovered
  BY <1>1, <1>2 DEF Session
<1>4. client \in [Calls -> Session]
  <2>1. client = [c \in Calls |-> client[c]]
    BY <1>1
  <2> QED BY <2>1, <1>3
<1>5. /\ thread = [up |-> TRUE, kind |-> "idle", run |-> 0, log |-> <<>>]
      /\ truth = <<>> /\ due = <<>> /\ faults = 0
  BY DEF ClientInit
<1>6. ClientTypeOK
  <2>1. thread \in [up : BOOLEAN, kind : {"idle", "running", "awaiting", "interrupted"},
                    run : Nat, log : Seq(Nat)]
    BY <1>2, <1>5
  <2>2. /\ truth \in Seq(Seq(Ends \cup {"interrupted"})) /\ Len(truth) = 0 /\ Len(truth) <= MaxRuns
        /\ due \in Seq(Seq(Ends \cup {"delta"})) /\ Len(due) = 0 /\ faults \in 0..MaxFaults
    BY <1>5, ClientAssumption
  <2>3. Len(thread.log) = 0
    BY <1>5
  <2> QED BY <1>3, <1>4, <2>1, <2>2, <2>3 DEF ClientTypeOK
<1>7. ServerInv
  BY <1>5 DEF ServerInv
<1>8. ASSUME NEW c \in Calls PROVE CallInv(c)
  BY <1>3 DEF CallInv, Begun, Buffered, TurnInv, FirstSegment, Returned, OwnText, SingleWriter, Ends
<1> QED
  BY <1>6, <1>7, <1>8 DEF ClientInv

(* Whatever streams lag or break, whatever answers are lost and whenever   *)
(* the server crashes: what run() and resume_user_input() return from an   *)
(* event is how their run ended, with the whole text of run(); what they   *)
(* recover from a snapshot is never about a run that has not ended; and a  *)
(* single writer's text is its own run's. For any number of calls, runs,   *)
(* retries and faults.                                                     *)
THEOREM ClientResults == ClientSpec => []ClientSound
<1>1. ClientInit => ClientInv
  BY ClientStart
<1>2. ClientInv /\ [ClientNext]_clientVars => ClientInv'
  BY ClientStep
<1>3. ClientInv => ClientSound
  <2> SUFFICES ASSUME ClientInv PROVE ClientSound
    OBVIOUS
  <2>1. ClientTypeOK /\ \A c \in Calls : Returned(c) /\ OwnText(c)
    BY DEF ClientInv, CallInv
  <2>2. \A c \in Calls : client[c].run \in 1..Len(truth) \/ client[c].run = 0
    BY <2>1, SessionFields, TruthTypes DEF ClientTypeOK
  <2>3. \A r \in 1..Len(truth) : \A x : Told(r, x) => x \in Range(truth[r])
    <3> SUFFICES ASSUME NEW r \in 1..Len(truth), NEW x, Told(r, x) PROVE x \in Range(truth[r])
      OBVIOUS
    <3>1. PICK i \in 1..Len(truth[r]) : truth[r][i] = x
      BY DEF Told
    <3>2. DOMAIN truth[r] = 1..Len(truth[r])
      BY <2>1, TruthTypes
    <3> QED BY <3>1, <3>2 DEF Range
  <2>4. TerminalTruthful
    BY <2>1, <2>2, <2>3 DEF TerminalTruthful, Returned
  <2>5. RecoveredTruthful
    <3>1. ASSUME NEW c \in Calls, client[c].pc = "done", client[c].recovered
          PROVE  /\ truth[client[c].run] # <<>>
                 /\ client[c].result # "completed" => client[c].result \in Range(truth[client[c].run])
      <4>1. /\ client[c].run > 0 /\ truth[client[c].run] # <<>>
            /\ client[c].result # "completed" => Told(client[c].run, client[c].result)
        BY <2>1, <3>1 DEF Returned
      <4>2. client[c].run \in 1..Len(truth)
        BY <2>2, <4>1
      <4> QED BY <4>1, <4>2, <2>3
    <3> QED BY <3>1 DEF RecoveredTruthful
  <2>6. OwnTextWhenAlone
    <3>1. \A c \in Calls : DOMAIN client[c].text = 1..Len(client[c].text)
      BY <2>1, SessionFields DEF ClientTypeOK
    <3> QED BY <2>1, <3>1 DEF OwnTextWhenAlone, OwnText
  <2> QED BY <2>1, <2>4, <2>5, <2>6 DEF ClientSound
<1> QED
  BY <1>1, <1>2, <1>3, PTL DEF ClientSpec
=============================================================================
