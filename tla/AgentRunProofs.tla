----------------------------- MODULE AgentRunProofs -----------------------------
(* Proofs about AgentRun.tla, for every set of completions with any number of    *)
(* tool calls and every number of agents, phases and gates: the proxy says what  *)
(* was decided, success is work that is there, work that was wiped is measured,  *)
(* a level most of whose agents did nothing is invalid.                          *)
EXTENDS AgentRun, DataLemmas

-----------------------------------------------------------------------------
(* The proxy.                                                                *)

\* A function on 1 .. m is a sequence.
LEMMA FunctionIsSeq ==
  ASSUME NEW S, NEW m \in Nat, NEW q \in [1 .. m -> S]
  PROVE  q \in Seq(S) /\ Len(q) = m /\ DOMAIN q = 1 .. m
  OBVIOUS

\* What is where in two sequences put together.
LEMMA Joined ==
  ASSUME NEW S, NEW s \in Seq(S), NEW t \in Seq(S)
  PROVE  /\ s \o t \in Seq(S) /\ Len(s) \in Nat /\ Len(t) \in Nat
         /\ Len(s \o t) = Len(s) + Len(t) /\ DOMAIN (s \o t) = 1 .. (Len(s) + Len(t))
         /\ \A i \in 1 .. Len(s) : (s \o t)[i] = s[i]
         /\ \A i \in 1 .. Len(t) : (s \o t)[Len(s) + i] = t[i]
  OBVIOUS

\* The same with an element in front, and with one behind.
LEMMA JoinedInFront ==
  ASSUME NEW S, NEW r \in S, NEW t \in Seq(S)
  PROVE  /\ <<r>> \o t \in Seq(S) /\ Len(<<r>> \o t) = 1 + Len(t)
         /\ (<<r>> \o t)[1] = r
         /\ \A i \in 1 .. Len(t) : (<<r>> \o t)[1 + i] = t[i]
  OBVIOUS

LEMMA JoinedBehind ==
  ASSUME NEW S, NEW e \in S, NEW t \in Seq(S)
  PROVE  /\ t \o <<e>> \in Seq(S) /\ Len(t \o <<e>>) = Len(t) + 1
         /\ DOMAIN (t \o <<e>>) = 1 .. (Len(t) + 1)
         /\ (t \o <<e>>)[Len(t) + 1] = e
         /\ \A i \in 1 .. Len(t) : (t \o <<e>>)[i] = t[i]
  OBVIOUS

\* A stream is one element, at most one more, some calls and an end.
Parts(r, t, q, e, chunks) ==
  /\ DOMAIN chunks = 1 .. (Len(t) + Len(q) + 2)
  /\ chunks[1] = r
  /\ \A i \in 1 .. Len(t) : chunks[1 + i] = t[i]
  /\ \A i \in 1 .. Len(q) : chunks[1 + Len(t) + i] = q[i]
  /\ chunks[Len(t) + Len(q) + 2] = e

LEMMA FourParts ==
  ASSUME NEW S, NEW r \in S, NEW e \in S, NEW t \in Seq(S), NEW q \in Seq(S)
  PROVE  Parts(r, t, q, e, <<r>> \o t \o q \o <<e>>)
  <1> DEFINE rt == <<r>> \o t
             rtq == rt \o q
             chunks == rtq \o <<e>>
  <1>1. /\ rt \in Seq(S) /\ Len(rt) = 1 + Len(t) /\ rt[1] = r
        /\ \A i \in 1 .. Len(t) : rt[1 + i] = t[i]
    BY ONLY r \in S, t \in Seq(S), JoinedInFront
  <1> HIDE DEF rt
  <1>2. /\ rtq \in Seq(S) /\ Len(rtq) = Len(rt) + Len(q)
        /\ Len(rt) \in Nat /\ Len(q) \in Nat
        /\ \A i \in 1 .. Len(rt) : rtq[i] = rt[i]
        /\ \A i \in 1 .. Len(q) : rtq[Len(rt) + i] = q[i]
    <2>1. rt \in Seq(S)
      BY <1>1
    <2> QED
      BY ONLY <2>1, q \in Seq(S), Joined
  <1> HIDE DEF rtq
  <1>3. /\ DOMAIN chunks = 1 .. (Len(rtq) + 1)
        /\ chunks[Len(rtq) + 1] = e
        /\ \A i \in 1 .. Len(rtq) : chunks[i] = rtq[i]
    <2>1. rtq \in Seq(S)
      BY <1>2
    <2> QED
      BY ONLY <2>1, e \in S, JoinedBehind
  <1> HIDE DEF chunks
  <1>4. Len(t) \in Nat
    OBVIOUS
  <1>5. \A i \in 1 .. Len(q) : chunks[1 + Len(t) + i] = q[i]
    BY <1>1, <1>2, <1>3, <1>4
  <1>6. \A i \in 1 .. (Len(t) + 1) : chunks[i] = rt[i]
    <2> SUFFICES ASSUME NEW i \in 1 .. (Len(t) + 1) PROVE chunks[i] = rt[i]
      OBVIOUS
    <2>1. i \in 1 .. Len(rt) /\ i \in 1 .. Len(rtq)
      BY <1>1, <1>2, <1>4
    <2> QED
      BY <1>2, <1>3, <2>1
  <1>8. chunks[1] = r /\ \A i \in 1 .. Len(t) : chunks[1 + i] = t[i]
    BY <1>1, <1>4, <1>6
  <1>7. DOMAIN chunks = 1 .. (Len(t) + Len(q) + 2) /\ chunks[Len(t) + Len(q) + 2] = e
    BY <1>1, <1>2, <1>3, <1>4
  <1> QED
    BY <1>5, <1>7, <1>8 DEF Parts, chunks, rtq, rt

\* The chunks of a completion, place by place; n of them come before the calls.
LEMMA ChunkPlaces ==
  ASSUME NEW c \in Completions
  PROVE  \E n \in Nat, m \in Nat :
           LET chunks == Chunks(c) IN
             /\ DOMAIN c.tools = 1 .. m
             /\ DOMAIN chunks = 1 .. (n + m + 1)
             /\ chunks[1] = [delta |-> "role"]
             /\ \/ n = 1 /\ c.content = None
                \/ /\ n = 2 /\ c.content # None
                   /\ chunks[2] = [delta |-> "content", text |-> c.content]
             /\ \A i \in 1 .. m :
                  chunks[n + i] = [delta |-> "tool_calls", index |-> i, tool |-> c.tools[i]]
             /\ chunks[n + m + 1] = [delta |-> "finish", reason |-> c.finish]
  <1> DEFINE m == Len(c.tools)
             call(i) == [delta |-> "tool_calls", index |-> i, tool |-> c.tools[i]]
             calls == [i \in DOMAIN c.tools |-> call(i)]
             content == [delta |-> "content", text |-> c.content]
             text == IF c.content = None THEN <<>> ELSE <<content>>
             role == [delta |-> "role"]
             end == [delta |-> "finish", reason |-> c.finish]
             All == {role, end, content} \cup {call(i) : i \in 1 .. m}
             n == Len(text) + 1
  <1>1. m \in Nat /\ DOMAIN c.tools = 1 .. m
    BY CompletionsAssumption
  <1>2. Chunks(c) = <<role>> \o text \o calls \o <<end>>
    BY DEF Chunks
  <1>3. role \in All /\ end \in All /\ content \in All /\ \A i \in 1 .. m : call(i) \in All
    OBVIOUS
  <1> HIDE DEF role, end, content, call, All, m
  <1>4. text \in Seq(All) /\ Len(text) \in Nat
    BY <1>3
  <1>5. \/ c.content = None /\ Len(text) = 0
        \/ c.content # None /\ Len(text) = 1 /\ text[1] = content
    OBVIOUS
  <1>6. /\ calls \in Seq(All) /\ Len(calls) = m
        /\ \A i \in 1 .. m : calls[i] = call(i)
    <2>1. calls \in [1 .. m -> All]
      BY <1>1, <1>3
    <2>2. \A i \in 1 .. m : calls[i] = call(i)
      BY <1>1
    <2> HIDE DEF calls
    <2> QED
      BY <1>1, <2>1, <2>2, FunctionIsSeq
  <1> HIDE DEF text, calls
  <1> DEFINE chunks == Chunks(c)
  <1> HIDE DEF chunks
  <1>7. /\ DOMAIN chunks = 1 .. (Len(text) + Len(calls) + 2)
        /\ chunks[1] = role
        /\ \A i \in 1 .. Len(text) : chunks[1 + i] = text[i]
        /\ \A i \in 1 .. Len(calls) : chunks[1 + Len(text) + i] = calls[i]
        /\ chunks[Len(text) + Len(calls) + 2] = end
    <2>1. role \in All /\ end \in All /\ text \in Seq(All) /\ calls \in Seq(All)
      BY <1>3, <1>4, <1>6
    <2>2. chunks = <<role>> \o text \o calls \o <<end>>
      BY <1>2 DEF chunks
    <2>3. \A S, r, e, t, q :
             r \in S /\ e \in S /\ t \in Seq(S) /\ q \in Seq(S) =>
               Parts(r, t, q, e, <<r>> \o t \o q \o <<e>>)
      BY FourParts, Zenon
    <2>4. Parts(role, text, calls, end, chunks)
      BY ONLY <2>1, <2>2, <2>3, Zenon
    <2> QED
      BY <2>4, Zenon DEF Parts
  <1>8. /\ n \in Nat /\ DOMAIN chunks = 1 .. (n + m + 1)
        /\ chunks[1] = role
        /\ \/ n = 1 /\ c.content = None
           \/ n = 2 /\ c.content # None /\ chunks[2] = content
        /\ \A i \in 1 .. m : chunks[n + i] = call(i)
        /\ chunks[n + m + 1] = end
    BY <1>1, <1>4, <1>5, <1>6, <1>7
  <1> QED
    BY <1>1, <1>8 DEF role, end, content, call, chunks

LEMMA MaxOfOne ==
  ASSUME NEW x \in Nat
  PROVE  Max({x}) = x
  <1> DEFINE S == {x}
  <1>1. S \in SUBSET Nat /\ S # {} /\ \A y \in S : y <= x
    OBVIOUS
  <1> HIDE DEF S
  <1>2. Max(S) \in S
    BY <1>1, BoundedHasMax
  <1> QED
    BY <1>2 DEF S

\* The client puts the chunks of a completion together to that completion.
LEMMA Reassembly ==
  ASSUME NEW c \in Completions
  PROVE  Reassembled(Chunks(c)) = c
  <1>1. PICK n \in Nat, m \in Nat :
          /\ DOMAIN c.tools = 1 .. m
          /\ DOMAIN Chunks(c) = 1 .. (n + m + 1)
          /\ Chunks(c)[1] = [delta |-> "role"]
          /\ \/ n = 1 /\ c.content = None
             \/ /\ n = 2 /\ c.content # None
                /\ Chunks(c)[2] = [delta |-> "content", text |-> c.content]
          /\ \A i \in 1 .. m :
               Chunks(c)[n + i] = [delta |-> "tool_calls", index |-> i, tool |-> c.tools[i]]
          /\ Chunks(c)[n + m + 1] = [delta |-> "finish", reason |-> c.finish]
    BY ChunkPlaces
  <1> DEFINE chunks == Chunks(c)
             kind(k) == {i \in DOMAIN chunks : chunks[i].delta = k}
             indices == {chunks[i].index : i \in kind("tool_calls")}
             at(x) == {i \in kind("tool_calls") : chunks[i].index = x}
  <1> HIDE DEF chunks
  <1>2. /\ DOMAIN chunks = 1 .. (n + m + 1)
        /\ chunks[1].delta = "role"
        /\ \/ n = 1 /\ c.content = None
           \/ n = 2 /\ c.content # None /\ chunks[2].delta = "content" /\ chunks[2].text = c.content
        /\ \A i \in 1 .. m : /\ chunks[n + i].delta = "tool_calls"
                             /\ chunks[n + i].index = i
                             /\ chunks[n + i].tool = c.tools[i]
        /\ chunks[n + m + 1].delta = "finish" /\ chunks[n + m + 1].reason = c.finish
    <2>1. DOMAIN chunks = 1 .. (n + m + 1) /\ chunks[1].delta = "role"
      BY <1>1 DEF chunks
    <2>2. \/ n = 1 /\ c.content = None
          \/ n = 2 /\ c.content # None /\ chunks[2].delta = "content" /\ chunks[2].text = c.content
      BY <1>1 DEF chunks
    <2>3. \A i \in 1 .. m : /\ chunks[n + i].delta = "tool_calls"
                            /\ chunks[n + i].index = i
                            /\ chunks[n + i].tool = c.tools[i]
      <3> SUFFICES ASSUME NEW i \in 1 .. m
                   PROVE  /\ chunks[n + i].delta = "tool_calls"
                          /\ chunks[n + i].index = i
                          /\ chunks[n + i].tool = c.tools[i]
        OBVIOUS
      <3>1. chunks[n + i] = [delta |-> "tool_calls", index |-> i, tool |-> c.tools[i]]
        BY <1>1 DEF chunks
      <3> QED
        BY ONLY <3>1
    <2>4. chunks[n + m + 1].delta = "finish" /\ chunks[n + m + 1].reason = c.finish
      BY <1>1 DEF chunks
    <2> QED
      BY <2>1, <2>2, <2>3, <2>4
  <1>3. \A i \in DOMAIN chunks :
          \/ i = 1
          \/ n = 2 /\ i = 2
          \/ i - n \in 1 .. m /\ i = n + (i - n)
          \/ i = n + m + 1
    BY <1>2
  <1>4. IF c.content = None THEN kind("content") = {} ELSE kind("content") = {2}
    BY <1>2, <1>3
  <1>5. kind("finish") = {n + m + 1}
    BY <1>2, <1>3
  <1>6. kind("tool_calls") = {n + i : i \in 1 .. m}
    <2>1. \A j \in kind("tool_calls") : j \in {n + i : i \in 1 .. m}
      <3> SUFFICES ASSUME NEW j \in kind("tool_calls") PROVE j - n \in 1 .. m /\ j = n + (j - n)
        OBVIOUS
      <3>1. j \in DOMAIN chunks /\ chunks[j].delta = "tool_calls"
        OBVIOUS
      <3>2. j # 1 /\ j # n + m + 1 /\ ~(n = 2 /\ j = 2)
        BY <1>2, <3>1
      <3> QED
        BY <1>3, <3>1, <3>2
    <2>2. \A i \in 1 .. m : n + i \in DOMAIN chunks /\ chunks[n + i].delta = "tool_calls"
      BY <1>2
    <2>3. \A i \in 1 .. m : n + i \in kind("tool_calls")
      BY <2>2
    <2> HIDE DEF kind
    <2> QED
      BY <2>1, <2>3
  <1>7. indices = 1 .. m
    <2> HIDE DEF kind
    <2>1. \A i \in 1 .. m : i \in indices
      <3>1. \A i \in 1 .. m : n + i \in kind("tool_calls") /\ chunks[n + i].index = i
        BY <1>2, <1>6
      <3> QED
        BY <3>1
    <2>2. \A x \in indices : x \in 1 .. m
      <3> SUFFICES ASSUME NEW j \in kind("tool_calls") PROVE chunks[j].index \in 1 .. m
        OBVIOUS
      <3>1. PICK i \in 1 .. m : j = n + i
        BY <1>6
      <3> QED
        BY <1>2, <3>1
    <2> HIDE DEF indices
    <2> QED
      BY <2>1, <2>2
  <1>8. \A x \in 1 .. m : at(x) = {n + x}
    <2> HIDE DEF kind
    <2>1. \A x \in 1 .. m, i \in 1 .. m : n + i \in at(x) <=> i = x
      BY <1>2, <1>6
    <2>2. \A x \in 1 .. m : at(x) \subseteq {n + i : i \in 1 .. m}
      BY <1>6
    <2> HIDE DEF at
    <2> QED
      BY <2>1, <2>2
  <1> HIDE DEF kind
  <1>9. (IF kind("content") = {} THEN None ELSE chunks[Max(kind("content"))].text) = c.content
    BY <1>2, <1>4, MaxOfOne
  <1>10. chunks[Max(kind("finish"))].reason = c.finish
    BY <1>2, <1>5, MaxOfOne
  <1>11. [x \in indices |-> chunks[Max(at(x))].tool] = c.tools
    <2>1. \A x \in 1 .. m : chunks[Max(at(x))].tool = c.tools[x]
      BY <1>2, <1>8, MaxOfOne
    <2>2. c.tools \in Seq(Tools)
      BY CompletionsAssumption
    <2> HIDE DEF indices, at
    <2>3. c.tools = [x \in 1 .. m |-> c.tools[x]]
      BY <1>1, <2>2
    <2> QED
      BY <1>7, <2>1, <2>3
  <1>12. Reassembled(chunks) =
           [content |-> IF kind("content") = {} THEN None ELSE chunks[Max(kind("content"))].text,
            tools |-> [x \in indices |-> chunks[Max(at(x))].tool],
            finish |-> chunks[Max(kind("finish"))].reason]
    BY DEF Reassembled, kind
  <1> HIDE DEF indices, at
  <1> QED
    BY <1>9, <1>10, <1>11, <1>12, CompletionsAssumption DEF chunks

\* HearsWhatWasDecided: destream_proxy passes on what the model decided on.
LEMMA HeardAsDecided ==
  ASSUME NEW decided \in Completions, NEW stream \in BOOLEAN
  PROVE  Heard(decided, stream) = decided
  BY Reassembly DEF Heard, Upstream, Forwarded

\* HearsWhatWasDecided for any text, any number of tool calls in any order, asked for as a
\* stream or not.
THEOREM HearsDecided == Spec => []HearsWhatWasDecided
  <1>1. HearsWhatWasDecided
    BY HeardAsDecided DEF HearsWhatWasDecided
  <1> QED
    BY <1>1, PTL

-----------------------------------------------------------------------------
(* Scoring.                                                                  *)

\* Once an agent is scored, no container of the level runs, so nothing changes its /out; and
\* a success in the record is one of that /out.
Scored ==
  \A a \in Agents : record[a] # None =>
    /\ \A b \in Agents : pc[b] \notin Running
    /\ record[a].passed =>
         /\ ~record[a].gate_timeout
         /\ Gates # {} /\ disk[a].workspace
         /\ UNION {Needs[g] : g \in Gates} \subseteq disk[a].work

\* What a scoring that passes has seen.
LEMMA PassedMeans ==
  ASSUME NEW files, NEW generation, NEW gates,
         NEW r, r = AgentRecord(IF gates = "ran" THEN HardScore(files) ELSE None,
                                generation, gates = "timed out"),
         r.passed
  PROVE  /\ ~r.gate_timeout /\ Gates # {} /\ files.workspace
         /\ UNION {Needs[g] : g \in Gates} \subseteq files.work
  <1> DEFINE hard == IF gates = "ran" THEN HardScore(files) ELSE None
  <1>1. /\ r.passed = (AllPassed(hard) /\ ~(gates = "timed out"))
        /\ r.gate_timeout = (gates = "timed out")
    BY Zenon DEF AgentRecord
  <1>2. AllPassed(hard) /\ ~(gates = "timed out")
    BY <1>1
  <1>3. hard # None /\ DOMAIN hard # {} /\ \A g \in DOMAIN hard : hard[g]
    BY <1>2, Zenon DEF AllPassed
  <1>4. hard = [g \in Gates |-> Needs[g] \subseteq files.work] /\ files.workspace
    BY <1>3, Zenon DEF HardScore
  <1> HIDE DEF hard
  <1>5. DOMAIN hard = Gates /\ \A g \in Gates : Needs[g] \subseteq files.work
    BY <1>3, <1>4, Zenon
  <1> QED
    BY <1>1, <1>2, <1>3, <1>4, <1>5

\* PassedWorkIsThere for any scenario: the invariant is Scored.
THEOREM PassedIsThere == Spec => []PassedWorkIsThere
  <1> DEFINE Recorded == record = [a \in Agents |-> record[a]]
             Inv == Recorded /\ Scored
  <1>1. Init => Inv
    BY DEF Init, Scored
  <1>2. Inv /\ [Next]_vars => Inv'
    <2> SUFFICES ASSUME Recorded, Scored, [Next]_vars PROVE Inv'
      OBVIOUS
    <2> USE DEF Running
    <2>1. ASSUME NEW a \in Agents, pc[a] \in Running, record' = record PROVE Inv'
      BY <2>1 DEF Scored
    <2>2. ASSUME NEW a \in Agents, Call(a) PROVE Inv'
      BY <2>1, <2>2 DEF Call
    <2>3. ASSUME NEW a \in Agents, GiveUp(a) PROVE Inv'
      BY <2>1, <2>3 DEF GiveUp
    <2>4. ASSUME NEW a \in Agents, EndPhase(a) PROVE Inv'
      BY <2>1, <2>4 DEF EndPhase
    <2>5. ASSUME NEW a \in Agents, WriteGeneration(a) PROVE Inv'
      BY <2>1, <2>5 DEF WriteGeneration
    <2>6. ASSUME NEW a \in Agents, Die(a) PROVE Inv'
      BY <2>1, <2>6 DEF Die
    <2>7. ASSUME NEW a \in Agents, Score(a) PROVE Inv'
      <3>1. PICK gates \in {"ran", "failed", "timed out"} :
              record' = [record EXCEPT ![a] =
                AgentRecord(IF gates = "ran" THEN HardScore(disk[a]) ELSE None,
                            disk[a].generation, gates = "timed out")]
        BY <2>7 DEF Score
      <3> DEFINE r == AgentRecord(IF gates = "ran" THEN HardScore(disk[a]) ELSE None,
                                  disk[a].generation, gates = "timed out")
      <3>2. r.passed => /\ ~r.gate_timeout /\ Gates # {} /\ disk[a].workspace
                        /\ UNION {Needs[g] : g \in Gates} \subseteq disk[a].work
        BY PassedMeans
      <3> HIDE DEF r
      <3>3. record' = [record EXCEPT ![a] = r]
        BY <3>1 DEF r
      <3>4. /\ \A b \in Agents : pc[b] \notin Running
            /\ pc' = pc /\ disk' = disk
        BY <2>7 DEF Score
      <3>5. Recorded' /\ record'[a] = r /\ \A b \in Agents : b # a => record'[b] = record[b]
        BY <3>3
      <3> HIDE DEF Running
      <3> QED
        BY <3>2, <3>4, <3>5 DEF Scored
    <2>8. ASSUME UNCHANGED <<pc, disk, record>> PROVE Inv'
      BY <2>8 DEF Scored
    <2>9. EndLevel => UNCHANGED <<pc, disk, record>>
      BY DEF EndLevel
    <2>10. UNCHANGED vars => UNCHANGED <<pc, disk, record>>
      BY DEF vars
    <2> QED
      BY <2>2, <2>3, <2>4, <2>5, <2>6, <2>7, <2>8, <2>9, <2>10 DEF Next
  <1>3. Inv => PassedWorkIsThere
    BY DEF Scored, PassedWorkIsThere
  <1> QED
    BY <1>1, <1>2, <1>3, PTL DEF Spec

-----------------------------------------------------------------------------
(* What is done in a call, and what the metrics add up to.                   *)

Metric == [tokens : Nat, wall : Nat]
Files == [workspace : BOOLEAN, work : SUBSET Phase, transcripts : SUBSET Phase,
          generation : {None} \cup Seq(Metric)]

LEMMA UseType ==
  ASSUME NEW p \in Phase, NEW files \in Files, NEW tool
  PROVE  /\ Use(files, tool, p) \in Files
         /\ files.generation = None => Use(files, tool, p).generation = None
  BY DEF Use, Empty, Files

\* The tool calls of an answer leave an /out in order, and write no generation.json.
LEMMA UseAllType ==
  ASSUME NEW p \in Phase, NEW files \in Files, files.generation = None,
         NEW T, NEW tools \in Seq(T)
  PROVE  UseAll(files, tools, p) \in Files /\ UseAll(files, tools, p).generation = None
  <1> DEFINE R == {f \in Files : f.generation = None}
             n == Len(tools)
             S == DOMAIN tools
             Value(f, s) == IF s = {} THEN files ELSE Use(f[s \ {Max(s)}], tools[Max(s)], p)
             IsFold(f) == f = [s \in SUBSET S |-> Value(f, s)]
             g == CHOOSE h : IsFold(h)
             step == [q \in (SUBSET S) \X R |-> Use(q[2], tools[Max(q[1])], p)]
  <1>0. n \in Nat /\ S = 1 .. n /\ files \in R
    OBVIOUS
  <1> HIDE DEF n
  <1>1. /\ Picks(LastOf(n), S) /\ IsFiniteSet(S)
        /\ \A s \in SUBSET S : LastOf(n)[s] = Max(s)
    BY <1>0, LastPicks
  <1>2. \A s \in SUBSET S, v \in R : step[<<s, v>>] = Use(v, tools[Max(s)], p)
    OBVIOUS
  <1>3. StepsIn(step, S, R)
    <2>1. \A tool : \A v \in R : Use(v, tool, p) \in R
      BY UseType
    <2> QED
      BY <1>2, <2>1 DEF StepsIn
  <1> HIDE DEF step, S, R
  <1>4. PICK f \in [SUBSET S -> R] : FoldsTo(f, S, files, LastOf(n), step)
    <2>1. \A base, pick, st :
             base \in R /\ Picks(pick, S) /\ StepsIn(st, S, R)
             => \E f \in [SUBSET S -> R] : FoldsTo(f, S, base, pick, st)
      BY <1>1, FoldExists
    <2> QED
      BY <1>0, <1>1, <1>3, <2>1
  <1>5. IsFold(f)
    <2>1. ASSUME NEW s \in SUBSET S PROVE f[s] = Value(f, s)
      BY <1>1, <1>2, <1>4 DEF FoldsTo
    <2> HIDE DEF Value
    <2> QED
      BY <2>1
  <1>6. IsFold(g)
    <2> HIDE DEF IsFold
    <2> QED
      BY <1>5
  <1>7. UseAll(files, tools, p) = g[S]
    BY DEF UseAll, FoldLeft, MapThenFoldSet, S
  <1> HIDE DEF g
  <1>8. \A s \in SUBSET S : g[s] \in R
    <2> DEFINE Q == {s \in SUBSET S : g[s] \in R}
    <2>1. Inductive(Q, S, LastOf(n))
      <3>1. {} \in Q
        BY <1>0, <1>6
      <3>2. ASSUME NEW s \in SUBSET S, s # {}, s \ {LastOf(n)[s]} \in Q PROVE s \in Q
        <4>1. g[s] = Use(g[s \ {Max(s)}], tools[Max(s)], p)
          BY <1>6, <3>2
        <4>2. g[s \ {Max(s)}] \in R
          BY <1>1, <3>2
        <4> QED
          BY <4>1, <4>2, UseType DEF R
      <3> HIDE DEF Q
      <3> QED
        BY <3>1, <3>2 DEF Inductive
    <2> HIDE DEF Q
    <2>2. \A s \in SUBSET S : s \in Q
      BY <1>1, <2>1, SubsetInduction
    <2> QED
      BY <2>2 DEF Q
  <1> QED
    BY <1>7, <1>8 DEF R

\* agent_record's total of a field, which goes through the metrics one by one.
TotalOf(s, field) == FoldLeft(LAMBDA sum, m : sum + m[field], 0, s)

Accumulates(acc, s, field) ==
  /\ acc \in [0 .. Len(s) -> Nat] /\ acc[0] = 0
  /\ \A i \in 1 .. Len(s) : acc[i] = acc[i - 1] + s[i][field]
  /\ TotalOf(s, field) = acc[Len(s)]

LEMMA TotalAccumulates ==
  ASSUME NEW seq \in Seq(Metric), NEW field \in {"tokens", "wall"}
  PROVE  \E acc : Accumulates(acc, seq, field)
  <1> DEFINE n == Len(seq)
             S == DOMAIN seq
             Value(f, s) == IF s = {} THEN 0 ELSE f[s \ {Max(s)}] + seq[Max(s)][field]
             IsFold(f) == f = [s \in SUBSET S |-> Value(f, s)]
             g == CHOOSE h : IsFold(h)
             step == [q \in (SUBSET S) \X Nat |-> q[2] + seq[Max(q[1])][field]]
  <1>0. n \in Nat /\ S = 1 .. n /\ \A i \in S : seq[i][field] \in Nat
    <2>1. \A i \in S : seq[i] \in Metric
      OBVIOUS
    <2>2. \A m \in Metric : m[field] \in Nat
      BY DEF Metric
    <2> QED
      BY <2>1, <2>2
  <1> HIDE DEF n
  <1>1. /\ Picks(LastOf(n), S) /\ IsFiniteSet(S)
        /\ \A s \in SUBSET S : LastOf(n)[s] = Max(s)
        /\ \A i \in S : Max(1 .. i) = i /\ (1 .. i) \ {i} = 1 .. (i - 1)
    BY <1>0, LastPicks
  <1>2. \A s \in SUBSET S, v \in Nat : step[<<s, v>>] = v + seq[Max(s)][field]
    OBVIOUS
  <1> HIDE DEF step, S
  <1>3. \A s \in SUBSET S : s # {} => seq[Max(s)][field] \in Nat
    BY <1>0, <1>1 DEF Picks
  <1>4. StepsIn(step, S, Nat) /\ 0 \in Nat
    <2>1. \A x, y \in Nat : x + y \in Nat
      OBVIOUS
    <2> QED
      BY <1>2, <1>3, <2>1 DEF StepsIn
  <1>5. PICK f \in [SUBSET S -> Nat] : FoldsTo(f, S, 0, LastOf(n), step)
    <2>1. \A base, pick, st :
             base \in Nat /\ Picks(pick, S) /\ StepsIn(st, S, Nat)
             => \E f \in [SUBSET S -> Nat] : FoldsTo(f, S, base, pick, st)
      BY <1>1, FoldExists
    <2> QED
      BY <1>1, <1>4, <2>1
  <1>6. IsFold(f)
    <2>1. ASSUME NEW s \in SUBSET S PROVE f[s] = Value(f, s)
      <3>1. CASE s = {}
        BY <1>5, <3>1 DEF FoldsTo
      <3>2. CASE s # {}
        <4>1. f[s] = step[<<s, f[s \ {Max(s)}]>>]
          BY <1>1, <1>5, <3>2 DEF FoldsTo
        <4>2. f[s \ {Max(s)}] \in Nat
          BY <1>5
        <4> QED
          BY <1>2, <3>2, <4>1, <4>2
      <3> QED
        BY <3>1, <3>2
    <2> HIDE DEF Value
    <2> QED
      BY <2>1
  <1>7. IsFold(g)
    <2> HIDE DEF IsFold
    <2> QED
      BY <1>6
  <1>8. TotalOf(seq, field) = g[S]
    BY DEF TotalOf, FoldLeft, MapThenFoldSet, S
  <1> HIDE DEF g
  <1>9. \A s \in SUBSET S : g[s] \in Nat
    <2> DEFINE Q == {s \in SUBSET S : g[s] \in Nat}
    <2>1. Inductive(Q, S, LastOf(n))
      <3>1. {} \in Q
        BY <1>7
      <3>2. ASSUME NEW s \in SUBSET S, s # {}, s \ {LastOf(n)[s]} \in Q PROVE s \in Q
        <4>1. g[s] = g[s \ {Max(s)}] + seq[Max(s)][field]
          BY <1>7, <3>2
        <4>2. g[s \ {Max(s)}] \in Nat
          BY <1>1, <3>2
        <4>3. g[s] \in Nat
          BY <1>3, <3>2, <4>1, <4>2
        <4> QED
          BY <4>3
      <3> HIDE DEF Q
      <3> QED
        BY <3>1, <3>2 DEF Inductive
    <2> HIDE DEF Q
    <2>2. \A s \in SUBSET S : s \in Q
      BY <1>1, <2>1, SubsetInduction
    <2> QED
      BY <2>2 DEF Q
  <1> DEFINE acc == [i \in 0 .. n |-> g[1 .. i]]
  <1>10. acc \in [0 .. n -> Nat] /\ acc[0] = 0 /\ acc[n] = g[S]
    <2>1. \A i \in 0 .. n : 1 .. i \in SUBSET S
      BY <1>0
    <2>2. 1 .. 0 = {} /\ g[{}] = 0
      BY <1>7
    <2> QED
      BY <1>0, <1>9, <2>1, <2>2
  <1>11. ASSUME NEW i \in 1 .. n PROVE acc[i] = acc[i - 1] + seq[i][field]
    <2>1. i \in S /\ 1 .. i \in SUBSET S /\ 1 .. i # {}
      BY <1>0
    <2>2. g[1 .. i] = g[(1 .. i) \ {Max(1 .. i)}] + seq[Max(1 .. i)][field]
      BY <1>7, <2>1
    <2>3. g[1 .. i] = g[1 .. (i - 1)] + seq[i][field]
      BY <1>1, <2>1, <2>2
    <2>4. i \in 0 .. n /\ i - 1 \in 0 .. n
      BY <1>0
    <2> QED
      BY <2>3, <2>4
  <1> HIDE DEF acc
  <1> QED
    BY <1>8, <1>10, <1>11 DEF Accumulates, n

LEMMA TotalType ==
  ASSUME NEW s \in Seq(Metric), NEW field \in {"tokens", "wall"}
  PROVE  TotalOf(s, field) \in Nat /\ (s = <<>> => TotalOf(s, field) = 0)
  <1>1. PICK acc : Accumulates(acc, s, field)
    BY TotalAccumulates
  <1>2. Len(s) \in Nat /\ (s = <<>> => Len(s) = 0)
    OBVIOUS
  <1> QED
    BY <1>1, <1>2 DEF Accumulates

\* One more phase adds what it used.
LEMMA TotalAppends ==
  ASSUME NEW s \in Seq(Metric), NEW m \in Metric, NEW field \in {"tokens", "wall"}
  PROVE  TotalOf(Append(s, m), field) = TotalOf(s, field) + m[field]
  <1> DEFINE t == Append(s, m)
             n == Len(s)
  <1>1. /\ t \in Seq(Metric) /\ n \in Nat /\ Len(t) = n + 1 /\ t[n + 1] = m
        /\ \A i \in 1 .. n : t[i] = s[i]
    OBVIOUS
  <1> HIDE DEF t
  <1>2. PICK f : Accumulates(f, s, field)
    BY TotalAccumulates
  <1>3. PICK g : Accumulates(g, t, field)
    BY <1>1, TotalAccumulates
  <1> DEFINE Q == {i \in Nat : i <= n => g[i] = f[i]}
  <1>4. 0 \in Q
    BY <1>2, <1>3 DEF Accumulates
  <1>5. ASSUME NEW i \in Nat, i \in Q PROVE i + 1 \in Q
    <2> SUFFICES ASSUME i + 1 <= n PROVE g[i + 1] = f[i + 1]
      OBVIOUS
    <2>1. i + 1 \in 1 .. n /\ i + 1 \in 1 .. (n + 1) /\ (i + 1) - 1 = i /\ i <= n
      BY <1>1
    <2>2. f[i + 1] = f[i] + s[i + 1][field]
      BY <1>2, <2>1 DEF Accumulates
    <2>3. g[i + 1] = g[i] + t[i + 1][field]
      BY <1>1, <1>3, <2>1 DEF Accumulates
    <2>4. t[i + 1] = s[i + 1]
      BY <1>1, <2>1
    <2> QED
      BY <1>5, <2>1, <2>2, <2>3, <2>4
  <1>6. n \in Q
    <2> HIDE DEF Q
    <2> QED
      BY <1>1, <1>4, <1>5, NatSetInduction
  <1>7. g[n + 1] = g[n] + m[field]
    <2>1. n + 1 \in 1 .. Len(t) /\ (n + 1) - 1 = n
      BY <1>1
    <2>2. g[n + 1] = g[(n + 1) - 1] + t[n + 1][field]
      BY <1>3, <2>1 DEF Accumulates
    <2> QED
      BY <1>1, <2>1, <2>2
  <1>8. g[n] = f[n]
    BY <1>1, <1>6
  <1> QED
    BY <1>1, <1>2, <1>3, <1>7, <1>8 DEF Accumulates, t

-----------------------------------------------------------------------------
(* Medians.                                                                  *)

LEMMA AgentsCount ==
  /\ IsFiniteSet(Agents) /\ Cardinality(Agents) = N /\ N \in Nat /\ N >= 1
  /\ \A A \in SUBSET Agents :
       /\ IsFiniteSet(A) /\ Cardinality(A) \in Nat /\ Cardinality(A) <= N
       /\ Cardinality(Agents \ A) = N - Cardinality(A)
       /\ Cardinality(A) >= 1 => A # {}
       /\ \A B \in SUBSET A : Cardinality(B) <= Cardinality(A)
  <1>1. N \in Nat /\ N >= 1
    BY SizesAssumption
  <1>2. IsFiniteSet(Agents) /\ Cardinality(Agents) = N
    BY <1>1, FS_Interval DEF Agents
  <1>3. ASSUME NEW A \in SUBSET Agents
        PROVE  /\ IsFiniteSet(A) /\ Cardinality(A) \in Nat /\ Cardinality(A) <= N
               /\ Cardinality(Agents \ A) = N - Cardinality(A)
               /\ Cardinality(A) >= 1 => A # {}
               /\ \A B \in SUBSET A : Cardinality(B) <= Cardinality(A)
    <2>1. IsFiniteSet(A) /\ Cardinality(A) <= N
      BY <1>2, FS_Subset
    <2>2. Cardinality(A) \in Nat
      BY <2>1, FS_CardinalityType
    <2>3. Agents \cap A = A
      OBVIOUS
    <2>4. Cardinality(Agents \ A) = N - Cardinality(A)
      BY <1>2, <2>3, FS_Difference
    <2>5. Cardinality({}) = 0
      BY FS_EmptySet
    <2>6. \A B \in SUBSET A : Cardinality(B) <= Cardinality(A)
      BY <2>1, FS_Subset
    <2> QED
      BY <2>1, <2>2, <2>4, <2>5, <2>6
  <1> QED
    BY <1>1, <1>2, <1>3

Under(f, x) == {a \in Agents : f[a] < x}
Upto(f, x) == {a \in Agents : f[a] <= x}

\* There is a j-th smallest value: the least with j values up to it.
LEMMA RankedIs ==
  ASSUME NEW f \in [Agents -> Nat], NEW j \in 1 .. N
  PROVE  /\ Ranked(f, j) \in Nat
         /\ Cardinality(Under(f, Ranked(f, j))) < j /\ Cardinality(Upto(f, Ranked(f, j))) >= j
  <1> DEFINE Values == {f[a] : a \in Agents}
             Enough == {v \in Values : Cardinality(Upto(f, v)) >= j}
             x == Min(Enough)
             Is(y) == Cardinality({a \in Agents : f[a] < y}) < j
                      /\ Cardinality({a \in Agents : f[a] <= y}) >= j
  <1>1. Values \in SUBSET Nat /\ Values # {} /\ \A v \in Values : v \in Nat
    BY AgentsCount DEF Agents
  <1>2. /\ \A v : Under(f, v) \in SUBSET Agents /\ Upto(f, v) \in SUBSET Agents
        /\ \A v : Cardinality(Under(f, v)) \in Nat /\ Cardinality(Upto(f, v)) \in Nat
    <2>1. \A v : Under(f, v) \in SUBSET Agents /\ Upto(f, v) \in SUBSET Agents
      BY DEF Under, Upto
    <2> QED
      BY <2>1, AgentsCount
  <1>3. j \in Nat /\ j >= 1 /\ j <= N
    BY AgentsCount
  <1>4. Enough # {}
    <2>1. IsFiniteSet(Values)
      BY AgentsCount, FiniteImage
    <2>2. Max(Values) \in Values /\ \A v \in Values : v <= Max(Values)
      <3> HIDE DEF Values
      <3> QED
        BY <1>1, <2>1, FiniteHasMax
    <2>3. Upto(f, Max(Values)) = Agents
      BY <2>2 DEF Upto
    <2> HIDE DEF Values
    <2>4. Max(Values) \in Enough
      BY <1>3, <2>2, <2>3, AgentsCount
    <2> QED
      BY <2>4
  <1>5. x \in Enough /\ \A v \in Enough : x <= v
    <2>1. Enough \in SUBSET Nat
      BY <1>1
    <2> HIDE DEF Enough
    <2> QED
      BY <1>4, <2>1, MinIsLeast
  <1> HIDE DEF x
  <1>6. x \in Values /\ x \in Nat /\ Cardinality(Upto(f, x)) >= j
    BY <1>1, <1>5
  <1>7. Cardinality(Under(f, x)) < j
    <2> SUFFICES ASSUME Cardinality(Under(f, x)) >= j PROVE FALSE
      BY <1>2, <1>3
    <2> DEFINE Lower == {f[a] : a \in Under(f, x)}
    <2>1. Under(f, x) # {}
      <3>1. Cardinality(Under(f, x)) >= 1
        BY <1>2, <1>3
      <3> QED
        BY <1>2, <3>1, AgentsCount
    <2>2. Lower \in SUBSET Nat /\ Lower # {} /\ Lower \subseteq Values
      BY <2>1 DEF Under
    <2>3. IsFiniteSet(Lower)
      <3>1. IsFiniteSet(Under(f, x))
        BY <1>2, AgentsCount
      <3> QED
        BY <3>1, FiniteImage
    <2>4. Max(Lower) \in Lower /\ \A v \in Lower : v <= Max(Lower)
      <3> HIDE DEF Lower
      <3> QED
        BY <2>2, <2>3, FiniteHasMax
    <2>5. Max(Lower) < x /\ Max(Lower) \in Nat
      BY <2>2, <2>4 DEF Under
    <2>6. Upto(f, Max(Lower)) = Under(f, x)
      <3>1. \A a \in Under(f, x) : f[a] <= Max(Lower)
        BY <2>4
      <3>2. \A a \in Agents : f[a] \in Nat
        OBVIOUS
      <3> HIDE DEF Lower
      <3> QED
        BY <1>6, <2>5, <3>1, <3>2 DEF Under, Upto
    <2> HIDE DEF Lower
    <2>7. Max(Lower) \in Enough
      BY <2>2, <2>4, <2>6
    <2>8. x <= Max(Lower)
      BY <1>5, <2>7
    <2> QED
      BY <1>6, <2>5, <2>8
  <1>8. \E y \in Values : Is(y)
    <2>1. Is(x)
      BY <1>6, <1>7 DEF Under, Upto
    <2> HIDE DEF Is, Values
    <2> QED
      BY <1>6, <2>1
  <1>9. Ranked(f, j) = CHOOSE y \in Values : Is(y)
    BY DEF Ranked
  <1>10. Ranked(f, j) \in Values /\ Is(Ranked(f, j))
    <2> HIDE DEF Is, Values
    <2> QED
      BY <1>8, <1>9
  <1> QED
    BY <1>1, <1>10 DEF Under, Upto

LEMMA Halves ==
  /\ N \div 2 \in Nat /\ (N + 1) \div 2 \in Nat
  /\ 2 * (N \div 2) <= N /\ N <= 2 * (N \div 2) + 1
  /\ N <= 2 * ((N + 1) \div 2) /\ 2 * ((N + 1) \div 2) <= N + 1
  /\ (N + 1) \div 2 \in 1 .. N /\ N \div 2 + 1 \in 1 .. N
  <1>1. N \in Nat /\ N >= 1
    BY AgentsCount
  <1> QED
    BY <1>1

\* A median is at least as large as what half of all values are, and as what more than half are.
LEMMA MedianSplits ==
  ASSUME NEW f \in [Agents -> Nat], NEW m \in Nat
  PROVE  LET large == {a \in Agents : f[a] >= m}
         IN  /\ TwiceMedian(f) \in Nat
             /\ TwiceMedian(f) >= 2 * m => 2 * Cardinality(large) >= N
             /\ 2 * Cardinality(large) > N => TwiceMedian(f) >= 2 * m
  <1> DEFINE large == {a \in Agents : f[a] >= m}
             j == (N + 1) \div 2
             k == N \div 2 + 1
             x == Ranked(f, j)
             y == Ranked(f, k)
             L == Cardinality(large)
  <1>1. /\ j \in 1 .. N /\ k \in 1 .. N /\ j \in Nat /\ k \in Nat /\ N \in Nat
        /\ N <= 2 * j /\ 2 * j <= N + 1 /\ 2 * k <= N + 2 /\ N + 1 <= 2 * k
    BY Halves, AgentsCount
  <1> HIDE DEF j, k
  <1>2. /\ x \in Nat /\ Cardinality(Under(f, x)) < j /\ Cardinality(Upto(f, x)) >= j
        /\ y \in Nat /\ Cardinality(Under(f, y)) < k /\ Cardinality(Upto(f, y)) >= k
    BY <1>1, RankedIs
  <1>3. TwiceMedian(f) = x + y
    BY DEF TwiceMedian, j, k
  <1> HIDE DEF x, y
  <1>4. /\ large \in SUBSET Agents /\ Under(f, m) \in SUBSET Agents
        /\ Under(f, x) \in SUBSET Agents /\ Upto(f, x) \in SUBSET Agents
        /\ Under(f, y) \in SUBSET Agents /\ Upto(f, y) \in SUBSET Agents
    BY DEF Under, Upto
  <1>5. Agents \ large = Under(f, m)
    <2>1. \A a \in Agents : f[a] \in Nat
      OBVIOUS
    <2> QED
      BY <2>1 DEF Under
  <1> HIDE DEF large
  <1>6. /\ Cardinality(Under(f, m)) = N - L /\ L \in Nat
        /\ {Cardinality(Under(f, x)), Cardinality(Upto(f, x)), Cardinality(Under(f, y)),
            Cardinality(Upto(f, y)), Cardinality(Under(f, m))} \subseteq Nat
    BY <1>4, <1>5, AgentsCount
  <1>7. ASSUME NEW v \in Nat, v >= m PROVE Cardinality(Under(f, m)) <= Cardinality(Under(f, v))
    <2>1. Under(f, v) \in SUBSET Agents
      BY DEF Under
    <2>2. Under(f, m) \in SUBSET Under(f, v)
      <3>1. \A a \in Agents : f[a] \in Nat
        OBVIOUS
      <3> QED
        BY <1>7, <3>1 DEF Under
    <2> QED
      BY <2>1, <2>2, AgentsCount
  <1>8. ASSUME NEW v \in Nat, v < m PROVE Cardinality(Upto(f, v)) <= Cardinality(Under(f, m))
    <2>1. Upto(f, v) \in SUBSET Under(f, m)
      <3>1. \A a \in Agents : f[a] \in Nat
        OBVIOUS
      <3> QED
        BY <1>8, <3>1 DEF Under, Upto
    <2> QED
      BY <1>4, <2>1, AgentsCount
  <1>9. x + y >= 2 * m => 2 * L >= N
    <2> SUFFICES ASSUME x + y >= 2 * m PROVE 2 * L >= N
      OBVIOUS
    <2>1. x >= m \/ y >= m
      BY <1>2
    <2>2. x >= m => N - L < j
      BY <1>2, <1>6, <1>7, <1>1
    <2>3. y >= m => N - L < k
      BY <1>2, <1>6, <1>7, <1>1
    <2> HIDE DEF L
    <2> QED
      BY <1>1, <1>6, <2>1, <2>2, <2>3
  <1>10. 2 * L > N => x + y >= 2 * m
    <2> SUFFICES ASSUME 2 * L > N PROVE x + y >= 2 * m
      OBVIOUS
    <2>1. x < m => j <= N - L
      BY <1>1, <1>2, <1>6, <1>8
    <2>2. y < m => k <= N - L
      BY <1>1, <1>2, <1>6, <1>8
    <2> HIDE DEF L
    <2>3. x >= m /\ y >= m
      BY <1>1, <1>2, <1>6, <2>1, <2>2
    <2> QED
      BY <1>2, <2>3
  <1> QED
    BY <1>2, <1>3, <1>9, <1>10 DEF large

-----------------------------------------------------------------------------
(* The invariant of a level: an agent has the metrics of all phases before    *)
(* its own and they add up to what it spent, without the tokens of phases     *)
(* that ended without a result event, whatever it does to its /out; what it   *)
(* left is what is recorded; the level is made of these records.              *)

Steps == Running \cup {"exited", "unreadable", "crashed", "died"}
Spending == [turns : Nat, wall : Nat, silent : Nat]

Types ==
  /\ pc \in [Agents -> Steps] /\ phase \in [Agents -> Phase]
  /\ turns \in [Agents -> 0 .. MaxTurns] /\ disk \in [Agents -> Files]
  /\ metrics \in [Agents -> Seq(Metric)] /\ spent \in [Agents -> Spending]
  /\ record = [a \in Agents |-> record[a]]

\* Of an agent at step c of phase p, with k turns in it, files d, metrics m, having spent s.
Accounted(c, p, k, d, m, s) ==
  /\ c # "crashed" /\ Len(m) <= Phases
  /\ c \in {"phase", "ended", "cut"} => Len(m) = p - 1
  /\ c \in {"writing", "exited"} => Len(m) = Phases /\ k = 0
  /\ c \notin {"exited"} => d.generation = None
  /\ c = "exited" => d.generation = m
  /\ c \in Running \cup {"exited"} =>
       s.turns = TotalOf(m, "tokens") + s.silent + k /\ s.wall = TotalOf(m, "wall")

Ledger == \A a \in Agents : Accounted(pc[a], phase[a], turns[a], disk[a], metrics[a], spent[a])

Records ==
  \A a \in Agents : record[a] # None =>
    /\ \A b \in Agents : pc[b] \notin Running
    /\ record[a].passed \in BOOLEAN /\ record[a].tokens \in Nat
    /\ record[a].tokens = (IF pc[a] = "exited" THEN spent[a].turns - spent[a].silent ELSE 0)
    /\ record[a].wall = (IF pc[a] = "exited" THEN spent[a].wall ELSE 0)

Verdict ==
  [agents_ok |-> Cardinality({a \in Agents : record[a].passed}),
   valid |-> TwiceMedian([a \in Agents |-> record[a].wall]) >= 2 * MinValidWall,
   tokens_per_dev |-> TwiceMedian([a \in Agents |-> record[a].tokens]) \div 2]

Judged == level # None => (\A a \in Agents : record[a] # None) /\ level = Verdict

LevelInv == Types /\ Ledger /\ Records /\ Judged

LEMMA InitLevel == Init => LevelInv
  <1> SUFFICES ASSUME Init PROVE LevelInv
    OBVIOUS
  <1>1. /\ {N, Phases, MaxTurns} \subseteq Nat /\ Phases >= 1
        /\ <<>> \in Seq(Metric) /\ Len(<<>>) = 0
    BY SizesAssumption
  <1>2. 1 \in Phase /\ 0 \in 0 .. MaxTurns
    BY <1>1 DEF Phase
  <1>3. [Empty EXCEPT !.workspace = TRUE] \in Files /\ [Empty EXCEPT !.workspace = TRUE].generation = None
    BY DEF Empty, Files
  <1>4. TotalOf(<<>>, "tokens") = 0 /\ TotalOf(<<>>, "wall") = 0
    BY <1>1, TotalType
  <1>5. Types
    BY <1>1, <1>2, <1>3 DEF Init, Types, Steps, Running, Spending
  <1>6. ASSUME NEW a \in Agents
        PROVE  Accounted(pc[a], phase[a], turns[a], disk[a], metrics[a], spent[a])
    <2>1. /\ pc[a] = "phase" /\ phase[a] = 1 /\ turns[a] = 0 /\ metrics[a] = <<>>
          /\ disk[a].generation = None /\ spent[a].turns = 0 /\ spent[a].wall = 0
          /\ spent[a].silent = 0
      BY <1>3 DEF Init
    <2> QED
      BY <1>1, <1>4, <2>1 DEF Accounted
  <1> QED
    BY <1>5, <1>6 DEF Init, LevelInv, Ledger, Records, Judged

\* While an agent runs, nothing is scored.
LEMMA NotScored ==
  ASSUME LevelInv, NEW a \in Agents, pc[a] \in Running
  PROVE  level = None /\ \A b \in Agents : record[b] = None
  BY DEF LevelInv, Records, Judged

LEMMA CallLevel ==
  ASSUME LevelInv, NEW a \in Agents, Call(a)
  PROVE  LevelInv'
  <1>0. pc[a] = "phase" /\ turns[a] < MaxTurns /\ UNCHANGED <<phase, metrics, record, level>>
    BY DEF Call
  <1>1. level = None /\ \A b \in Agents : record[b] = None
    BY <1>0, NotScored DEF Running
  <1>2. /\ turns[a] \in Nat /\ MaxTurns \in Nat /\ turns[a] + 1 \in 0 .. MaxTurns
        /\ disk[a] \in Files /\ phase[a] \in Phase
        /\ spent[a] \in Spending /\ disk[a].generation = None
    BY <1>0, SizesAssumption DEF LevelInv, Types, Ledger, Accounted
  <1>3. PICK decided \in Completions :
          LET heard == Heard(decided, TRUE)
              last == heard.finish = "stop" \/ turns[a] + 1 = MaxTurns
          IN /\ disk' = [disk EXCEPT ![a] = UseAll(@, heard.tools, phase[a])]
             /\ pc' = [pc EXCEPT ![a] = IF last THEN "ended" ELSE "phase"]
    BY DEF Call
  <1> DEFINE files == UseAll(disk[a], decided.tools, phase[a])
  <1>4. disk' = [disk EXCEPT ![a] = files]
    BY <1>3, HeardAsDecided
  <1>5. files \in Files /\ files.generation = None
    BY <1>2, UseAllType, CompletionsAssumption
  <1> HIDE DEF files
  <1>6. PICK c \in {"ended", "phase"} : pc' = [pc EXCEPT ![a] = c]
    BY <1>3
  <1>7. turns' = [turns EXCEPT ![a] = turns[a] + 1] /\ spent' = [spent EXCEPT ![a].turns = @ + 1]
    BY DEF Call
  <1>8. Types'
    <2>1. pc' \in [Agents -> Steps] /\ turns' \in [Agents -> 0 .. MaxTurns]
      BY <1>2, <1>6, <1>7 DEF LevelInv, Types, Steps, Running
    <2>2. disk' \in [Agents -> Files]
      BY <1>4, <1>5 DEF LevelInv, Types
    <2>3. spent' \in [Agents -> Spending]
      <3> DEFINE s == [spent[a] EXCEPT !.turns = @ + 1]
      <3>1. spent' = [spent EXCEPT ![a] = s]
        BY <1>7
      <3>2. s \in Spending
        BY <1>2 DEF Spending
      <3> HIDE DEF s
      <3> QED
        BY <3>1, <3>2 DEF LevelInv, Types
    <2> QED
      BY <1>0, <2>1, <2>2, <2>3 DEF LevelInv, Types
  <1>9. Ledger'
    <2> SUFFICES ASSUME NEW b \in Agents
                 PROVE  Accounted(pc'[b], phase'[b], turns'[b], disk'[b], metrics'[b], spent'[b])
      BY DEF Ledger
    <2>1. Accounted(pc[b], phase[b], turns[b], disk[b], metrics[b], spent[b])
      BY DEF LevelInv, Ledger
    <2>2. CASE b # a
      <3>1. /\ pc'[b] = pc[b] /\ phase'[b] = phase[b] /\ turns'[b] = turns[b]
            /\ disk'[b] = disk[b] /\ metrics'[b] = metrics[b] /\ spent'[b] = spent[b]
        BY <1>0, <1>4, <1>6, <1>7, <2>2 DEF LevelInv, Types
      <3> QED
        BY <2>1, <3>1
    <2>3. CASE b = a
      <3>1. /\ pc'[b] = c /\ phase'[b] = phase[b] /\ turns'[b] = turns[b] + 1
            /\ disk'[b] = files /\ metrics'[b] = metrics[b]
            /\ spent'[b].turns = spent[b].turns + 1 /\ spent'[b].wall = spent[b].wall
            /\ spent'[b].silent = spent[b].silent
        BY <1>0, <1>2, <1>4, <1>6, <1>7, <2>3 DEF LevelInv, Types, Spending
      <3>2. TotalOf(metrics[b], "tokens") \in Nat /\ spent[b].silent \in Nat
        BY <1>2, <2>3, TotalType DEF LevelInv, Types, Spending
      <3> QED
        BY <1>0, <1>2, <1>5, <2>1, <2>3, <3>1, <3>2 DEF Accounted, Running
    <2> QED
      BY <2>2, <2>3
  <1>10. Records' /\ Judged'
    BY <1>0, <1>1 DEF Records, Judged
  <1> QED
    BY <1>8, <1>9, <1>10 DEF LevelInv

\* GiveUp and Die leave everything but the container.
LEMMA LeaveLevel ==
  ASSUME LevelInv, NEW a \in Agents, GiveUp(a) \/ Die(a)
  PROVE  LevelInv'
  <1>0. pc[a] \in Running /\ UNCHANGED <<phase, turns, disk, metrics, record, level, spent>>
    BY DEF GiveUp, Die, Running
  <1>1. level = None /\ \A b \in Agents : record[b] = None
    BY <1>0, NotScored
  <1>2. PICK c \in {"ended", "cut", "died"} :
          pc' = [pc EXCEPT ![a] = c] /\ (c # "died" => pc[a] = "phase")
    BY DEF GiveUp, Die
  <1>3. Types'
    BY <1>0, <1>2 DEF LevelInv, Types, Steps, Running
  <1>4. Ledger'
    BY <1>0, <1>2 DEF LevelInv, Types, Ledger, Accounted, Running
  <1>5. Records' /\ Judged'
    BY <1>0, <1>1 DEF Records, Judged
  <1> QED
    BY <1>3, <1>4, <1>5 DEF LevelInv

LEMMA EndPhaseLevel ==
  ASSUME LevelInv, NEW a \in Agents, EndPhase(a)
  PROVE  LevelInv'
  <1> DEFINE made == [disk[a] EXCEPT !.workspace = TRUE]
             files == [made EXCEPT !.transcripts = @ \cup {phase[a]}]
             p == phase[a]
             k == turns[a]
             m == metrics[a]
             t == TokensOf(a)
             silent == IF pc[a] = "cut" THEN spent[a].silent + k ELSE spent[a].silent
  <1>0. pc[a] \in {"ended", "cut"} /\ UNCHANGED <<record, level>>
    BY DEF EndPhase
  <1>1. level = None /\ \A b \in Agents : record[b] = None
    BY <1>0, NotScored DEF Running
  <1>2. /\ p \in Nat /\ p >= 1 /\ p <= Phases /\ Phases \in Nat /\ k \in Nat /\ m \in Seq(Metric)
        /\ disk[a] \in Files /\ p \in Phase /\ spent[a] \in Spending
    BY SizesAssumption DEF LevelInv, Types, Phase
  <1>3. /\ Len(m) = p - 1 /\ disk[a].generation = None
        /\ spent[a].turns = TotalOf(m, "tokens") + spent[a].silent + k
        /\ spent[a].wall = TotalOf(m, "wall")
    BY <1>0 DEF LevelInv, Ledger, Accounted, Running
  <1>t. /\ t \in Nat /\ silent \in Nat /\ spent[a].silent \in Nat
        /\ t + silent = spent[a].silent + k
    BY <1>0, <1>2 DEF TokensOf, Spending
  <1>4. made \in Files /\ made.workspace = TRUE /\ made = MakeDirs(disk[a])
    BY <1>2 DEF Files, MakeDirs
  <1>5. files \in Files /\ files.generation = None
    BY <1>2, <1>3, <1>4 DEF Files
  <1>6. PICK wall \in Walls, readable \in BOOLEAN :
          /\ disk' = [disk EXCEPT ![a] = files]
          /\ pc' = [pc EXCEPT ![a] = IF ~readable THEN "unreadable" ELSE Following(p)]
          /\ metrics' = IF readable
                        THEN [metrics EXCEPT ![a] = Append(@, [tokens |-> t, wall |-> wall])]
                        ELSE metrics
          /\ spent' = [spent EXCEPT ![a] =
                          [turns |-> @.turns, wall |-> @.wall + wall, silent |-> silent]]
    <2> HIDE DEF made
    <2>1. PICK wall \in Walls, readable \in BOOLEAN :
            /\ disk' = [disk EXCEPT ![a] =
                          IF made.workspace THEN [made EXCEPT !.transcripts = @ \cup {phase[a]}]
                          ELSE made]
            /\ pc' = [pc EXCEPT ![a] = IF ~made.workspace THEN "crashed"
                                       ELSE IF ~readable THEN "unreadable"
                                       ELSE Following(phase[a])]
            /\ metrics' = IF made.workspace /\ readable
                          THEN [metrics EXCEPT ![a] =
                                  Append(@, [tokens |-> TokensOf(a), wall |-> wall])]
                          ELSE metrics
            /\ spent' = [spent EXCEPT ![a] =
                            [turns |-> @.turns, wall |-> @.wall + wall,
                             silent |-> IF pc[a] = "cut" THEN @.silent + turns[a] ELSE @.silent]]
      BY <1>4, Zenon DEF EndPhase
    <2>2. made.workspace
      BY <1>4
    <2> QED
      BY <2>1, <2>2
  <1>7. phase' = [phase EXCEPT ![a] = IF pc'[a] = "phase" THEN @ + 1 ELSE @]
        /\ turns' = [turns EXCEPT ![a] = 0]
    BY DEF EndPhase
  <1>8. wall \in Nat /\ [tokens |-> t, wall |-> wall] \in Metric
    BY <1>t, SizesAssumption DEF Metric
  <1> DEFINE one == [tokens |-> t, wall |-> wall]
             c == IF ~readable THEN "unreadable" ELSE Following(p)
             n == IF readable THEN Append(m, one) ELSE m
             q == IF c = "phase" THEN p + 1 ELSE p
             s == [turns |-> spent[a].turns, wall |-> spent[a].wall + wall, silent |-> silent]
  <1>9. one["tokens"] = t /\ one["wall"] = wall
    OBVIOUS
  <1> HIDE DEF made, files, one, t, silent
  <1>10. /\ pc' = [pc EXCEPT ![a] = c] /\ metrics' = [metrics EXCEPT ![a] = n]
         /\ disk' = [disk EXCEPT ![a] = files] /\ turns' = [turns EXCEPT ![a] = 0]
         /\ spent' = [spent EXCEPT ![a] = s] /\ phase' = [phase EXCEPT ![a] = q]
    <2>1. pc' = [pc EXCEPT ![a] = c] /\ spent' = [spent EXCEPT ![a] = s]
      BY <1>6
    <2>2. metrics' = [metrics EXCEPT ![a] = n]
      BY <1>6 DEF LevelInv, Types, one
    <2>3. phase' = [phase EXCEPT ![a] = q]
      <3>1. pc'[a] = c
        BY <2>1 DEF LevelInv, Types
      <3> HIDE DEF c
      <3> QED
        BY <1>7, <3>1
    <2> QED
      BY <1>6, <1>7, <2>1, <2>2, <2>3
  <1>11. /\ n \in Seq(Metric) /\ Len(n) = (IF readable THEN p ELSE p - 1)
         /\ readable => /\ TotalOf(n, "tokens") = TotalOf(m, "tokens") + t
                        /\ TotalOf(n, "wall") = TotalOf(m, "wall") + wall
    <2>1. readable => n \in Seq(Metric) /\ Len(n) = p
      BY <1>2, <1>3, <1>8 DEF one
    <2>2. readable => /\ TotalOf(n, "tokens") = TotalOf(m, "tokens") + one["tokens"]
                      /\ TotalOf(n, "wall") = TotalOf(m, "wall") + one["wall"]
      BY <1>2, <1>8, TotalAppends DEF one
    <2> QED
      BY <1>2, <1>3, <1>9, <2>1, <2>2
  <1>12. /\ c \in Steps /\ q \in Phase
         /\ c \in {"phase", "writing", "unreadable"} /\ (c # "unreadable" => readable)
         /\ c = "phase" => q = p + 1
         /\ c = "writing" => p = Phases
    BY <1>2 DEF Following, Steps, Running, Phase
  <1>13. /\ s \in Spending /\ s.turns = spent[a].turns /\ s.wall = spent[a].wall + wall
         /\ s.silent = silent
    <2>1. s = [turns |-> spent[a].turns, wall |-> spent[a].wall + wall, silent |-> silent]
      OBVIOUS
    <2>2. spent[a].turns \in Nat /\ spent[a].wall \in Nat
      BY <1>2 DEF Spending
    <2> HIDE DEF s
    <2> QED
      BY <1>8, <1>t, <2>1, <2>2 DEF Spending
  <1> HIDE DEF c, n, q, s
  <1>14. Types'
    <2>1. 0 \in 0 .. MaxTurns
      BY SizesAssumption
    <2> QED
      BY <1>0, <1>5, <1>10, <1>11, <1>12, <1>13, <2>1 DEF LevelInv, Types
  <1>15. Accounted(c, q, 0, files, n, s)
    <2>1. TotalOf(m, "tokens") \in Nat /\ TotalOf(m, "wall") \in Nat
      BY <1>2, TotalType
    <2>2. /\ c # "crashed" /\ c # "exited" /\ Len(n) <= Phases /\ files.generation = None
          /\ c \in {"phase", "ended", "cut"} => Len(n) = q - 1
          /\ c \in {"writing", "exited"} => Len(n) = Phases
      BY <1>2, <1>5, <1>11, <1>12
    <2>3. readable => s.turns = TotalOf(n, "tokens") + s.silent + 0 /\ s.wall = TotalOf(n, "wall")
      <3>1. ASSUME readable, NEW x \in Nat, x = TotalOf(n, "tokens")
            PROVE  s.turns = x + s.silent
        <4>1. x = TotalOf(m, "tokens") + t
          BY <1>11, <3>1
        <4> QED
          BY <1>2, <1>3, <1>13, <1>t, <2>1, <4>1
      <3>2. readable => TotalOf(n, "tokens") \in Nat /\ s.wall = TotalOf(n, "wall")
        BY <1>3, <1>8, <1>11, <1>13, <1>t, <2>1
      <3>3. s.silent \in Nat
        BY <1>13, <1>t
      <3> QED
        BY <3>1, <3>2, <3>3
    <2>4. c \in Running \cup {"exited"} => readable
      BY <1>12 DEF Running
    <2> QED
      BY <2>2, <2>3, <2>4 DEF Accounted
  <1>16. Ledger'
    <2> SUFFICES ASSUME NEW b \in Agents
                 PROVE  Accounted(pc'[b], phase'[b], turns'[b], disk'[b], metrics'[b], spent'[b])
      BY DEF Ledger
    <2>1. Accounted(pc[b], phase[b], turns[b], disk[b], metrics[b], spent[b])
      BY DEF LevelInv, Ledger
    <2>2. CASE b # a
      <3>1. /\ pc'[b] = pc[b] /\ phase'[b] = phase[b] /\ turns'[b] = turns[b]
            /\ disk'[b] = disk[b] /\ metrics'[b] = metrics[b] /\ spent'[b] = spent[b]
        BY <1>10, <2>2 DEF LevelInv, Types
      <3> QED
        BY <2>1, <3>1
    <2>3. CASE b = a
      <3>1. /\ pc'[b] = c /\ phase'[b] = q /\ turns'[b] = 0
            /\ disk'[b] = files /\ metrics'[b] = n /\ spent'[b] = s
        BY <1>10, <2>3 DEF LevelInv, Types
      <3> QED
        BY <1>15, <3>1
    <2> QED
      BY <2>2, <2>3
  <1>17. Records' /\ Judged'
    BY <1>0, <1>1 DEF Records, Judged
  <1> QED
    BY <1>14, <1>16, <1>17 DEF LevelInv

LEMMA WriteGenerationLevel ==
  ASSUME LevelInv, NEW a \in Agents, WriteGeneration(a)
  PROVE  LevelInv'
  <1>0. pc[a] = "writing" /\ UNCHANGED <<phase, turns, metrics, record, level, spent>>
    BY DEF WriteGeneration
  <1>1. level = None /\ \A b \in Agents : record[b] = None
    BY <1>0, NotScored DEF Running
  <1> DEFINE files == [disk[a] EXCEPT !.generation = metrics[a]]
  <1>2. disk' = [disk EXCEPT ![a] = files] /\ pc' = [pc EXCEPT ![a] = "exited"]
    BY DEF WriteGeneration
  <1>3. files \in Files /\ files.generation = metrics[a]
    <2>1. disk[a] \in Files /\ metrics[a] \in Seq(Metric)
      BY DEF LevelInv, Types
    <2> QED
      BY <2>1 DEF Files
  <1> HIDE DEF files
  <1>4. Types'
    BY <1>0, <1>2, <1>3 DEF LevelInv, Types, Steps, Running
  <1>5. Ledger'
    BY <1>0, <1>2, <1>3 DEF LevelInv, Types, Ledger, Accounted, Running
  <1>6. Records' /\ Judged'
    BY <1>0, <1>1 DEF Records, Judged
  <1> QED
    BY <1>4, <1>5, <1>6 DEF LevelInv

\* The record has what the agent left: its generation.json, or nothing.
LEMMA RecordedIsSpent ==
  ASSUME LevelInv, NEW a \in Agents, pc[a] \notin Running, NEW hard, NEW timedOut \in BOOLEAN,
         NEW r, r = AgentRecord(hard, disk[a].generation, timedOut)
  PROVE  /\ r.passed \in BOOLEAN /\ r.tokens \in Nat
         /\ r.tokens = (IF pc[a] = "exited" THEN spent[a].turns - spent[a].silent ELSE 0)
         /\ r.wall = (IF pc[a] = "exited" THEN spent[a].wall ELSE 0)
  <1> DEFINE g == disk[a].generation
             total(field) == IF g = None THEN 0 ELSE TotalOf(g, field)
  <1>1. r.passed \in BOOLEAN /\ r.tokens = total("tokens") /\ r.wall = total("wall")
    BY DEF AgentRecord, TotalOf
  <1>2. CASE pc[a] = "exited"
    <2>1. /\ g = metrics[a] /\ g \in Seq(Metric) /\ Len(g) = Phases /\ turns[a] = 0
          /\ spent[a].turns = TotalOf(g, "tokens") + spent[a].silent + turns[a]
          /\ spent[a].wall = TotalOf(g, "wall") /\ spent[a].silent \in Nat
      BY <1>2 DEF LevelInv, Types, Spending, Ledger, Accounted
    <2> HIDE DEF g
    <2>2. g # None
      <3>1. \A t \in Seq(Metric) : t \in [1 .. Len(t) -> Metric]
        OBVIOUS
      <3>2. g \in [Phase -> Metric]
        BY <2>1, <3>1 DEF Phase
      <3>3. None \notin [Phase -> Metric]
        BY NoneAssumption DEF Metric
      <3> QED
        BY <3>2, <3>3
    <2>3. TotalOf(g, "tokens") \in Nat
      BY <2>1, TotalType
    <2> QED
      BY <1>1, <1>2, <2>1, <2>2, <2>3
  <1>3. CASE pc[a] # "exited"
    <2>1. g = None
      BY <1>3 DEF LevelInv, Ledger, Accounted
    <2> QED
      BY <1>1, <1>3, <2>1
  <1> QED
    BY <1>2, <1>3

LEMMA ScoreLevel ==
  ASSUME LevelInv, NEW a \in Agents, Score(a)
  PROVE  LevelInv'
  <1>0. /\ \A b \in Agents : pc[b] \notin Running
        /\ record[a] = None /\ UNCHANGED <<pc, phase, turns, disk, metrics, level, spent>>
    BY DEF Score, Running
  <1>1. PICK gates \in {"ran", "failed", "timed out"} :
          record' = [record EXCEPT ![a] =
            AgentRecord(IF gates = "ran" THEN HardScore(disk[a]) ELSE None,
                        disk[a].generation, gates = "timed out")]
    BY DEF Score
  <1> DEFINE r == AgentRecord(IF gates = "ran" THEN HardScore(disk[a]) ELSE None,
                              disk[a].generation, gates = "timed out")
  <1>2. /\ r.passed \in BOOLEAN /\ r.tokens \in Nat
        /\ r.tokens = (IF pc[a] = "exited" THEN spent[a].turns - spent[a].silent ELSE 0)
        /\ r.wall = (IF pc[a] = "exited" THEN spent[a].wall ELSE 0)
    BY <1>0, RecordedIsSpent
  <1> HIDE DEF r
  <1>3. record' = [record EXCEPT ![a] = r]
    BY <1>1 DEF r
  <1>4. /\ record' = [b \in Agents |-> record'[b]] /\ record'[a] = r
        /\ \A b \in Agents : b # a => record'[b] = record[b]
    BY <1>3 DEF LevelInv, Types
  <1>5. level = None
    BY <1>0 DEF LevelInv, Judged
  <1>6. Types'
    BY <1>0, <1>4 DEF LevelInv, Types
  <1>7. Ledger'
    BY <1>0 DEF LevelInv, Ledger
  <1>8. Records'
    BY <1>0, <1>2, <1>4 DEF LevelInv, Records
  <1> QED
    BY <1>0, <1>5, <1>6, <1>7, <1>8 DEF LevelInv, Judged

LEMMA EndLevelLevel ==
  ASSUME LevelInv, EndLevel
  PROVE  LevelInv'
  <1>1. /\ UNCHANGED <<pc, phase, turns, disk, metrics, record, spent>>
        /\ level' = Verdict /\ \A a \in Agents : record[a] # None
    BY DEF EndLevel, Verdict
  <1>2. Verdict' = Verdict
    BY <1>1 DEF Verdict
  <1>3. Types' /\ Ledger' /\ Records'
    BY <1>1 DEF LevelInv, Types, Ledger, Records
  <1> QED
    BY <1>1, <1>2, <1>3 DEF LevelInv, Judged

THEOREM LevelInvariance == Spec => []LevelInv
  <1>1. LevelInv /\ [Next]_vars => LevelInv'
    <2> SUFFICES ASSUME LevelInv, [Next]_vars PROVE LevelInv'
      OBVIOUS
    <2>1. CASE UNCHANGED vars
      BY <2>1 DEF vars, LevelInv, Types, Ledger, Records, Judged, Verdict
    <2> QED
      BY <2>1, CallLevel, LeaveLevel, EndPhaseLevel, WriteGenerationLevel, ScoreLevel,
         EndLevelLevel DEF Next
  <1> QED
    BY InitLevel, <1>1, PTL DEF Spec

-----------------------------------------------------------------------------
(* The properties of a level.                                                *)

\* In any level the report counts as many successes as there are records of one, and a record's
\* numbers are never negative or missing.
THEOREM TypeCorrect == Spec => []TypeOK
  <1>1. LevelInv => TypeOK
    <2> SUFFICES ASSUME LevelInv PROVE TypeOK
      OBVIOUS
    <2>1. ASSUME NEW a \in Agents
          PROVE  /\ disk[a].workspace \in BOOLEAN
                 /\ disk[a].work \subseteq Phase /\ disk[a].transcripts \subseteq Phase
                 /\ disk[a].generation \in {None, metrics[a]}
                 /\ Len(metrics[a]) <= Phases
                 /\ record[a] # None => record[a].passed \in BOOLEAN /\ record[a].tokens \in Nat
      <3>1. disk[a] \in Files /\ spent[a] \in Spending
        BY DEF LevelInv, Types
      <3>2. disk[a].generation \in {None, metrics[a]} /\ Len(metrics[a]) <= Phases
        BY DEF LevelInv, Ledger, Accounted
      <3>3. record[a] # None => record[a].passed \in BOOLEAN /\ record[a].tokens \in Nat
        BY DEF LevelInv, Records
      <3> QED
        BY <3>1, <3>2, <3>3 DEF Files
    <2>2. ASSUME level # None PROVE level.agents_ok \in 0 .. N /\ level.tokens_per_dev \in Nat
      <3> DEFINE f == [a \in Agents |-> record[a].tokens]
                 A == {a \in Agents : record[a].passed}
      <3>1. level = Verdict /\ \A a \in Agents : record[a] # None
        BY <2>2 DEF LevelInv, Judged
      <3>2. \A a \in Agents : record[a].tokens \in Nat
        BY <2>1, <3>1
      <3>3. f \in [Agents -> Nat]
        BY <3>2
      <3>4. A \in SUBSET Agents
        OBVIOUS
      <3>5. level.agents_ok = Cardinality(A) /\ level.tokens_per_dev = TwiceMedian(f) \div 2
        BY <3>1 DEF Verdict
      <3> HIDE DEF f, A
      <3>6. TwiceMedian(f) \in Nat
        BY <3>3, MedianSplits
      <3>7. Cardinality(A) \in Nat /\ Cardinality(A) <= N
        BY <3>4, AgentsCount
      <3> QED
        BY <3>5, <3>6, <3>7
    <2> QED
      BY <2>1, <2>2 DEF LevelInv, Types, TypeOK, Steps
  <1> QED
    BY LevelInvariance, <1>1, PTL

\* run_sdd_scenario, for all completions and any number of phases: whatever the agent destroys
\* in /out, the scenario does not crash, and the report has all its time and, but for phases
\* that claude ended without a result event, all its tokens.
THEOREM WipedIsMeasured == Spec => []WipedWorkIsStillMeasured
  <1>1. LevelInv => WipedWorkIsStillMeasured
    BY DEF LevelInv, Ledger, Accounted, Records, WipedWorkIsStillMeasured
  <1> QED
    BY LevelInvariance, <1>1, PTL

\* dev_record, for any number of agents: a level whose agents mostly did not work is invalid, one
\* whose agents mostly did is not.
THEOREM GarbageIsInvalid == Spec => []GarbageLevelIsInvalid
  <1>1. LevelInv => GarbageLevelIsInvalid
    <2> SUFFICES ASSUME LevelInv, level # None
                 PROVE  LET worked == {a \in Agents : spent[a].wall >= MinValidWall}
                            left == {a \in Agents : spent[a].wall >= MinValidWall /\ pc[a] = "exited"}
                        IN  /\ level.valid => 2 * Cardinality(worked) >= N
                            /\ 2 * Cardinality(left) > N => level.valid
                            /\ level.agents_ok = Cardinality({a \in Agents : record[a].passed})
      BY DEF GarbageLevelIsInvalid
    <2> DEFINE f == [a \in Agents |-> record[a].wall]
               large == {a \in Agents : f[a] >= MinValidWall}
               worked == {a \in Agents : spent[a].wall >= MinValidWall}
               left == {a \in Agents : spent[a].wall >= MinValidWall /\ pc[a] = "exited"}
    <2>1. level = Verdict /\ \A a \in Agents : record[a] # None
      BY DEF LevelInv, Judged
    <2>2. \A a \in Agents : /\ spent[a].wall \in Nat
                            /\ f[a] = (IF pc[a] = "exited" THEN spent[a].wall ELSE 0)
      BY <2>1 DEF LevelInv, Types, Spending, Records
    <2>3. f \in [Agents -> Nat] /\ MinValidWall \in Nat
      BY <2>2, SizesAssumption
    <2>4. /\ level.valid <=> TwiceMedian(f) >= 2 * MinValidWall
          /\ level.agents_ok = Cardinality({a \in Agents : record[a].passed})
      BY <2>1 DEF Verdict
    <2> HIDE DEF f
    <2>5. /\ TwiceMedian(f) >= 2 * MinValidWall => 2 * Cardinality(large) >= N
          /\ 2 * Cardinality(large) > N => TwiceMedian(f) >= 2 * MinValidWall
      BY <2>3, MedianSplits
    <2>6. large \in SUBSET worked \/ MinValidWall = 0
      BY <2>2, <2>3
    <2>7. worked \in SUBSET Agents /\ large \in SUBSET Agents /\ left \in SUBSET large
      BY <2>2
    <2>8. MinValidWall = 0 => worked = Agents
      BY <2>2
    <2> HIDE DEF large, worked, left
    <2>9. Cardinality(large) <= Cardinality(worked) /\ Cardinality(left) <= Cardinality(large)
      <3>1. large \in SUBSET worked
        BY <2>6, <2>7, <2>8
      <3> QED
        BY <2>7, <3>1, AgentsCount
    <2>10. {Cardinality(large), Cardinality(worked), Cardinality(left)} \subseteq Nat /\ N \in Nat
      <3>1. left \in SUBSET Agents
        BY <2>7
      <3> QED
        BY <2>7, <3>1, AgentsCount
    <2>11. 2 * Cardinality(large) >= N => 2 * Cardinality(worked) >= N
      BY <2>9, <2>10
    <2>12. 2 * Cardinality(left) > N => 2 * Cardinality(large) > N
      BY <2>9, <2>10
    <2> QED
      BY <2>4, <2>5, <2>11, <2>12 DEF worked, left
  <1> QED
    BY LevelInvariance, <1>1, PTL
=============================================================================
