--------------------------- MODULE Reduction_proofs ---------------------------
(***************************************************************************)
(* Proofs about the reduction in MPI_Finalize, for every number of ranks.  *)
(* That nothing is merged twice and that the barrier keeps the tracer's    *)
(* messages from the program's does not depend on the shape of the tree;   *)
(* that nothing is lost, that the file is complete and that no two ranks   *)
(* wait for each other does.  That the tree is one is arithmetic on powers *)
(* of two, which the provers do not have; it is a hypothesis, which TLC    *)
(* evaluates (module MCTraceReduce).                                       *)
(***************************************************************************)
EXTENDS Reduction, TLAPS, WellFoundedInduction, SequenceTheorems

Early == {"call", "barrier", "left", "right", "send"}
Labels == Early \cup {"size sent", "trace sent", "done"}

\* The trace a rank sends is the one it holds: it receives nothing after that.
TheTrace(r) == TraceMessage(held[r])
Shapes(r) == {<<>>, <<SizeMessage>>, <<TheTrace(r)>>, <<SizeMessage, TheTrace(r)>>}

\* What a rank has sent depends on where it is, and goes to its parent only.
Channels ==
  \A r, q \in Ranks :
    /\ chan[r][q] \in Shapes(r)
    /\ pc[r] \in Early => chan[r][q] = <<>>
    /\ pc[r] = "size sent" => chan[r][q] \in {<<>>, <<SizeMessage>>}
    /\ q # GetParent(r) => chan[r][q] = <<>>

\* The rank's trace is somewhere: kept, or in the channel to its parent.
HasTrace(r, q) == chan[r][q] \in {<<TheTrace(r)>>, <<SizeMessage, TheTrace(r)>>}
Live(r) == Keeps(r) \/ \E q \in Ranks : HasTrace(r, q)

\* No two live traces hold the calls of one rank.
Apart == \A r, q \in Ranks : r # q /\ Live(r) /\ Live(q) => held[r] \cap held[q] = {}

Types ==
  /\ pc \in [Ranks -> Labels]
  /\ held \in [Ranks -> SUBSET Ranks]
  /\ sized \in [Ranks -> BOOLEAN]
  /\ \A r \in Ranks : sized[r] => Waiting(r) /\ Child(r) < N
  /\ DOMAIN chan = Ranks /\ \A r \in Ranks : DOMAIN chan[r] = Ranks
  /\ file \in SUBSET Ranks

\* The part of the invariant that holds for any tree.
PInv == Types /\ Channels /\ Apart /\ AfterTheProgram
-----------------------------------------------------------------------------
(* Messages in a channel. *)

\* What is on its way in a channel of each shape.
LEMMA OnItsWayShapes ==
  ASSUME NEW r \in Ranks, NEW q \in Ranks
  PROVE  /\ chan[r][q] = <<>> => OnItsWay(r, q) = {}
         /\ chan[r][q] = <<SizeMessage>> => OnItsWay(r, q) = {}
         /\ chan[r][q] = <<TheTrace(r)>> => OnItsWay(r, q) = {TheTrace(r)}
         /\ chan[r][q] = <<SizeMessage, TheTrace(r)>> => OnItsWay(r, q) = {TheTrace(r)}
<1> DEFINE T == TheTrace(r)
           S == SizeMessage
<1>1. S.kind = "size" /\ T.kind = "trace"
  BY DEF SizeMessage, TheTrace, TraceMessage
<1> HIDE DEF T, S
<1>2. chan[r][q] = <<>> => OnItsWay(r, q) = {}
  BY DEF OnItsWay
<1>3. chan[r][q] = <<S>> => OnItsWay(r, q) = {}
  BY <1>1 DEF OnItsWay
<1>4. chan[r][q] = <<T>> => OnItsWay(r, q) = {T}
  BY <1>1 DEF OnItsWay
<1>5. chan[r][q] = <<S, T>> => OnItsWay(r, q) = {T}
  BY <1>1 DEF OnItsWay
<1> QED BY <1>2, <1>3, <1>4, <1>5 DEF S, T

\* The two kinds of messages differ.
LEMMA Kinds ==
  ASSUME NEW ranks
  PROVE  /\ SizeMessage.kind = "size" /\ TraceMessage(ranks).kind = "trace"
         /\ TraceMessage(ranks).ranks = ranks /\ SizeMessage # TraceMessage(ranks)
BY DEF SizeMessage, TraceMessage

\* Appending to, and taking from, the short sequences of messages there are.
LEMMA MessageSequences ==
  ASSUME NEW r \in Ranks
  PROVE  LET S == SizeMessage
             T == TheTrace(r)
         IN  /\ Append(<<>>, S) = <<S>> /\ Append(<<>>, T) = <<T>> /\ Append(<<S>>, T) = <<S, T>>
             /\ Head(<<S>>) = S /\ Head(<<T>>) = T /\ Head(<<S, T>>) = S
             /\ Tail(<<S>>) = <<>> /\ Tail(<<T>>) = <<>> /\ Tail(<<S, T>>) = <<T>>
             /\ <<>> \notin {<<S>>, <<T>>, <<S, T>>} /\ <<S, T>> \notin {<<S>>, <<T>>}
             /\ <<S>> # <<T>>
<1> DEFINE S == SizeMessage
           T == TheTrace(r)
<1>0. S # T
  BY Kinds DEF TheTrace
<1> HIDE DEF S, T
<1>1. Append(<<>>, S) = <<S>> /\ Append(<<>>, T) = <<T>>
  OBVIOUS
<1>2. Append(<<S>>, T) = <<S, T>>
  <2>1. <<S>> \in Seq({S, T}) /\ <<S, T>> \in Seq({S, T}) /\ Len(<<S>>) = 1 /\ Len(<<S, T>>) = 2
    OBVIOUS
  <2>2. /\ Append(<<S>>, T) \in Seq({S, T}) /\ Len(Append(<<S>>, T)) = 2
        /\ Append(<<S>>, T)[1] = S /\ Append(<<S>>, T)[2] = T
    BY <2>1
  <2>3. Len(Append(<<S>>, T)) = Len(<<S, T>>)
        /\ \A k \in 1..Len(<<S, T>>) : Append(<<S>>, T)[k] = <<S, T>>[k]
    BY <2>1, <2>2
  <2> QED BY <2>1, <2>2, <2>3, SeqEqual
<1>3. Head(<<S>>) = S /\ Head(<<T>>) = T /\ Head(<<S, T>>) = S
  OBVIOUS
<1>4. Tail(<<S>>) = <<>> /\ Tail(<<T>>) = <<>>
  OBVIOUS
<1>5. Tail(<<S, T>>) = <<T>>
  OBVIOUS
<1>6. <<>> \notin {<<S>>, <<T>>, <<S, T>>} /\ <<S, T>> \notin {<<S>>, <<T>>}
  OBVIOUS
<1>7. <<S>> # <<T>>
  BY <1>0
<1> QED BY <1>1, <1>2, <1>3, <1>4, <1>5, <1>6, <1>7 DEF S, T

\* What a rank holds alone, it still holds: steps that change no trace and no
\* channel keep the invariant.
LEMMA QuietStep ==
  ASSUME PInv, NEW r \in Ranks, NEW label, UNCHANGED <<held, chan>>,
         Go(r, label), label \in Labels,
         pc[r] \in Early \/ label \notin Early, label \in Early \/ label = "done",
         pc[r] \in {"trace sent", "done"} => label = "done",
         \A q \in Ranks : sized'[q] => sized[q] /\ Waiting(q)' /\ Child(q)' < N,
         sized' \in [Ranks -> BOOLEAN], file' \in SUBSET Ranks,
         label # "call",
         label = "barrier" \/ \A q \in Ranks : pc[q] # "call"
  PROVE  /\ PInv'
         /\ \A q \in Ranks : Live(q)' => Live(q)
         /\ \A q \in Ranks : q # r \/ label # "done" \/ pc[r] = "trace sent" => (Live(q) => Live(q)')
<1> USE DEF PInv, Types, Go, Labels, Early
<1>1. Types'
  BY DEF Waiting
<1>3. Channels'
  <2>1. chan' = chan /\ Channels /\ \A x \in Ranks : Shapes(x)' = Shapes(x)
    BY DEF Shapes, TheTrace, TraceMessage
  <2>2. \A x \in Ranks : pc'[x] \in Early => pc[x] \in Early
    OBVIOUS
  <2>3. \A x \in Ranks : pc'[x] = "size sent" => pc[x] = "size sent"
    OBVIOUS
  <2> HIDE DEF PInv, Types, Go, Early, Labels
  <2> SUFFICES ASSUME NEW x \in Ranks, NEW q \in Ranks
               PROVE  /\ chan'[x][q] \in Shapes(x)'
                      /\ pc'[x] \in Early => chan'[x][q] = <<>>
                      /\ pc'[x] = "size sent" => chan'[x][q] \in {<<>>, <<SizeMessage>>}
                      /\ q # GetParent(x) => chan'[x][q] = <<>>
    BY DEF Channels
  <2>4. /\ chan[x][q] \in Shapes(x)
        /\ pc[x] \in Early => chan[x][q] = <<>>
        /\ pc[x] = "size sent" => chan[x][q] \in {<<>>, <<SizeMessage>>}
        /\ q # GetParent(x) => chan[x][q] = <<>>
    BY <2>1 DEF Channels
  <2> QED BY <2>1, <2>2, <2>3, <2>4
<1>4. \A q \in Ranks : Live(q)' => Live(q)
  BY DEF Live, Keeps, HasTrace, TheTrace, TraceMessage
<1>5. Apart'
  BY <1>4 DEF Apart
<1>6. AfterTheProgram'
  BY DEF AfterTheProgram
<1>7. \A q \in Ranks : q # r \/ label # "done" \/ pc[r] = "trace sent" => (Live(q) => Live(q)')
  BY DEF Live, Keeps, HasTrace, TheTrace, TraceMessage
<1> QED BY <1>1, <1>3, <1>4, <1>5, <1>6, <1>7

\* A send puts a message behind those in the channel to the parent.
LEMMA SendStep ==
  ASSUME PInv, NEW r \in Ranks, SendSize(r) \/ SendTrace(r)
  PROVE  PInv' /\ (GetParent(r) \in Ranks => \A x \in Ranks : Live(x)' <=> Live(x))
<1> DEFINE p == GetParent(r)
           msg == IF pc[r] = "send" THEN SizeMessage ELSE TheTrace(r)
<1>1. /\ pc[r] \in {"send", "size sent"}
      /\ pc' = [pc EXCEPT ![r] = IF pc[r] = "send" THEN "size sent" ELSE "trace sent"]
      /\ UNCHANGED <<held, sized, file>>
      /\ chan' = [chan EXCEPT ![r][p] = Append(@, msg)]
  BY DEF SendSize, SendTrace, Send, Go, TheTrace
<1> HIDE DEF p
<1>2. \A x \in Ranks : TheTrace(x)' = TheTrace(x) /\ Shapes(x)' = Shapes(x)
  BY <1>1 DEF TheTrace, Shapes, TraceMessage
<1>3. Types'
  <2>1. pc' \in [Ranks -> Labels] /\ \A x \in Ranks : x # r => pc'[x] = pc[x]
    BY <1>1 DEF PInv, Types, Labels, Early
  <2>2. ~sized[r]
    BY <1>1 DEF PInv, Types, Waiting
  <2>3. \A x \in Ranks : sized'[x] => Waiting(x)' /\ Child(x)' < N
    BY <1>1, <2>1, <2>2 DEF PInv, Types, Waiting, Child
  <2>4. DOMAIN chan' = Ranks /\ \A x \in Ranks : DOMAIN chan'[x] = Ranks
    BY <1>1 DEF PInv, Types
  <2> QED BY <1>1, <2>1, <2>3, <2>4 DEF PInv, Types
<1>4. \A x, q \in Ranks : x # r \/ q # p => chan'[x][q] = chan[x][q]
  BY <1>1 DEF PInv, Types
<1>5. p \in Ranks => chan'[r][p] = Append(chan[r][p], msg)
  BY <1>1 DEF PInv, Types
<1>6. p \in Ranks =>
        /\ pc[r] = "send" => chan'[r][p] = <<SizeMessage>>
        /\ pc[r] = "size sent" => chan'[r][p] \in {<<TheTrace(r)>>, <<SizeMessage, TheTrace(r)>>}
  <2> SUFFICES ASSUME p \in Ranks
               PROVE  /\ pc[r] = "send" => chan'[r][p] = <<SizeMessage>>
                      /\ pc[r] = "size sent" => chan'[r][p] \in {<<TheTrace(r)>>, <<SizeMessage, TheTrace(r)>>}
    OBVIOUS
  <2>1. pc[r] = "send" => chan[r][p] = <<>>
    BY DEF PInv, Channels, Early
  <2>2. pc[r] = "size sent" => chan[r][p] \in {<<>>, <<SizeMessage>>}
    BY DEF PInv, Channels
  <2>3. /\ Append(<<>>, SizeMessage) = <<SizeMessage>>
        /\ Append(<<>>, TheTrace(r)) = <<TheTrace(r)>>
        /\ Append(<<SizeMessage>>, TheTrace(r)) = <<SizeMessage, TheTrace(r)>>
    BY MessageSequences
  <2> QED BY <1>5, <2>1, <2>2, <2>3
<1>7. Channels'
  <2> SUFFICES ASSUME NEW x \in Ranks, NEW q \in Ranks
               PROVE  /\ chan'[x][q] \in Shapes(x)
                      /\ pc'[x] \in Early => chan'[x][q] = <<>>
                      /\ pc'[x] = "size sent" => chan'[x][q] \in {<<>>, <<SizeMessage>>}
                      /\ q # GetParent(x) => chan'[x][q] = <<>>
    BY <1>2 DEF Channels
  <2>1. /\ chan[x][q] \in Shapes(x)
        /\ pc[x] \in Early => chan[x][q] = <<>>
        /\ pc[x] = "size sent" => chan[x][q] \in {<<>>, <<SizeMessage>>}
        /\ q # GetParent(x) => chan[x][q] = <<>>
    BY DEF PInv, Channels
  <2>2. CASE x # r
    <3>1. pc'[x] = pc[x]
      BY <1>1, <2>2 DEF PInv, Types
    <3> QED BY <1>4, <2>1, <2>2, <3>1
  <2>3. CASE x = r /\ q # p
    <3>1. chan'[x][q] = <<>>
      BY <1>4, <2>1, <2>3 DEF p
    <3> QED BY <3>1, <1>1, <2>3 DEF Shapes, Early, PInv, Types
  <2>4. CASE x = r /\ q = p
    <3>1. pc'[r] = IF pc[r] = "send" THEN "size sent" ELSE "trace sent"
      BY <1>1 DEF PInv, Types
    <3>2. CASE pc[r] = "send"
      <4>1. pc'[x] = "size sent" /\ chan'[x][q] = <<SizeMessage>> /\ q = GetParent(x)
        BY <1>6, <2>4, <3>1, <3>2 DEF p
      <4> QED BY <4>1 DEF Shapes, Early
    <3>3. CASE pc[r] = "size sent"
      <4>1. /\ pc'[x] = "trace sent" /\ q = GetParent(x)
            /\ chan'[x][q] \in {<<TheTrace(x)>>, <<SizeMessage, TheTrace(x)>>}
        BY <1>6, <2>4, <3>1, <3>3 DEF p
      <4> QED BY <4>1 DEF Shapes, Early
    <3> QED BY <1>1, <3>2, <3>3
  <2> QED BY <2>2, <2>3, <2>4
<1>8. \A x \in Ranks : Live(x)' => Live(x)
  <2>1. Keeps(r)
    BY <1>1 DEF Keeps
  <2>2. \A x \in Ranks : x # r => (Live(x)' => Live(x))
    BY <1>1, <1>2, <1>4 DEF Live, Keeps, HasTrace, PInv, Types
  <2> QED BY <2>1, <2>2 DEF Live
<1>9. Apart'
  BY <1>1, <1>8 DEF PInv, Apart
<1>10. AfterTheProgram'
  <2> SUFFICES ASSUME NEW x \in Ranks, NEW q \in Ranks, pc'[x] = "call"
               PROVE  pc'[q] \in {"call", "barrier"} /\ chan'[q][x] = <<>>
    BY DEF AfterTheProgram
  <2>1. pc[x] = "call"
    BY <1>1 DEF PInv, Types
  <2>2. pc[r] \in {"call", "barrier"}
    BY <2>1 DEF PInv, AfterTheProgram
  <2> QED BY <1>1, <2>2
<1>11. p \in Ranks => \A x \in Ranks : Live(x) => Live(x)'
  <2> SUFFICES ASSUME p \in Ranks, NEW x \in Ranks, Live(x) PROVE Live(x)'
    OBVIOUS
  <2>1. CASE x # r
    <3>1. pc'[x] = pc[x] /\ \A q \in Ranks : HasTrace(x, q)' = HasTrace(x, q)
      BY <1>1, <1>2, <1>4, <2>1 DEF HasTrace, PInv, Types
    <3> QED BY <3>1 DEF Live, Keeps
  <2>2. CASE x = r /\ pc[r] = "send"
    BY <1>1, <2>2 DEF Live, Keeps, PInv, Types
  <2>3. CASE x = r /\ pc[r] = "size sent"
    BY <1>2, <1>6, <2>3 DEF Live, HasTrace
  <2> QED BY <1>1, <2>1, <2>2, <2>3
<1> QED BY <1>3, <1>7, <1>8, <1>9, <1>10, <1>11 DEF PInv, p

\* A receive takes the message in front from the channel of a child that sent
\* it, and with the trace takes over its calls.
LEMMA ReceiveStep ==
  ASSUME PInv, NEW r \in Ranks, ReceiveSize(r) \/ ReceiveTrace(r), Child(r) \in Ranks
  PROVE  /\ PInv'
         /\ ReceiveSize(r) => \A x \in Ranks : Live(x)' <=> Live(x)
         /\ ReceiveTrace(r) => \E c \in Ranks :
              /\ c = Child(r) /\ c # r /\ r = GetParent(c)
              /\ held' = [held EXCEPT ![r] = held[r] \cup held[c]]
              /\ ~Live(c)'
              /\ \A x \in Ranks \ {c} : Live(x)' <=> Live(x)
<1>0. PICK c \in Ranks : c = Child(r)
  OBVIOUS
<1> DEFINE T == TheTrace(c)
           S == SizeMessage
<1>1. /\ pc[r] \in {"left", "right"}
      /\ chan[c][r] # <<>>
      /\ chan' = [chan EXCEPT ![c][r] = Tail(@)]
      /\ file' = file
  BY <1>0 DEF ReceiveSize, ReceiveTrace, Receive, Waiting
<1>2. \A x, q \in Ranks : x # c \/ q # r => chan'[x][q] = chan[x][q]
  BY <1>0, <1>1 DEF PInv, Types
<1>3. chan'[c][r] = Tail(chan[c][r])
  BY <1>0, <1>1 DEF PInv, Types
<1>4. chan[c][r] \in {<<S>>, <<T>>, <<S, T>>} /\ pc[c] \notin Early /\ r = GetParent(c) /\ c # r
  BY <1>0, <1>1 DEF PInv, Channels, Shapes, Early
<1>5. /\ Head(<<S>>) = S /\ Head(<<T>>) = T /\ Head(<<S, T>>) = S
      /\ Tail(<<S>>) = <<>> /\ Tail(<<T>>) = <<>> /\ Tail(<<S, T>>) = <<T>>
      /\ S.kind = "size" /\ T.kind = "trace" /\ T.ranks = held[c]
  BY MessageSequences, Kinds DEF TheTrace
<1>6. CASE ReceiveSize(r)
  <2>1. UNCHANGED <<pc, held, file>> /\ sized' = [sized EXCEPT ![r] = TRUE] /\ Head(chan[c][r]).kind = "size"
    BY <1>0, <1>6 DEF ReceiveSize, Receive
  <2>2. chan'[c][r] \in {<<>>, <<T>>} /\ (chan'[c][r] = <<T>> => chan[c][r] = <<S, T>>)
    <3>1. chan[c][r] # <<T>>
      BY <1>5, <2>1
    <3>2. <<>> # <<T>>
      BY <1>0, MessageSequences
    <3> QED BY <1>3, <1>4, <1>5, <3>1, <3>2
  <2>3. \A x \in Ranks : TheTrace(x)' = TheTrace(x) /\ Shapes(x)' = Shapes(x)
    BY <2>1 DEF TheTrace, Shapes, TraceMessage
  <2>4. Types'
    <3>1. c < N
      BY <1>0, NAssumption DEF Ranks
    <3>2. \A x \in Ranks : Waiting(x)' = Waiting(x) /\ Child(x)' = Child(x)
      BY <2>1 DEF Waiting, Child
    <3>3. Waiting(r) /\ Child(r) < N
      BY <1>0, <1>1, <3>1 DEF Waiting
    <3>4. sized' \in [Ranks -> BOOLEAN] /\ \A x \in Ranks : sized'[x] => Waiting(x)' /\ Child(x)' < N
      BY <2>1, <3>2, <3>3 DEF PInv, Types
    <3>5. DOMAIN chan' = Ranks /\ \A x \in Ranks : DOMAIN chan'[x] = Ranks
      BY <1>0, <1>1 DEF PInv, Types
    <3> QED BY <2>1, <3>4, <3>5 DEF PInv, Types
  <2>5. Channels'
    <3> SUFFICES ASSUME NEW x \in Ranks, NEW q \in Ranks
                 PROVE  /\ chan'[x][q] \in Shapes(x)
                        /\ pc[x] \in Early => chan'[x][q] = <<>>
                        /\ pc[x] = "size sent" => chan'[x][q] \in {<<>>, <<SizeMessage>>}
                        /\ q # GetParent(x) => chan'[x][q] = <<>>
      BY <2>1, <2>3 DEF Channels
    <3>1. /\ chan[x][q] \in Shapes(x)
          /\ pc[x] \in Early => chan[x][q] = <<>>
          /\ pc[x] = "size sent" => chan[x][q] \in {<<>>, <<SizeMessage>>}
          /\ q # GetParent(x) => chan[x][q] = <<>>
      BY DEF PInv, Channels
    <3>2. CASE x # c \/ q # r
      BY <1>2, <3>1, <3>2
    <3>3. CASE x = c /\ q = r
      <4>1. pc[c] = "size sent" => chan[c][r] # <<S, T>>
        BY <3>1, <3>3, MessageSequences
      <4> QED BY <1>4, <2>2, <3>3, <4>1 DEF Shapes
    <3> QED BY <3>2, <3>3
  <2>6. \A x \in Ranks : Live(x)' => Live(x)
    <3> SUFFICES ASSUME NEW x \in Ranks, Live(x)' PROVE Live(x)
      OBVIOUS
    <3>1. CASE Keeps(x)'
      BY <2>1, <3>1 DEF Live, Keeps
    <3>2. CASE \E q \in Ranks : HasTrace(x, q)'
      <4>1. PICK q \in Ranks : HasTrace(x, q)'
        BY <3>2
      <4>2. chan'[x][q] \in {<<TheTrace(x)>>, <<SizeMessage, TheTrace(x)>>}
        BY <4>1, <2>3 DEF HasTrace
      <4>3. HasTrace(x, q)
        BY <4>2, <1>2, <2>2, MessageSequences DEF HasTrace
      <4> QED BY <4>3 DEF Live
    <3> QED BY <3>1, <3>2 DEF Live
  <2>7. Apart'
    BY <2>1, <2>6 DEF PInv, Apart
  <2>8. AfterTheProgram'
    <3>1. \A x, q \in Ranks : chan[x][q] = <<>> => chan'[x][q] = <<>>
      BY <1>1, <1>2
    <3> QED BY <2>1, <3>1 DEF PInv, AfterTheProgram
  <2>9. \A x \in Ranks : Live(x) => Live(x)'
    <3> SUFFICES ASSUME NEW x \in Ranks, Live(x) PROVE Live(x)'
      OBVIOUS
    <3>1. CASE Keeps(x)
      BY <2>1, <3>1 DEF Live, Keeps
    <3>2. CASE \E q \in Ranks : HasTrace(x, q)
      <4>1. PICK q \in Ranks : HasTrace(x, q)
        BY <3>2
      <4>2. CASE x # c \/ q # r
        BY <1>2, <2>3, <4>1, <4>2 DEF HasTrace, Live
      <4>3. CASE x = c /\ q = r
        <5>1. chan[c][r] = <<S, T>>
          BY <1>5, <2>1, <4>1, <4>3 DEF HasTrace
        <5>2. chan'[c][r] = <<T>>
          BY <1>3, <1>5, <5>1
        <5> QED BY <2>3, <4>3, <5>2 DEF HasTrace, Live
      <4> QED BY <4>2, <4>3
    <3> QED BY <3>1, <3>2 DEF Live
  <2>10. ~ReceiveTrace(r)
    BY <1>0, <1>5, <2>1 DEF ReceiveTrace, Receive
  <2> QED BY <2>4, <2>5, <2>6, <2>7, <2>8, <2>9, <2>10 DEF PInv
<1>7. CASE ReceiveTrace(r)
  <2>1. /\ Head(chan[c][r]).kind = "trace"
        /\ held' = [held EXCEPT ![r] = @ \cup Head(chan[c][r]).ranks]
        /\ sized' = [sized EXCEPT ![r] = FALSE]
        /\ pc' = [pc EXCEPT ![r] = AfterChild(r)]
    BY <1>0, <1>7 DEF ReceiveTrace, Receive, Go
  <2>2. chan[c][r] = <<T>> /\ chan'[c][r] = <<>> /\ Head(chan[c][r]).ranks = held[c]
    BY <1>3, <1>4, <1>5, <2>1
  <2>3. held' = [held EXCEPT ![r] = held[r] \cup held[c]]
    BY <2>1, <2>2
  <2>4. AfterChild(r) \in {"right", "send"}
    BY DEF AfterChild
  <2>5. Types'
    <3>1. pc' \in [Ranks -> Labels]
      BY <2>1, <2>4 DEF PInv, Types, Labels, Early
    <3>2. held' \in [Ranks -> SUBSET Ranks]
      BY <1>0, <2>3 DEF PInv, Types
    <3>3. sized' \in [Ranks -> BOOLEAN] /\ \A x \in Ranks : sized'[x] => Waiting(x)' /\ Child(x)' < N
      BY <2>1 DEF PInv, Types, Waiting, Child
    <3>4. DOMAIN chan' = Ranks /\ \A x \in Ranks : DOMAIN chan'[x] = Ranks
      BY <1>0, <1>1 DEF PInv, Types
    <3> QED BY <1>1, <3>1, <3>2, <3>3, <3>4 DEF PInv, Types
  <2>6. \A x, q \in Ranks : chan[x][q] = <<>> => chan'[x][q] = <<>>
    BY <1>2, <2>2
  <2>7. \A q \in Ranks : chan[r][q] = <<>> /\ chan'[r][q] = <<>>
    BY <1>1, <2>6 DEF PInv, Channels, Early
  <2>8. \A x \in Ranks : x # r => TheTrace(x)' = TheTrace(x) /\ Shapes(x)' = Shapes(x) /\ pc'[x] = pc[x] /\ held'[x] = held[x]
    BY <2>1, <2>3 DEF TheTrace, Shapes, TraceMessage, PInv, Types
  <2>9. Channels'
    <3> SUFFICES ASSUME NEW x \in Ranks, NEW q \in Ranks
                 PROVE  /\ chan'[x][q] \in Shapes(x)'
                        /\ pc'[x] \in Early => chan'[x][q] = <<>>
                        /\ pc'[x] = "size sent" => chan'[x][q] \in {<<>>, <<SizeMessage>>}
                        /\ q # GetParent(x) => chan'[x][q] = <<>>
      BY DEF Channels
    <3>1. CASE x = r
      BY <2>7, <3>1 DEF Shapes
    <3>2. CASE x # r
      <4>1. /\ chan[x][q] \in Shapes(x)
            /\ pc[x] \in Early => chan[x][q] = <<>>
            /\ pc[x] = "size sent" => chan[x][q] \in {<<>>, <<SizeMessage>>}
            /\ q # GetParent(x) => chan[x][q] = <<>>
        BY DEF PInv, Channels
      <4>2. chan'[x][q] \in {chan[x][q], <<>>} /\ <<>> \in Shapes(x)
        BY <1>2, <2>2 DEF Shapes
      <4> QED BY <2>8, <3>2, <4>1, <4>2
    <3> QED BY <3>1, <3>2
  <2>10. \A x \in Ranks : x # r => (Live(x)' => Live(x))
    BY <1>2, <2>2, <2>8, MessageSequences DEF Live, Keeps, HasTrace
  <2>11. ~Live(c)' /\ Live(c) /\ Live(r)
    <3>1. \A q \in Ranks : chan'[c][q] = <<>>
      BY <1>0, <1>2, <1>4, <2>2 DEF PInv, Channels
    <3>2. ~ \E q \in Ranks : HasTrace(c, q)'
      BY <1>0, <1>4, <2>8, <3>1, MessageSequences DEF HasTrace
    <3>3. pc[c] \in {"trace sent", "done"}
      <4>1. pc[c] # "size sent"
        BY <1>0, <2>2, <1>5, MessageSequences DEF PInv, Channels
      <4> QED BY <1>0, <1>4, <4>1 DEF PInv, Types, Labels
    <3>4. ~Keeps(c)'
      BY <3>3, <2>8, <1>0, <1>4 DEF Keeps
    <3>5. HasTrace(c, r)
      BY <2>2 DEF HasTrace
    <3> QED BY <1>1, <3>2, <3>4, <3>5 DEF Live, Keeps
  <2>12. Apart'
    <3> SUFFICES ASSUME NEW x \in Ranks, NEW q \in Ranks, x # q, Live(x)', Live(q)'
                 PROVE  held'[x] \cap held'[q] = {}
      BY DEF Apart
    <3>1. x # c /\ q # c
      BY <2>11
    <3>2. Live(x) /\ Live(q) /\ Live(c)
      BY <2>10, <2>11
    <3>3. held[x] \cap held[q] = {} /\ held[x] \cap held[c] = {} /\ held[q] \cap held[c] = {}
      BY <1>0, <3>1, <3>2 DEF PInv, Apart
    <3>4. held'[r] = held[r] \cup held[c]
      BY <2>3 DEF PInv, Types
    <3> QED BY <2>8, <3>3, <3>4
  <2>13. AfterTheProgram'
    <3> SUFFICES ASSUME NEW x \in Ranks, NEW q \in Ranks, pc'[x] = "call"
                 PROVE  FALSE
      BY DEF AfterTheProgram
    <3>1. pc[x] = "call"
      BY <2>1, <2>4 DEF PInv, Types
    <3> QED BY <1>1, <3>1 DEF PInv, AfterTheProgram
  <2>14. \A x \in Ranks \ {c} : Live(x) => Live(x)'
    <3> SUFFICES ASSUME NEW x \in Ranks \ {c}, Live(x) PROVE Live(x)'
      OBVIOUS
    <3>1. CASE x = r
      BY <2>1, <2>4, <3>1 DEF Live, Keeps, PInv, Types
    <3>2. CASE x # r
      <4>1. pc'[x] = pc[x] /\ \A q \in Ranks : HasTrace(x, q)' = HasTrace(x, q)
        BY <1>2, <2>8, <3>2 DEF HasTrace
      <4> QED BY <4>1 DEF Live, Keeps
    <3> QED BY <3>1, <3>2
  <2>15. \A x \in Ranks \ {c} : Live(x)' <=> Live(x)
    <3>1. Live(r)
      BY <2>11
    <3> QED BY <2>10, <2>14, <3>1
  <2>16. ~ReceiveSize(r)
    BY <1>0, <1>5, <2>1 DEF ReceiveSize, Receive
  <2> QED BY <1>0, <1>4, <2>3, <2>5, <2>9, <2>11, <2>12, <2>13, <2>15, <2>16 DEF PInv
<1> QED BY <1>6, <1>7

-----------------------------------------------------------------------------
(* For any tree. *)

\* Initially the channels are empty and every rank runs its program.
LEMMA InitPInv == Init => PInv
<1> SUFFICES ASSUME Init PROVE PInv
  OBVIOUS
<1>1. Types
  BY DEF Init, Types, Labels, Early
<1>2. Channels
  BY DEF Init, Channels, Shapes, Early
<1>3. Apart
  BY DEF Init, Apart
<1>4. AfterTheProgram
  BY DEF Init, AfterTheProgram
<1> QED BY <1>1, <1>2, <1>3, <1>4 DEF PInv

\* Every step keeps the invariant.
LEMMA StepPInv == ASSUME Tree(N), PInv, [Next]_vars PROVE PInv'
<1>1. CASE UNCHANGED vars
  <2>1. Types'
    BY <1>1 DEF PInv, vars, Types, Waiting, Child
  <2>2. Channels'
    BY <1>1 DEF PInv, vars, Channels, Shapes, TheTrace, TraceMessage
  <2>3. Apart'
    BY <1>1 DEF PInv, vars, Apart, Live, Keeps, HasTrace, TheTrace, TraceMessage
  <2>4. AfterTheProgram'
    BY <1>1 DEF PInv, vars, AfterTheProgram
  <2> QED BY <2>1, <2>2, <2>3, <2>4 DEF PInv
<1>2. ASSUME NEW r \in Ranks, Step(r) PROVE PInv'
  <2>0. Types /\ (pc[r] \notin {"call", "barrier"} => \A q \in Ranks : pc[q] # "call")
    BY <1>2 DEF PInv, AfterTheProgram
  <2>1. CASE EnterBarrier(r)
    BY <1>2, <2>0, <2>1, QuietStep DEF EnterBarrier, Types, Labels, Early, Go, Waiting, Child
  <2>2. CASE LeaveBarrier(r)
    BY <1>2, <2>0, <2>2, QuietStep DEF LeaveBarrier, Types, Labels, Early, Go, Waiting, Child
  <2>3. CASE NoChild(r)
    <3>1. /\ pc[r] \in {"left", "right"} /\ Go(r, AfterChild(r)) /\ Child(r) >= N
          /\ UNCHANGED <<held, sized, chan, file>>
      BY <2>3 DEF NoChild, Waiting
    <3>2. Child(r) \in Nat
      BY <1>2 DEF Tree, Child, Ranks, LEFT, RIGHT
    <3>3. ~sized[r]
      BY <1>2, <2>0, <3>1, <3>2, NAssumption DEF Types
    <3>4. AfterChild(r) \in {"right", "send"}
      BY DEF AfterChild
    <3>5. \A q \in Ranks : sized'[q] => sized[q] /\ Waiting(q)' /\ Child(q)' < N
      BY <1>2, <2>0, <3>1, <3>3 DEF Types, Waiting, Child, Go
    <3> QED BY <1>2, <2>0, <3>1, <3>4, <3>5, QuietStep DEF Types, Labels, Early
  <2>4. CASE SendReturns(r)
    <3>1. \A q \in Ranks : sized'[q] => sized[q] /\ Waiting(q)' /\ Child(q)' < N
      BY <1>2, <2>0, <2>4 DEF SendReturns, Types, Waiting, Child, Go
    <3> QED BY <1>2, <2>0, <2>4, <3>1, QuietStep DEF SendReturns, Types, Labels, Early
  <2>5. CASE OutputTrace(r)
    <3>1. \A q \in Ranks : sized'[q] => sized[q] /\ Waiting(q)' /\ Child(q)' < N
      BY <1>2, <2>0, <2>5 DEF OutputTrace, Types, Waiting, Child, Go
    <3> QED BY <1>2, <2>0, <2>5, <3>1, QuietStep DEF OutputTrace, Types, Labels, Early
  <2>6. CASE SendSize(r) \/ SendTrace(r)
    BY <1>2, <2>6, SendStep
  <2>7. CASE ReceiveSize(r) \/ ReceiveTrace(r)
    <3>1. Child(r) < N
      BY <2>7 DEF ReceiveSize, ReceiveTrace, Receive
    <3>2. Child(r) \in Ranks
      BY <1>2, <3>1, NAssumption DEF Tree, Child, Ranks, LEFT, RIGHT
    <3> QED BY <1>2, <2>7, <3>2, ReceiveStep
  <2> QED BY <1>2, <2>1, <2>2, <2>3, <2>4, <2>5, <2>6, <2>7 DEF Step
<1> QED BY <1>1, <1>2 DEF Next

\* The invariant is inductive.
THEOREM ProtocolInductive == ASSUME Tree(N) PROVE SafeSpec => []PInv
<1>1. PInv /\ [Next]_vars => PInv'
  BY StepPInv
<1> QED BY <1>1, InitPInv, PTL DEF SafeSpec

\* The channels, which the invariant has sender by sender, are a table.
Table == chan \in [Ranks -> [Ranks -> Seq(Messages)]]

LEMMA StepTable == ASSUME PInv, Table, [Next]_vars PROVE Table'
<1>1. CASE UNCHANGED chan
  BY <1>1 DEF Table
<1>2. ASSUME NEW r \in Ranks, NEW m \in Messages, Send(r, m) PROVE Table'
  <2>1. CASE GetParent(r) \in Ranks
    <3> DEFINE row == [chan[r] EXCEPT ![GetParent(r)] = Append(chan[r][GetParent(r)], m)]
    <3>1. chan[r][GetParent(r)] \in Seq(Messages) /\ chan[r] \in [Ranks -> Seq(Messages)]
      BY <2>1 DEF Table
    <3>2. row \in [Ranks -> Seq(Messages)]
      <4> DEFINE e == Append(chan[r][GetParent(r)], m)
      <4>1. e \in Seq(Messages)
        BY <3>1
      <4> HIDE DEF e
      <4>2. [chan[r] EXCEPT ![GetParent(r)] = e] \in [Ranks -> Seq(Messages)]
        BY <3>1, <4>1
      <4> QED BY <4>2 DEF e
    <3>3. chan' = [chan EXCEPT ![r] = row]
      BY <1>2 DEF Send
    <3> HIDE DEF row
    <3> QED BY <3>2, <3>3 DEF Table
  <2>2. CASE GetParent(r) \notin Ranks
    <3> DEFINE row == [chan[r] EXCEPT ![GetParent(r)] = Append(chan[r][GetParent(r)], m)]
    <3>1. chan[r] \in [Ranks -> Seq(Messages)]
      BY DEF Table
    <3>2. row = chan[r]
      BY <2>2, <3>1
    <3>3. chan' = [chan EXCEPT ![r] = row]
      BY <1>2 DEF Send
    <3> HIDE DEF row
    <3> QED BY <3>1, <3>2, <3>3 DEF Table
  <2> QED BY <2>1, <2>2
<1>3. ASSUME NEW r \in Ranks, NEW kind, Receive(r, kind) PROVE Table'
  <2> DEFINE child == Child(r)
             row == [chan[child] EXCEPT ![r] = Tail(chan[child][r])]
  <2>1. chan' = [chan EXCEPT ![child] = row] /\ chan[child][r] # <<>>
    BY <1>3 DEF Receive
  <2> HIDE DEF child
  <2>2. CASE child \in Ranks
    <3>1. chan[child] \in [Ranks -> Seq(Messages)] /\ chan[child][r] \in Seq(Messages)
      BY <2>2 DEF Table
    <3>2. Tail(chan[child][r]) \in Seq(Messages)
      BY <2>1, <3>1
    <3>3. row \in [Ranks -> Seq(Messages)]
      BY <3>1, <3>2
    <3> HIDE DEF row
    <3> QED BY <2>1, <2>2, <3>3 DEF Table
  <2>3. CASE child \notin Ranks
    <3> HIDE DEF row
    <3>1. chan' = chan
      BY <2>1, <2>3 DEF Table
    <3> QED BY <3>1 DEF Table
  <2> QED BY <2>2, <2>3
<1>4. ASSUME NEW r \in Ranks, Step(r) PROVE Table'
  <2>1. CASE UNCHANGED chan
    BY <1>1, <2>1
  <2>2. CASE SendSize(r)
    <3>1. SizeMessage \in Messages /\ Send(r, SizeMessage)
      BY <2>2 DEF SendSize, Messages
    <3> QED BY <1>2, <3>1
  <2>3. CASE SendTrace(r)
    <3>1. held[r] \in SUBSET Ranks
      BY DEF PInv, Types
    <3>2. TraceMessage(held[r]) \in Messages /\ Send(r, TraceMessage(held[r]))
      BY <2>3, <3>1 DEF SendTrace, TraceMessage, Messages
    <3> QED BY <1>2, <3>2
  <2>4. CASE ReceiveSize(r) \/ ReceiveTrace(r)
    BY <1>3, <2>4 DEF ReceiveSize, ReceiveTrace
  <2> QED BY <1>4, <2>1, <2>2, <2>3, <2>4
      DEF Step, EnterBarrier, LeaveBarrier, NoChild, SendReturns, OutputTrace
<1> QED BY <1>1, <1>4 DEF Next, vars

\* Type correctness, with a size kept only while the trace is waited for, for
\* every number of ranks.
THEOREM ProtocolTyped == ASSUME Tree(N) PROVE SafeSpec => []TypeOK
<1>1. Init => Table
  BY DEF Init, Table
<1>2. PInv /\ Table /\ [Next]_vars => PInv' /\ Table'
  BY StepPInv, StepTable
<1>3. PInv /\ Table => TypeOK
  BY DEF PInv, Types, Table, TypeOK, Labels, Early
<1> QED BY <1>1, <1>2, <1>3, InitPInv, PTL DEF SafeSpec

\* The program's messages are not taken for the tracer's: PMPI_Barrier in
\* MPI_Finalize, for every number of ranks.
THEOREM BarrierSeparates == ASSUME Tree(N) PROVE SafeSpec => []AfterTheProgram
<1>1. PInv => AfterTheProgram
  BY DEF PInv
<1> QED BY <1>1, ProtocolInductive, PTL

\* No calls are merged twice, for every number of ranks.
THEOREM NoneMergedTwice == ASSUME Tree(N) PROVE SafeSpec => []NoneTwice
<1>1. ASSUME PInv PROVE NoneTwice
  <2>1. \A r, q \in Ranks : \A m \in OnItsWay(r, q) : m.ranks = held[r] /\ Live(r) /\ ~Keeps(r)
    <3> SUFFICES ASSUME NEW r \in Ranks, NEW q \in Ranks, NEW m \in OnItsWay(r, q)
                 PROVE  m.ranks = held[r] /\ Live(r) /\ ~Keeps(r)
      OBVIOUS
    <3>1. /\ chan[r][q] \in Shapes(r)
          /\ pc[r] \in Early => chan[r][q] = <<>>
          /\ pc[r] = "size sent" => chan[r][q] \in {<<>>, <<SizeMessage>>}
          /\ pc[r] \in Labels
      BY <1>1 DEF PInv, Channels, Types
    <3>2. chan[r][q] # <<>> /\ chan[r][q] # <<SizeMessage>>
      BY OnItsWayShapes
    <3>3. chan[r][q] \in {<<TheTrace(r)>>, <<SizeMessage, TheTrace(r)>>}
      BY <3>1, <3>2 DEF Shapes
    <3>4. m = TheTrace(r)
      BY <3>3, OnItsWayShapes
    <3>5. m.ranks = held[r]
      BY <3>4, Kinds DEF TheTrace
    <3>6. Live(r)
      BY <3>3 DEF Live, HasTrace
    <3>7. ~Keeps(r)
      BY <3>1, <3>2 DEF Keeps, Labels
    <3> QED BY <3>5, <3>6, <3>7
  <2>2. Apart
    BY <1>1 DEF PInv
  <2>3. \A r, q \in Ranks : r # q /\ Keeps(r) /\ Keeps(q) => held[r] \cap held[q] = {}
    BY <2>2 DEF Apart, Live
  <2>4. \A r, q, p \in Ranks : \A m \in OnItsWay(r, q) : Keeps(p) => m.ranks \cap held[p] = {}
    BY <2>1, <2>2 DEF Apart, Live
  <2>5. \A r, q, p, s \in Ranks : \A m \in OnItsWay(r, q), n \in OnItsWay(p, s) :
          r # p => m.ranks \cap n.ranks = {}
    BY <2>1, <2>2 DEF Apart
  <2> QED BY <2>3, <2>4, <2>5 DEF NoneTwice
<1>2. PInv => NoneTwice
  BY <1>1
<1> QED BY <1>2, ProtocolInductive, PTL
-----------------------------------------------------------------------------
(* Nothing is lost. *)

\* Every rank's calls are in a live trace or in the file.
Somewhere == \A x \in Ranks : (\E r \in Ranks : Live(r) /\ x \in held[r]) \/ x \in file

\* The file is complete, and not there before the root has finished.
Written == (file # {} => file = Ranks) /\ (pc[0] # "done" => file = {})

\* The root sends its trace to nobody.
Root == pc[0] \notin {"size sent", "trace sent"}

\* Rank p is done with its child r, having received its trace.
Past(p, r) ==
  \/ r = GetChild(p, LEFT) /\ pc[p] \notin {"call", "barrier", "left"}
  \/ r = GetChild(p, RIGHT) /\ pc[p] \notin {"call", "barrier", "left", "right"}
Collected == \A r \in 1..(N - 1) : Past(GetParent(r), r) => ~Live(r)

\* The part of the invariant that depends on the tree.
LInv == Somewhere /\ Written /\ Root /\ Collected

\* A rank that has left its children no live trace in its subtree: when the
\* root is about to write, no trace but its own is live.
LEMMA OnlyTheRoot ==
  ASSUME Tree(N), PInv, LInv, pc[0] = "send"
  PROVE  \A r \in Ranks : Live(r) => r = 0
<1> DEFINE L == {r \in Ranks : r # 0 /\ Live(r)}
<1>1. SUFFICES ASSUME L # {} PROVE FALSE
  OBVIOUS
<1>2. L \subseteq Nat
  BY NAssumption DEF Ranks
<1>3. PICK r \in L : \A q \in L : ~(<<q, r>> \in OpToRel(<, Nat))
  BY <1>1, <1>2, NatLessThanWellFounded, WFMin, Zenon
<1>4. r \in 1..(N - 1) /\ Live(r)
  BY NAssumption DEF Ranks
<1>5. GetParent(r) \in 0..(r - 1) /\ r \in {GetChild(GetParent(r), LEFT), GetChild(GetParent(r), RIGHT)}
  BY <1>4 DEF Tree
<1> DEFINE p == GetParent(r)
<1>6. p \in Ranks /\ p \in Nat /\ r \in Nat /\ p < r
  BY <1>4, <1>5, NAssumption DEF Ranks
<1> HIDE DEF p
<1>7. p = 0 \/ ~Live(p)
  BY <1>3, <1>6 DEF OpToRel
<1>8. pc[p] \notin {"call", "barrier", "left", "right"}
  BY <1>6, <1>7 DEF Live, Keeps
<1>9. Past(p, r)
  BY <1>5, <1>8 DEF Past, p
<1> QED BY <1>4, <1>9 DEF LInv, Collected, p

\* The ranks, and the parents the tree gives them.
LEMMA RanksOfTree ==
  /\ 0 \in Ranks /\ 1..(N - 1) = Ranks \ {0}
  /\ Tree(N) => \A r \in Ranks \ {0} : GetParent(r) \in Ranks
<1>1. 0 \in Ranks /\ 1..(N - 1) = Ranks \ {0}
  BY NAssumption DEF Ranks
<1>2. ASSUME Tree(N), NEW r \in Ranks, r # 0 PROVE GetParent(r) \in Ranks
  <2>1. r \in 1..(N - 1) /\ r \in Int /\ N \in Int /\ r < N
    BY <1>2, NAssumption DEF Ranks
  <2>2. GetParent(r) \in 0..(r - 1)
    BY <1>2, <2>1 DEF Tree
  <2> QED BY <2>1, <2>2 DEF Ranks
<1> QED BY <1>1, <1>2

\* A step that changes neither where a rank is nor what it holds.
LEMMA UnchangedLInv ==
  ASSUME LInv, Tree(N), UNCHANGED <<pc, held, file>>, \A x \in Ranks : Live(x)' <=> Live(x)
  PROVE  LInv'
<1>1. Somewhere'
  BY DEF LInv, Somewhere
<1>2. Written' /\ Root'
  BY DEF LInv, Written, Root
<1>3. Collected'
  BY RanksOfTree DEF LInv, Collected, Past
<1> QED BY <1>1, <1>2, <1>3 DEF LInv

\* What a step that revives no trace, and leaves no child whose trace is live,
\* keeps of the invariant.
LEMMA StillCollected ==
  ASSUME Collected, Tree(N), \A x \in Ranks : Live(x)' => Live(x),
         NEW r \in Ranks, NEW label, pc' = [pc EXCEPT ![r] = label], DOMAIN pc = Ranks,
         \A x \in 1..(N - 1) : GetParent(x) = r /\ Past(r, x)' => Past(r, x) \/ ~Live(x)'
  PROVE  Collected'
<1> SUFFICES ASSUME NEW x \in 1..(N - 1), Past(GetParent(x), x)' PROVE ~Live(x)'
  BY DEF Collected
<1>1. CASE GetParent(x) = r
  BY <1>1, NAssumption DEF Collected, Ranks
<1>2. CASE GetParent(x) # r
  <2>1. PICK p \in Ranks : p = GetParent(x)
    BY NAssumption DEF Tree, Ranks
  <2>2. pc'[p] = pc[p]
    BY <1>2, <2>1
  <2>3. Past(p, x)
    BY <2>1, <2>2 DEF Past
  <2> QED BY <2>1, <2>3, NAssumption DEF Collected, Ranks
<1> QED BY <1>1, <1>2

\* A step that changes no trace and no file, and neither ends a rank that
\* keeps its trace nor leaves a child, keeps the invariant.
LEMMA QuietLInv ==
  ASSUME PInv, LInv, Tree(N), NEW r \in Ranks, NEW label, Go(r, label),
         UNCHANGED <<held, file>>, \A x \in Ranks : Live(x)' <=> Live(x),
         \A x \in 1..(N - 1) : GetParent(x) = r /\ Past(r, x)' => Past(r, x),
         r # 0 \/ label \notin {"size sent", "trace sent"},
         r # 0 \/ pc[0] # "done"
  PROVE  LInv'
<1>0. pc' = [pc EXCEPT ![r] = label] /\ DOMAIN pc = Ranks
  BY DEF Go, PInv, Types
<1>1. pc' = [pc EXCEPT ![r] = label] /\ DOMAIN pc = Ranks /\ 0 \in Ranks
  BY <1>0, RanksOfTree
<1>2. Somewhere'
  BY DEF LInv, Somewhere
<1>3. Written' /\ Root'
  BY <1>1 DEF LInv, Written, Root
<1>4. Collected'
  BY <1>1, StillCollected DEF LInv
<1> QED BY <1>2, <1>3, <1>4 DEF LInv

\* Initially every rank has its own calls.
LEMMA InitLInv == ASSUME Tree(N) PROVE Init => LInv
<1> SUFFICES ASSUME Init PROVE LInv
  OBVIOUS
<1>1. \A x \in Ranks : Live(x) /\ x \in held[x]
  BY DEF Init, Live, Keeps
<1>2. Somewhere
  BY <1>1 DEF Somewhere
<1>3. Written /\ Root
  BY RanksOfTree DEF Init, Written, Root
<1>4. Collected
  <2> SUFFICES ASSUME NEW r \in 1..(N - 1) PROVE ~Past(GetParent(r), r)
    BY DEF Collected
  <2>1. GetParent(r) \in Ranks
    BY RanksOfTree
  <2> QED BY <2>1 DEF Init, Past
<1> QED BY <1>2, <1>3, <1>4 DEF LInv

\* Every step keeps the invariant.
LEMMA StepLInv == ASSUME Tree(N), PInv, LInv, [Next]_vars PROVE LInv'
<1>0. 0 \in Ranks
  BY RanksOfTree
<1>1. CASE UNCHANGED vars
  <2>1. \A x \in Ranks : Live(x)' <=> Live(x)
    BY <1>1 DEF vars, Live, Keeps, HasTrace, TheTrace, TraceMessage
  <2> QED BY <1>1, <2>1, UnchangedLInv DEF vars
<1>2. ASSUME NEW r \in Ranks, Step(r) PROVE LInv'
  <2>0. Types /\ pc[r] \in Labels /\ (pc[r] \notin {"call", "barrier"} => \A q \in Ranks : pc[q] # "call")
    BY <1>2 DEF PInv, AfterTheProgram, Types
  <2>1. CASE EnterBarrier(r)
    <3>1. pc[r] = "call" /\ Go(r, "barrier") /\ UNCHANGED <<held, sized, chan, file>> /\ pc'[r] = "barrier"
      BY <1>2, <2>0, <2>1 DEF EnterBarrier, Go, Types
    <3>2. \A x \in Ranks : Live(x)' <=> Live(x)
      BY <1>2, <2>0, <3>1 DEF Live, Keeps, HasTrace, TheTrace, TraceMessage, Go, Types
    <3>3. \A x \in 1..(N - 1) : ~Past(r, x)'
      BY <3>1 DEF Past
    <3> QED BY <1>2, <3>1, <3>2, <3>3, QuietLInv
  <2>2. CASE LeaveBarrier(r)
    <3>1. pc[r] = "barrier" /\ Go(r, "left") /\ UNCHANGED <<held, sized, chan, file>> /\ pc'[r] = "left"
      BY <1>2, <2>0, <2>2 DEF LeaveBarrier, Go, Types
    <3>2. \A x \in Ranks : Live(x)' <=> Live(x)
      BY <1>2, <2>0, <3>1 DEF Live, Keeps, HasTrace, TheTrace, TraceMessage, Go, Types
    <3>3. \A x \in 1..(N - 1) : ~Past(r, x)'
      BY <3>1 DEF Past
    <3> QED BY <1>2, <3>1, <3>2, <3>3, QuietLInv
  <2>3. CASE NoChild(r)
    <3>1. /\ pc[r] \in {"left", "right"} /\ Go(r, AfterChild(r)) /\ Child(r) >= N
          /\ UNCHANGED <<held, sized, chan, file>>
          /\ pc'[r] = AfterChild(r)
      BY <1>2, <2>0, <2>3 DEF NoChild, Waiting, Go, Types
    <3>2. AfterChild(r) \in {"right", "send"}
      BY DEF AfterChild
    <3>3. \A x \in Ranks : Live(x)' <=> Live(x)
      BY <1>2, <2>0, <3>1, <3>2 DEF Live, Keeps, HasTrace, TheTrace, TraceMessage, Go, Types
    <3>4. \A x \in 1..(N - 1) : Past(r, x)' => Past(r, x) \/ x = Child(r)
      BY <3>1 DEF Past, AfterChild, Child, LEFT, RIGHT
    <3>5. \A x \in 1..(N - 1) : x # Child(r)
      <4>1. Child(r) \in Nat
        BY <1>2 DEF Tree, Child, Ranks, LEFT, RIGHT
      <4> QED BY <3>1, <4>1, NAssumption
    <3> QED BY <1>2, <3>1, <3>2, <3>3, <3>4, <3>5, QuietLInv
  <2>4. CASE SendReturns(r)
    <3>1. /\ pc[r] = "trace sent" /\ Go(r, "done") /\ UNCHANGED <<held, sized, chan, file>> /\ pc'[r] = "done"
      BY <1>2, <2>0, <2>4 DEF SendReturns, Go, Types
    <3>2. \A x \in Ranks : Live(x)' <=> Live(x)
      BY <1>2, <2>0, <3>1 DEF Live, Keeps, HasTrace, TheTrace, TraceMessage, Go, Types
    <3>3. \A x \in 1..(N - 1) : Past(r, x)' => Past(r, x)
      BY <3>1 DEF Past
    <3>4. r # 0
      BY <3>1 DEF LInv, Root
    <3> QED BY <1>2, <3>1, <3>2, <3>3, <3>4, QuietLInv
  <2>5. CASE SendSize(r) \/ SendTrace(r)
    <3>1. /\ pc[r] \in {"send", "size sent"} /\ r # 0
          /\ \/ Go(r, "size sent") \/ Go(r, "trace sent")
          /\ UNCHANGED <<held, sized, file>>
      BY <2>5 DEF SendSize, SendTrace, LInv, Root
    <3>2. GetParent(r) \in Ranks
      BY <1>2, <3>1, RanksOfTree
    <3>3. \A x \in Ranks : Live(x)' <=> Live(x)
      BY <1>2, <2>5, <3>2, SendStep
    <3>4. \A x \in 1..(N - 1) : Past(r, x)' => Past(r, x)
      BY <3>1 DEF Past
    <3> QED BY <1>2, <3>1, <3>3, <3>4, QuietLInv
  <2>6. CASE ReceiveSize(r)
    <3>1. Child(r) \in Ranks
      BY <1>2, <2>6, NAssumption DEF ReceiveSize, Receive, Tree, Child, Ranks, LEFT, RIGHT
    <3>2. \A x \in Ranks : Live(x)' <=> Live(x)
      BY <1>2, <2>6, <3>1, ReceiveStep
    <3>3. UNCHANGED <<pc, held, file>>
      BY <2>6 DEF ReceiveSize
    <3> QED BY <3>2, <3>3, UnchangedLInv
  <2>7. CASE ReceiveTrace(r)
    <3>1. Child(r) \in Ranks
      BY <1>2, <2>7, NAssumption DEF ReceiveTrace, Receive, Tree, Child, Ranks, LEFT, RIGHT
    <3>2. PICK c \in Ranks : /\ c = Child(r) /\ c # r /\ r = GetParent(c)
                             /\ held' = [held EXCEPT ![r] = held[r] \cup held[c]]
                             /\ ~Live(c)'
                             /\ \A x \in Ranks \ {c} : Live(x)' <=> Live(x)
      BY <1>2, <2>7, <3>1, ReceiveStep
    <3>3. /\ pc[r] \in {"left", "right"} /\ pc' = [pc EXCEPT ![r] = AfterChild(r)] /\ file' = file
      BY <2>7 DEF ReceiveTrace, Receive, Waiting, Go
    <3>4. Live(r) /\ pc'[r] = AfterChild(r) /\ AfterChild(r) \in {"right", "send"}
      BY <1>2, <2>0, <3>3 DEF Live, Keeps, AfterChild, Types
    <3>5. Somewhere'
      <4> SUFFICES ASSUME NEW x \in Ranks, x \notin file
                   PROVE  \E q \in Ranks : Live(q)' /\ x \in held'[q]
        BY <3>3 DEF Somewhere
      <4>1. PICK q \in Ranks : Live(q) /\ x \in held[q]
        BY DEF LInv, Somewhere
      <4>2. Live(r)' /\ held'[r] = held[r] \cup held[c]
        BY <1>2, <2>0, <3>2, <3>4 DEF Types
      <4>3. q # r => held'[q] = held[q]
        BY <1>2, <2>0, <3>2 DEF Types
      <4> QED BY <1>2, <3>2, <4>1, <4>2, <4>3
    <3>6. Written' /\ Root'
      BY <1>0, <2>0, <3>3, <3>4 DEF LInv, Written, Root, Types
    <3>7. \A x \in 1..(N - 1) : Past(r, x)' => Past(r, x) \/ x = c
      BY <3>2, <3>3, <3>4 DEF Past, AfterChild, Child, LEFT, RIGHT
    <3>8. \A x \in Ranks : Live(x)' => Live(x)
      BY <3>2
    <3>9. DOMAIN pc = Ranks
      BY <2>0 DEF Types
    <3>10. Collected'
      BY <1>2, <3>2, <3>3, <3>7, <3>8, <3>9, StillCollected DEF LInv
    <3> QED BY <3>5, <3>6, <3>10 DEF LInv
  <2>8. CASE OutputTrace(r)
    <3>1. r = 0 /\ pc[0] = "send" /\ file' = held[0] /\ pc' = [pc EXCEPT ![0] = "done"] /\ UNCHANGED <<held, sized, chan>>
      BY <2>8 DEF OutputTrace, Go
    <3>2. \A x \in Ranks : Live(x) => x = 0
      BY <3>1, OnlyTheRoot
    <3>3. file = {} /\ held[0] = Ranks
      <4>1. file = {}
        BY <3>1 DEF LInv, Written
      <4>2. held[0] \subseteq Ranks
        BY <1>0, <2>0 DEF Types
      <4> QED BY <3>2, <4>1, <4>2 DEF LInv, Somewhere
    <3>4. pc'[0] = "done"
      BY <1>0, <2>0, <3>1 DEF Types
    <3>5. Somewhere' /\ Written' /\ Root'
      BY <3>1, <3>3, <3>4 DEF Somewhere, Written, Root
    <3>6. \A x \in Ranks : Live(x)' => Live(x)
      BY <1>0, <2>0, <3>1 DEF Live, Keeps, HasTrace, TheTrace, TraceMessage, Types
    <3>7. \A x \in 1..(N - 1) : Past(0, x)' => Past(0, x)
      BY <3>1 DEF Past
    <3>8. DOMAIN pc = Ranks
      BY <2>0 DEF Types
    <3>9. Collected'
      BY <1>0, <3>1, <3>6, <3>7, <3>8, StillCollected DEF LInv
    <3> QED BY <3>5, <3>9 DEF LInv
  <2> QED BY <1>2, <2>1, <2>2, <2>3, <2>4, <2>5, <2>6, <2>7, <2>8 DEF Step
<1> QED BY <1>1, <1>2 DEF Next

\* No calls are lost on the way to the root, and the file has those of all
\* ranks, for every number of ranks that form a tree.
THEOREM NothingLost == ASSUME Tree(N) PROVE SafeSpec => []NoneLost
<1>1. PInv /\ LInv /\ [Next]_vars => PInv' /\ LInv'
  BY StepPInv, StepLInv
<1>2. Init => PInv /\ LInv
  BY InitPInv, InitLInv
<1>3. ASSUME PInv, LInv PROVE NoneLost
  <2>1. ASSUME NEW r \in Ranks, Live(r)
        PROVE  Keeps(r) \/ \E q \in Ranks : \E m \in OnItsWay(r, q) : m.ranks = held[r]
    <3> SUFFICES ASSUME ~Keeps(r)
                 PROVE  \E q \in Ranks : \E m \in OnItsWay(r, q) : m.ranks = held[r]
      OBVIOUS
    <3>1. PICK q \in Ranks : HasTrace(r, q)
      BY <2>1 DEF Live
    <3>2. OnItsWay(r, q) = {TheTrace(r)}
      BY <3>1, OnItsWayShapes DEF HasTrace
    <3>3. TheTrace(r).ranks = held[r]
      BY Kinds DEF TheTrace
    <3> QED BY <3>2, <3>3
  <2>2. \A x \in Ranks :
          \/ \E r \in Ranks : Keeps(r) /\ x \in held[r]
          \/ \E r, q \in Ranks : \E m \in OnItsWay(r, q) : x \in m.ranks
          \/ x \in file
    BY <1>3, <2>1 DEF LInv, Somewhere
  <2> QED BY <1>3, <2>2 DEF LInv, Written, NoneLost
<1>4. PInv /\ LInv => NoneLost
  BY <1>3
<1> QED BY <1>1, <1>2, <1>4, PTL DEF SafeSpec

\* What the reduction does to the file: nothing, and once all of it.
WritesAll == file = {} /\ file' = Ranks /\ \A r \in Ranks \ {0} : ~Live(r)

\* Seen from the file, the reduction is one merge of the traces of all ranks:
\* the root writes once, when no trace but its own is kept or on its way.
THEOREM WrittenAtOnce == ASSUME Tree(N) PROVE SafeSpec => [][WritesAll]_file
<1>1. ASSUME PInv, LInv, NEW r \in Ranks, Step(r), file' # file PROVE WritesAll
  <2>1. r = 0 /\ pc[0] = "send" /\ file' = held[0]
    BY <1>1 DEF Step, EnterBarrier, LeaveBarrier, NoChild, ReceiveSize, ReceiveTrace, SendSize, SendTrace,
                SendReturns, OutputTrace
  <2>2. \A x \in Ranks : Live(x) => x = 0
    BY <1>1, <2>1, OnlyTheRoot
  <2>3. file = {}
    BY <1>1, <2>1 DEF LInv, Written
  <2>4. held[0] \subseteq Ranks
    BY <1>1, RanksOfTree DEF PInv, Types
  <2>5. held[0] = Ranks
    BY <1>1, <2>2, <2>3, <2>4 DEF LInv, Somewhere
  <2> QED BY <2>1, <2>2, <2>3, <2>5 DEF WritesAll
<1>2. PInv /\ LInv /\ [Next]_vars => [WritesAll]_file
  BY <1>1 DEF Next, vars
<1>3. PInv /\ LInv /\ [Next]_vars => PInv' /\ LInv'
  BY StepPInv, StepLInv
<1>4. Init => PInv /\ LInv
  BY InitPInv, InitLInv
<1> QED BY <1>2, <1>3, <1>4, PTL DEF SafeSpec
-----------------------------------------------------------------------------
(* No two ranks wait for each other. *)

\* What lets a rank go on, if a send returns only when it was received: the
\* guards of Progress.
Ready(r) ==
  \/ pc[r] \in {"call", "send"}
  \/ pc[r] = "barrier" /\ \A q \in Ranks : pc[q] # "call"
  \/ Waiting(r) /\ Child(r) >= N
  \/ /\ Waiting(r) /\ Child(r) < N /\ chan[Child(r)][r] # <<>>
     /\ Head(chan[Child(r)][r]).kind = IF sized[r] THEN "trace" ELSE "size"
  \/ pc[r] \in {"size sent", "trace sent"} /\ Received(r)

\* Until all have left MPI_Finalize, some rank can go on.
NeverStuck == AllDone \/ \E r \in Ranks : Ready(r)

\* The parent of c has received the size of c's trace and waits for the trace.
Asked(c) == Waiting(GetParent(c)) /\ Child(GetParent(c)) = c /\ sized[GetParent(c)]

\* What is in the channel of a rank to its parent is what the one has sent and
\* the other not yet received.
Handshake(c) ==
  LET p == GetParent(c)
  IN  /\ pc[c] \in Early => ~Past(p, c) /\ ~Asked(c)
      /\ pc[c] = "size sent" => ~Past(p, c) /\ chan[c][p] = IF Asked(c) THEN <<>> ELSE <<SizeMessage>>
      /\ pc[c] \in {"trace sent", "done"} =>
           chan[c][p] = IF Past(p, c) THEN <<>>
                        ELSE IF Asked(c) THEN <<TheTrace(c)>> ELSE <<SizeMessage, TheTrace(c)>>
HInv == \A c \in 1..(N - 1) : Handshake(c)

\* A step that does nothing between c and its parent.
Aside(c) ==
  /\ pc'[c] \in Early <=> pc[c] \in Early
  /\ pc'[c] = "size sent" <=> pc[c] = "size sent"
  /\ pc'[c] \in {"trace sent", "done"} <=> pc[c] \in {"trace sent", "done"}
  /\ pc[c] \notin Early => held'[c] = held[c]
  /\ chan'[c][GetParent(c)] = chan[c][GetParent(c)]
  /\ Past(GetParent(c), c)' <=> Past(GetParent(c), c)
  /\ Asked(c)' <=> Asked(c)

LEMMA StepsAside == ASSUME NEW c \in 1..(N - 1), Handshake(c), Aside(c) PROVE Handshake(c)'
<1>1. pc'[c] \in Early => ~Past(GetParent(c), c)' /\ ~Asked(c)'
  BY DEF Handshake, Aside
<1>2. pc'[c] = "size sent" => ~Past(GetParent(c), c)' /\ chan'[c][GetParent(c)] = IF Asked(c)' THEN <<>> ELSE <<SizeMessage>>
  BY DEF Handshake, Aside
<1>3. pc'[c] \in {"trace sent", "done"} =>
        chan'[c][GetParent(c)] = IF Past(GetParent(c), c)' THEN <<>>
                                 ELSE IF Asked(c)' THEN <<TheTrace(c)'>> ELSE <<SizeMessage, TheTrace(c)'>>
  BY DEF Handshake, Aside, TheTrace, Early
<1> QED BY <1>1, <1>2, <1>3 DEF Handshake, SizeMessage

LEMMA InitHInv == ASSUME Tree(N) PROVE Init => HInv
<1> SUFFICES ASSUME Init, NEW c \in 1..(N - 1) PROVE Handshake(c)
  BY DEF HInv
<1>1. c \in Ranks /\ GetParent(c) \in Ranks
  BY RanksOfTree
<1> QED BY <1>1 DEF Init, Handshake, Past, Asked, Early, Waiting

LEMMA RankNumbers ==
  /\ N \in Int
  /\ \A c \in 1..(N - 1) : c \in Ranks /\ c # 0 /\ c < N /\ c \in Int
  /\ Tree(N) => \A r \in Ranks : Child(r) \in Int
  /\ \A i, j \in Int : ~(i >= j /\ i < j) /\ (i >= j \/ i < j)
<1>1. \A c \in 1..(N - 1) : c \in Ranks /\ c # 0 /\ c < N /\ c \in Int
  BY NAssumption DEF Ranks
<1>2. ASSUME Tree(N), NEW r \in Ranks PROVE Child(r) \in Int
  <2>1. Child(r) \in {GetChild(r, LEFT), GetChild(r, RIGHT)} /\ r \in 0..(N - 1)
    BY DEF Child, Ranks
  <2> QED BY <1>2, <2>1 DEF Tree
<1>3. \A i, j \in Int : ~(i >= j /\ i < j) /\ (i >= j \/ i < j)
  OBVIOUS
<1> QED BY <1>1, <1>2, <1>3, NAssumption

\* The child a rank waits for is its own, and no other child is it.
LEMMA ChildOf ==
  ASSUME Tree(N), NEW r \in Ranks, Child(r) < N
  PROVE  Child(r) \in 1..(N - 1) /\ GetParent(Child(r)) = r /\ Child(r) > r
<1>1. Child(r) \in {GetChild(r, LEFT), GetChild(r, RIGHT)} /\ r \in 0..(N - 1)
  BY DEF Child, Ranks
<1>2. Child(r) \in Nat \ {0} /\ GetParent(Child(r)) = r
  BY <1>1 DEF Tree
<1>3. Child(r) \in 1..(N - 1)
  BY <1>2, NAssumption
<1>4. GetParent(Child(r)) \in 0..(Child(r) - 1)
  BY <1>3 DEF Tree
<1> QED BY <1>2, <1>3, <1>4

\* A rank that receives no size leaves a child only when there is none, or with its trace.
LEMMA PastOthers ==
  ASSUME Tree(N), NEW r \in Ranks, NEW c \in 1..(N - 1), GetParent(c) = r, pc \in [Ranks -> Labels],
         NEW label, pc' = [pc EXCEPT ![r] = label]
  PROVE  /\ pc[r] \in {"call", "barrier"} /\ label \in {"barrier", "left"} => (Past(r, c)' <=> Past(r, c))
         /\ pc[r] \notin {"call", "barrier", "left", "right"} /\ label \notin {"call", "barrier", "left", "right"}
              => (Past(r, c)' <=> Past(r, c))
         /\ pc[r] \in {"left", "right"} /\ label = AfterChild(r) =>
              /\ c # Child(r) => (Past(r, c)' <=> Past(r, c))
              /\ c = Child(r) => ~Past(r, c) /\ Past(r, c)'
<1>1. pc'[r] = label
  OBVIOUS
<1>2. c \in {GetChild(r, LEFT), GetChild(r, RIGHT)} /\ GetChild(r, LEFT) # GetChild(r, RIGHT)
  BY DEF Tree, Ranks
<1>3. CASE pc[r] = "left" /\ label = AfterChild(r)
  BY <1>1, <1>2, <1>3 DEF Past, AfterChild, Child
<1>4. CASE pc[r] = "right" /\ label = AfterChild(r)
  BY <1>1, <1>2, <1>4 DEF Past, AfterChild, Child
<1> QED BY <1>1, <1>2, <1>3, <1>4 DEF Past

\* A step that moves one rank on, past no child there is, and changes no channel.
LEMMA QuietAside ==
  ASSUME Tree(N), PInv, NEW r \in Ranks, NEW label \in Labels, Go(r, label), UNCHANGED <<held, sized, chan>>,
         \/ pc[r] = "call" /\ label = "barrier"
         \/ pc[r] = "barrier" /\ label = "left"
         \/ Waiting(r) /\ Child(r) >= N /\ label = AfterChild(r)
         \/ pc[r] = "trace sent" /\ label = "done"
         \/ pc[r] = "send" /\ label = "done" /\ r = 0,
         NEW c \in 1..(N - 1)
  PROVE  Aside(c)
<1> DEFINE p == GetParent(c)
<1>1. /\ pc \in [Ranks -> Labels] /\ pc' = [pc EXCEPT ![r] = label]
      /\ \A x \in Ranks : sized[x] => Waiting(x) /\ Child(x) < N
  BY DEF Go, PInv, Types
<1>2. c \in Ranks /\ p \in Ranks /\ c # 0 /\ c < N /\ c \in Int
  BY RankNumbers, RanksOfTree
<1>6. Child(r) \in Int /\ N \in Int
  BY RankNumbers
<1>7. ~(Child(r) >= N /\ Child(r) < N) /\ ~(c >= N)
  BY <1>2, <1>6, RankNumbers
<1>3. /\ pc'[c] \in Early <=> pc[c] \in Early
      /\ pc'[c] = "size sent" <=> pc[c] = "size sent"
      /\ pc'[c] \in {"trace sent", "done"} <=> pc[c] \in {"trace sent", "done"}
  BY <1>1, <1>2 DEF Early, Waiting, AfterChild
<1>4. CASE p # r
  <2>1. pc'[p] = pc[p]
    BY <1>1, <1>2, <1>4
  <2>2. (Past(p, c)' <=> Past(p, c)) /\ (Asked(c)' <=> Asked(c))
    BY <2>1 DEF Past, Asked, Waiting, Child
  <2> QED BY <1>3, <2>2 DEF Aside
<1>5. CASE p = r
  <2>1. ~sized[r]
    <3>1. sized[r] => Child(r) < N /\ pc[r] \in {"left", "right"}
      BY <1>1 DEF Waiting
    <3> QED BY <1>7, <3>1 DEF Waiting
  <2>2. ~Asked(c) /\ ~Asked(c)'
    BY <1>5, <2>1 DEF Asked
  <2>3. Past(p, c)' <=> Past(p, c)
    <3>1. CASE Waiting(r) /\ Child(r) >= N /\ label = AfterChild(r)
      <4>1. c # Child(r)
        BY <1>7, <3>1
      <4> QED BY <1>1, <1>5, <3>1, <4>1, PastOthers DEF Waiting
    <3>2. CASE ~(Waiting(r) /\ Child(r) >= N /\ label = AfterChild(r))
      BY <1>1, <1>5, <3>2, PastOthers
    <3> QED BY <3>1, <3>2
  <2> QED BY <1>3, <2>2, <2>3 DEF Aside
<1> QED BY <1>4, <1>5

\* What becomes of a rank's children when the rank itself does not move.
LEMMA StillParent ==
  ASSUME NEW c, pc'[GetParent(c)] = pc[GetParent(c)], sized'[GetParent(c)] = sized[GetParent(c)]
  PROVE  (Past(GetParent(c), c)' <=> Past(GetParent(c), c)) /\ (Asked(c)' <=> Asked(c))
BY DEF Past, Asked, Waiting, Child

\* A rank sends its size, and then its trace, to a parent that has not left it.
LEMMA SendHInv ==
  ASSUME Tree(N), PInv, HInv, NEW r \in Ranks, r # 0, SendSize(r) \/ SendTrace(r)
  PROVE  HInv'
<1> DEFINE p == GetParent(r)
<1>1. /\ pc \in [Ranks -> Labels] /\ DOMAIN chan = Ranks /\ \A x \in Ranks : DOMAIN chan[x] = Ranks
      /\ pc[r] \in {"send", "size sent"} /\ UNCHANGED <<held, sized>>
      /\ pc' = [pc EXCEPT ![r] = IF pc[r] = "send" THEN "size sent" ELSE "trace sent"]
      /\ chan' = [chan EXCEPT ![r][p] = Append(@, IF pc[r] = "send" THEN SizeMessage ELSE TheTrace(r))]
  BY DEF SendSize, SendTrace, Send, Go, TheTrace, PInv, Types
<1>2. p \in Ranks /\ r \in 1..(N - 1) /\ p # r
  <2>1. p \in Ranks /\ r \in 1..(N - 1)
    BY RanksOfTree
  <2>2. p \in 0..(r - 1)
    BY <2>1 DEF Tree
  <2> QED BY <2>1, <2>2
<1>3. ASSUME NEW c \in 1..(N - 1), c # r PROVE Handshake(c)'
  <2>1. c \in Ranks /\ GetParent(c) \in Ranks
    BY RanksOfTree
  <2>2. pc'[c] = pc[c] /\ held'[c] = held[c] /\ chan'[c] = chan[c]
    BY <1>1, <1>3, <2>1
  <2>3. CASE GetParent(c) # r
    <3>1. pc'[GetParent(c)] = pc[GetParent(c)] /\ sized'[GetParent(c)] = sized[GetParent(c)]
      BY <1>1, <2>1, <2>3
    <3> QED BY <2>2, <3>1, StillParent, StepsAside DEF Aside, HInv
  <2>4. CASE GetParent(c) = r
    <3>1. ~Asked(c) /\ ~Asked(c)'
      BY <1>1, <2>4 DEF Asked, Waiting
    <3>2. Past(r, c)' <=> Past(r, c)
      <4> DEFINE label == IF pc[r] = "send" THEN "size sent" ELSE "trace sent"
      <4>1. pc' = [pc EXCEPT ![r] = label] /\ label \notin {"call", "barrier", "left", "right"}
        BY <1>1
      <4> HIDE DEF label
      <4> QED BY <1>1, <2>4, <4>1, PastOthers
    <3> QED BY <2>2, <2>4, <3>1, <3>2, StepsAside DEF Aside, HInv
  <2> QED BY <2>3, <2>4
<1>4. Handshake(r)'
  <2>1. (Past(p, r)' <=> Past(p, r)) /\ (Asked(r)' <=> Asked(r)) /\ TheTrace(r)' = TheTrace(r)
    BY <1>1, <1>2, StillParent DEF TheTrace, TraceMessage
  <2>2. chan'[r][p] = Append(chan[r][p], IF pc[r] = "send" THEN SizeMessage ELSE TheTrace(r))
    BY <1>1, <1>2
  <2>3. /\ Append(<<>>, SizeMessage) = <<SizeMessage>> /\ Append(<<>>, TheTrace(r)) = <<TheTrace(r)>>
        /\ Append(<<SizeMessage>>, TheTrace(r)) = <<SizeMessage, TheTrace(r)>>
    BY MessageSequences
  <2>4. Handshake(r) /\ (pc[r] = "send" => chan[r][p] = <<>>)
    BY <1>2 DEF HInv, PInv, Channels, Early
  <2>5. CASE pc[r] = "send"
    <3>1. pc'[r] = "size sent" /\ ~Past(p, r) /\ ~Asked(r) /\ chan'[r][p] = <<SizeMessage>>
      BY <1>1, <2>2, <2>3, <2>4, <2>5 DEF Handshake, Early
    <3> QED BY <2>1, <3>1 DEF Handshake, Early, SizeMessage
  <2>6. CASE pc[r] = "size sent"
    <3>1. pc'[r] = "trace sent"
      BY <1>1, <2>6
    <3>2. ~Past(p, r) /\ chan[r][p] = IF Asked(r) THEN <<>> ELSE <<SizeMessage>>
      BY <2>4, <2>6 DEF Handshake
    <3>3. chan'[r][p] = IF Asked(r) THEN <<TheTrace(r)>> ELSE <<SizeMessage, TheTrace(r)>>
      BY <2>2, <2>3, <2>6, <3>2
    <3> QED BY <2>1, <3>1, <3>2, <3>3 DEF Handshake, Early, SizeMessage
  <2> QED BY <1>1, <2>5, <2>6
<1> QED BY <1>3, <1>4 DEF HInv

\* The child a rank waits for is not one it has left.
LEMMA NotPast == ASSUME Tree(N), NEW r \in Ranks, Waiting(r), Child(r) < N PROVE ~Past(r, Child(r))
<1>1. GetChild(r, LEFT) # GetChild(r, RIGHT)
  BY DEF Tree, Ranks
<1> QED BY <1>1 DEF Past, Child, Waiting

\* Receiving the size, a rank asks its child for the trace.
LEMMA ReceiveSizeHInv == ASSUME Tree(N), PInv, HInv, NEW r \in Ranks, ReceiveSize(r) PROVE HInv'
<1>0. PICK c \in 1..(N - 1) : c = Child(r) /\ GetParent(c) = r /\ c \in Ranks
  <2>1. Child(r) < N
    BY DEF ReceiveSize, Receive
  <2> QED BY <2>1, ChildOf, RankNumbers
<1> DEFINE S == SizeMessage
           T == TheTrace(c)
<1>1. /\ pc \in [Ranks -> Labels] /\ sized \in [Ranks -> BOOLEAN]
      /\ DOMAIN chan = Ranks /\ \A x \in Ranks : DOMAIN chan[x] = Ranks
      /\ UNCHANGED <<pc, held>> /\ sized' = [sized EXCEPT ![r] = TRUE] /\ ~sized[r]
      /\ Waiting(r) /\ c < N /\ chan[c][r] # <<>> /\ Head(chan[c][r]).kind = "size"
      /\ chan' = [chan EXCEPT ![c][r] = Tail(@)]
  BY <1>0 DEF ReceiveSize, Receive, PInv, Types
<1>2. c \in 1..(N - 1) /\ GetParent(c) = r /\ c \in Ranks
  BY <1>0
<1>3. ~Past(r, c) /\ ~Asked(c) /\ Asked(c)' /\ ~Past(r, c)'
  BY <1>0, <1>1, NotPast DEF Asked, Waiting, Child, Past
<1>4. ASSUME NEW d \in 1..(N - 1), d # c PROVE Handshake(d)'
  <2>1. d \in Ranks /\ GetParent(d) \in Ranks
    BY RanksOfTree
  <2>2. pc'[d] = pc[d] /\ held'[d] = held[d] /\ chan'[d] = chan[d]
    BY <1>1, <1>2, <1>4, <2>1
  <2>3. Past(GetParent(d), d)' <=> Past(GetParent(d), d)
    BY <1>1 DEF Past
  <2>4. Asked(d)' <=> Asked(d)
    <3>1. CASE GetParent(d) = r
      BY <1>0, <1>1, <1>4, <3>1 DEF Asked, Child
    <3>2. CASE GetParent(d) # r
      BY <1>1, <2>1, <3>2 DEF Asked, Child, Waiting
    <3> QED BY <3>1, <3>2
  <2> QED BY <2>2, <2>3, <2>4, StepsAside DEF Aside, HInv
<1>5. Handshake(c)'
  <2>1. chan'[c][r] = Tail(chan[c][r]) /\ T' = T
    BY <1>1, <1>2 DEF TheTrace, TraceMessage
  <2>2. /\ Tail(<<S>>) = <<>> /\ Tail(<<S, T>>) = <<T>>
    BY <1>2, MessageSequences
  <2>3. Handshake(c) /\ (pc[c] \in Early => chan[c][r] = <<>>)
    BY <1>2 DEF HInv, PInv, Channels
  <2>4. pc'[c] \notin Early
    BY <1>1, <2>3 DEF Early
  <2>5. pc[c] = "size sent" => chan[c][r] = <<S>>
    BY <1>2, <1>3, <2>3 DEF Handshake
  <2>6. pc[c] \in {"trace sent", "done"} => chan[c][r] = <<S, T>>
    BY <1>2, <1>3, <2>3 DEF Handshake
  <2>7. pc'[c] = "size sent" => chan'[c][r] = <<>>
    BY <1>1, <2>1, <2>2, <2>5
  <2>8. pc'[c] \in {"trace sent", "done"} => chan'[c][r] = <<T>>
    BY <1>1, <2>1, <2>2, <2>6
  <2> QED BY <1>2, <1>3, <2>1, <2>4, <2>7, <2>8 DEF Handshake, Early
<1> QED BY <1>4, <1>5 DEF HInv

\* Receiving the trace, a rank leaves the child, which has sent all it had.
LEMMA ReceiveTraceHInv == ASSUME Tree(N), PInv, HInv, NEW r \in Ranks, ReceiveTrace(r) PROVE HInv'
<1>0. PICK c \in 1..(N - 1) : c = Child(r) /\ GetParent(c) = r /\ c \in Ranks
  <2>1. Child(r) < N
    BY DEF ReceiveTrace, Receive
  <2> QED BY <2>1, ChildOf, RankNumbers
<1> DEFINE S == SizeMessage
           T == TheTrace(c)
           label == AfterChild(r)
<1>1. /\ pc \in [Ranks -> Labels] /\ sized \in [Ranks -> BOOLEAN] /\ held \in [Ranks -> SUBSET Ranks]
      /\ DOMAIN chan = Ranks /\ \A x \in Ranks : DOMAIN chan[x] = Ranks
      /\ pc' = [pc EXCEPT ![r] = label] /\ sized' = [sized EXCEPT ![r] = FALSE] /\ sized[r]
      /\ Waiting(r) /\ c < N /\ chan[c][r] # <<>> /\ Head(chan[c][r]).kind = "trace"
      /\ chan' = [chan EXCEPT ![c][r] = Tail(@)]
      /\ held' = [held EXCEPT ![r] = @ \cup Head(chan[c][r]).ranks]
  BY <1>0 DEF ReceiveTrace, Receive, Go, PInv, Types
<1>2. c \in 1..(N - 1) /\ GetParent(c) = r /\ c \in Ranks /\ c # r
  <2>1. c \in 1..(N - 1) /\ GetParent(c) = r /\ c \in Ranks
    BY <1>0
  <2>2. GetParent(c) \in 0..(c - 1)
    BY <2>1 DEF Tree
  <2> QED BY <2>1, <2>2
<1>3. ~Past(r, c) /\ Asked(c) /\ ~Asked(c)' /\ Past(r, c)'
  <2>1. ~Past(r, c) /\ Asked(c)
    BY <1>0, <1>1, NotPast DEF Asked
  <2>2. ~Asked(c)'
    BY <1>1, <1>2 DEF Asked
  <2>3. Past(r, c)'
    BY <1>0, <1>1, PastOthers DEF Waiting
  <2> QED BY <2>1, <2>2, <2>3
<1>6. label \in {"right", "send"} /\ pc[r] \in {"left", "right"}
  BY <1>1 DEF AfterChild, Waiting
<1>4. ASSUME NEW d \in 1..(N - 1), d # c PROVE Handshake(d)'
  <2>1. d \in Ranks /\ GetParent(d) \in Ranks
    BY RanksOfTree
  <2>2. chan'[d] = chan[d] /\ (d # r => pc'[d] = pc[d] /\ held'[d] = held[d])
    BY <1>1, <1>2, <1>4, <2>1
  <2>3. /\ pc'[d] \in Early <=> pc[d] \in Early
        /\ pc'[d] = "size sent" <=> pc[d] = "size sent"
        /\ pc'[d] \in {"trace sent", "done"} <=> pc[d] \in {"trace sent", "done"}
        /\ pc[d] \notin Early => held'[d] = held[d]
    <3>1. CASE d # r
      BY <2>2, <3>1
    <3>2. CASE d = r
      <4>1. pc'[d] = label
        BY <1>1, <3>2
      <4> HIDE DEF label
      <4> QED BY <1>6, <3>2, <4>1 DEF Early
    <3> QED BY <3>1, <3>2
  <2>4. (Past(GetParent(d), d)' <=> Past(GetParent(d), d)) /\ (Asked(d)' <=> Asked(d))
    <3>1. CASE GetParent(d) = r
      <4>1. Past(r, d)' <=> Past(r, d)
        BY <1>0, <1>1, <1>4, <1>6, <3>1, PastOthers
      <4>2. ~Asked(d) /\ ~Asked(d)'
        BY <1>0, <1>1, <1>4, <3>1 DEF Asked
      <4> QED BY <3>1, <4>1, <4>2
    <3>2. CASE GetParent(d) # r
      <4>1. pc'[GetParent(d)] = pc[GetParent(d)] /\ sized'[GetParent(d)] = sized[GetParent(d)]
        BY <1>1, <2>1, <3>2
      <4> QED BY <4>1, StillParent
    <3> QED BY <3>1, <3>2
  <2> QED BY <2>2, <2>3, <2>4, StepsAside DEF Aside, HInv
<1>5. Handshake(c)'
  <2>1. chan'[c][r] = Tail(chan[c][r]) /\ pc'[c] = pc[c]
    BY <1>1, <1>2
  <2>2. Tail(<<T>>) = <<>>
    BY <1>2, MessageSequences
  <2>3. Handshake(c) /\ (pc[c] \in Early => chan[c][r] = <<>>)
    BY <1>2 DEF HInv, PInv, Channels
  <2>4. pc[c] \notin Early /\ pc[c] # "size sent"
    BY <1>1, <1>2, <1>3, <2>3 DEF Handshake
  <2>5. pc[c] \in {"trace sent", "done"} => chan[c][r] = <<T>>
    BY <1>2, <1>3, <2>3 DEF Handshake
  <2>6. pc'[c] \in {"trace sent", "done"} => chan'[c][r] = <<>>
    BY <2>1, <2>2, <2>5
  <2> QED BY <1>2, <1>3, <2>1, <2>4, <2>6 DEF Handshake, Early
<1> QED BY <1>4, <1>5 DEF HInv

\* Every step keeps the invariant.
LEMMA StepHInv == ASSUME Tree(N), PInv, LInv, HInv, [Next]_vars PROVE HInv'
<1>1. CASE UNCHANGED vars
  <2> SUFFICES ASSUME NEW c \in 1..(N - 1) PROVE Handshake(c)'
    BY DEF HInv
  <2>1. Past(GetParent(c), c)' <=> Past(GetParent(c), c)
    BY <1>1 DEF vars, Past
  <2>2. Asked(c)' <=> Asked(c)
    BY <1>1 DEF vars, Asked, Waiting, Child
  <2> QED BY <1>1, <2>1, <2>2, StepsAside DEF vars, Aside, HInv
<1>2. ASSUME NEW r \in Ranks, Step(r) PROVE HInv'
  <2>1. CASE EnterBarrier(r) \/ LeaveBarrier(r) \/ NoChild(r) \/ SendReturns(r) \/ OutputTrace(r)
    <3>1. PICK label \in Labels :
            /\ Go(r, label) /\ UNCHANGED <<held, sized, chan>>
            /\ \/ pc[r] = "call" /\ label = "barrier"
               \/ pc[r] = "barrier" /\ label = "left"
               \/ Waiting(r) /\ Child(r) >= N /\ label = AfterChild(r)
               \/ pc[r] = "trace sent" /\ label = "done"
               \/ pc[r] = "send" /\ label = "done" /\ r = 0
      BY <2>1 DEF EnterBarrier, LeaveBarrier, NoChild, SendReturns, OutputTrace, Labels, Early, AfterChild
    <3>2. \A c \in 1..(N - 1) : Aside(c)
      BY <1>2, <3>1, QuietAside
    <3> QED BY <3>2, StepsAside DEF HInv
  <2>2. CASE SendSize(r) \/ SendTrace(r)
    <3>1. r # 0
      BY <2>2 DEF SendSize, SendTrace, LInv, Root
    <3> QED BY <1>2, <2>2, <3>1, SendHInv
  <2> QED BY <1>2, <2>1, <2>2, ReceiveSizeHInv, ReceiveTraceHInv DEF Step
<1> QED BY <1>1, <1>2 DEF Next

\* The last of the ranks that wait is answered: its child waits for nothing
\* but the rank itself.
LEMMA LastWaiting ==
  ASSUME Tree(N), PInv, HInv, NEW r \in Ranks, Waiting(r),
         \A q \in Ranks : q > r => pc[q] \in {"size sent", "trace sent", "done"}
  PROVE  \E q \in Ranks : Ready(q)
<1>0. CASE Child(r) >= N
  BY <1>0 DEF Ready
<1>1. CASE Child(r) < N
  <2>0. PICK c \in 1..(N - 1) : c = Child(r) /\ GetParent(c) = r /\ c \in Ranks /\ c > r
    BY <1>1, ChildOf, RankNumbers
  <2> DEFINE S == SizeMessage
             T == TheTrace(c)
  <2>1. pc[c] \in {"size sent", "trace sent", "done"} /\ ~Past(r, c) /\ (Asked(c) <=> sized[r]) /\ Handshake(c)
    BY <1>1, <2>0, NotPast DEF Asked, HInv
  <2>2. /\ Head(<<S>>) = S /\ Head(<<T>>) = T /\ Head(<<S, T>>) = S /\ S.kind = "size" /\ T.kind = "trace"
        /\ <<>> \notin {<<S>>, <<T>>, <<S, T>>}
    BY <2>0, MessageSequences, Kinds DEF TheTrace
  <2>3. CASE ~sized[r]
    <3>1. chan[c][r] \in {<<S>>, <<S, T>>}
      BY <2>0, <2>1, <2>3 DEF Handshake
    <3>2. chan[c][r] # <<>> /\ Head(chan[c][r]).kind = "size"
      BY <2>2, <3>1
    <3> QED BY <1>1, <2>0, <2>3, <3>2 DEF Ready
  <2>4. CASE sized[r] /\ pc[c] = "size sent"
    <3>1. chan[c][r] = <<>>
      BY <2>0, <2>1, <2>4 DEF Handshake
    <3>2. Received(c)
      BY <2>0, <3>1 DEF Received, PInv, Channels
    <3> QED BY <2>0, <2>4, <3>2 DEF Ready
  <2>5. CASE sized[r] /\ pc[c] \in {"trace sent", "done"}
    <3>1. chan[c][r] = <<T>>
      BY <2>0, <2>1, <2>5 DEF Handshake
    <3>2. chan[c][r] # <<>> /\ Head(chan[c][r]).kind = "trace"
      BY <2>2, <3>1
    <3> QED BY <1>1, <2>0, <2>5, <3>2 DEF Ready
  <2> QED BY <2>1, <2>3, <2>4, <2>5
<1>2. Child(r) >= N \/ Child(r) < N
  BY RankNumbers
<1> QED BY <1>0, <1>1, <1>2

\* When no rank waits, what was sent was received.
LEMMA NoneWaiting ==
  ASSUME Tree(N), PInv, LInv, HInv, \A q \in Ranks : pc[q] \in {"size sent", "trace sent", "done"},
         NEW r \in Ranks, pc[r] # "done"
  PROVE  Ready(r)
<1> DEFINE p == GetParent(r)
<1>1. r \in 1..(N - 1) /\ p \in Ranks
  BY RanksOfTree DEF LInv, Root
<1>2. Past(p, r)
  <2>1. r \in {GetChild(p, LEFT), GetChild(p, RIGHT)}
    BY <1>1 DEF Tree
  <2>2. pc[p] \in {"size sent", "trace sent", "done"}
    BY <1>1
  <2> QED BY <2>1, <2>2 DEF Past
<1>3. pc[r] = "trace sent" /\ chan[r][p] = <<>>
  BY <1>1, <1>2 DEF HInv, Handshake
<1>4. Received(r)
  BY <1>3 DEF Received, PInv, Channels
<1> QED BY <1>3, <1>4 DEF Ready

\* Of the ranks that wait there is a last one.
LEMMA LastOf ==
  ASSUME NEW W \in SUBSET Ranks, W # {}
  PROVE  \E r \in W : \A q \in W : ~(q > r)
<1> DEFINE D == {N - r : r \in W}
<1>1. D \subseteq Nat /\ D # {}
  <2>1. \A r \in Ranks : N - r \in Nat
    BY NAssumption DEF Ranks
  <2>2. D # {}
    OBVIOUS
  <2>3. D \subseteq Nat
    BY <2>1
  <2> QED BY <2>2, <2>3
<1>2. PICK d \in D : \A e \in D : ~(<<e, d>> \in OpToRel(<, Nat))
  BY <1>1, NatLessThanWellFounded, WFMin, Zenon
<1>3. PICK r \in W : d = N - r
  BY <1>2
<1>4. ASSUME NEW q \in W, q > r PROVE FALSE
  <2>1. N - q \in D /\ N - q < d /\ N - q \in Nat /\ d \in Nat
    BY <1>3, <1>4, NAssumption DEF Ranks
  <2> HIDE DEF D
  <2> QED BY <1>2, <2>1 DEF OpToRel
<1> QED BY <1>4

\* No two ranks wait for each other, however many there are: even if no send
\* returns before it was received, until all have left MPI_Finalize one can
\* go on (Completes, but for the fairness).
THEOREM NoDeadlock == ASSUME Tree(N) PROVE SafeSpec => []NeverStuck
<1>1. PInv /\ LInv /\ HInv /\ [Next]_vars => PInv' /\ LInv' /\ HInv'
  BY StepPInv, StepLInv, StepHInv
<1>2. Init => PInv /\ LInv /\ HInv
  BY InitPInv, InitLInv, InitHInv
<1>3. ASSUME PInv, LInv, HInv PROVE NeverStuck
  <2> SUFFICES ASSUME ~AllDone, \A r \in Ranks : ~Ready(r) PROVE FALSE
    BY DEF NeverStuck
  <2>1. \A r \in Ranks : pc[r] \in Labels /\ pc[r] \notin {"call", "send", "barrier"}
    BY <1>3 DEF Ready, PInv, Types
  <2>2. \A r \in Ranks : Waiting(r) \/ pc[r] \in {"size sent", "trace sent", "done"}
    BY <2>1 DEF Labels, Early, Waiting
  <2> DEFINE W == {r \in Ranks : Waiting(r)}
  <2>3. CASE W = {}
    BY <1>3, <2>2, <2>3, NoneWaiting DEF AllDone
  <2>4. CASE W # {}
    <3>1. PICK r \in W : \A q \in W : ~(q > r)
      BY <2>4, LastOf
    <3>2. \A q \in Ranks : q > r => pc[q] \in {"size sent", "trace sent", "done"}
      BY <2>2, <3>1
    <3> QED BY <1>3, <3>1, <3>2, LastWaiting
  <2> QED BY <2>3, <2>4
<1>4. PInv /\ LInv /\ HInv => NeverStuck
  BY <1>3
<1> QED BY <1>1, <1>2, <1>4, PTL DEF SafeSpec

\* How far a rank is in MPI_Finalize.
Place(r) ==
  CASE pc[r] = "call" -> 0
    [] pc[r] = "barrier" -> 1
    [] pc[r] = "left" -> IF sized[r] THEN 3 ELSE 2
    [] pc[r] = "right" -> IF sized[r] THEN 5 ELSE 4
    [] pc[r] = "send" -> 6
    [] pc[r] = "size sent" -> 7
    [] pc[r] = "trace sent" -> 8
    [] pc[r] = "done" -> 9

\* A step takes one rank further, out of at most nine places.
Advances ==
  \E r \in Ranks : Place(r)' > Place(r) /\ Place(r)' \in 1..9 /\ \A q \in Ranks \ {r} : Place(q)' = Place(q)

\* No rank goes back or waits in a loop: MPI_Finalize ends, after at most nine
\* steps of each rank, as long as one can go on (NoDeadlock).
THEOREM StepsEnd == ASSUME Tree(N) PROVE SafeSpec => [][Advances]_vars
<1>1. ASSUME PInv, NEW r \in Ranks, Step(r) PROVE Advances
  <2>1. /\ pc \in [Ranks -> Labels] /\ sized \in [Ranks -> BOOLEAN]
        /\ \A q \in Ranks : sized[q] => pc[q] \in {"left", "right"}
    BY <1>1 DEF PInv, Types, Waiting
  <2>2. ASSUME NEW q \in Ranks, pc'[q] = pc[q], sized'[q] = sized[q] PROVE Place(q)' = Place(q)
    BY <2>2 DEF Place
  <2>3. /\ \A q \in Ranks \ {r} : pc'[q] = pc[q] /\ sized'[q] = sized[q]
        /\ \/ pc[r] = "call" /\ pc'[r] = "barrier" /\ sized'[r] = sized[r]
           \/ pc[r] = "barrier" /\ pc'[r] = "left" /\ sized'[r] = sized[r]
           \/ pc[r] = "left" /\ pc'[r] = "right" /\ (sized'[r] = sized[r] \/ ~sized'[r])
           \/ pc[r] = "right" /\ pc'[r] = "send" /\ (sized'[r] = sized[r] \/ ~sized'[r])
           \/ pc[r] \in {"left", "right"} /\ pc'[r] = pc[r] /\ ~sized[r] /\ sized'[r]
           \/ pc[r] = "send" /\ pc'[r] \in {"size sent", "done"} /\ sized'[r] = sized[r]
           \/ pc[r] = "size sent" /\ pc'[r] = "trace sent" /\ sized'[r] = sized[r]
           \/ pc[r] = "trace sent" /\ pc'[r] = "done" /\ sized'[r] = sized[r]
    <3>1. CASE EnterBarrier(r) \/ LeaveBarrier(r) \/ SendSize(r) \/ SendTrace(r) \/ SendReturns(r) \/ OutputTrace(r)
      BY <1>1, <2>1, <3>1 DEF EnterBarrier, LeaveBarrier, SendSize, SendTrace, SendReturns, OutputTrace, Go
    <3>2. CASE NoChild(r) \/ ReceiveTrace(r)
      BY <1>1, <2>1, <3>2 DEF NoChild, ReceiveTrace, Receive, Waiting, AfterChild, Go
    <3>3. CASE ReceiveSize(r)
      BY <1>1, <2>1, <3>3 DEF ReceiveSize, Receive, Waiting
    <3> QED BY <1>1, <3>1, <3>2, <3>3 DEF Step
  <2>5. /\ pc[r] = "call" => Place(r) = 0
        /\ pc[r] = "barrier" => Place(r) = 1
        /\ pc[r] = "left" => Place(r) = IF sized[r] THEN 3 ELSE 2
        /\ pc[r] = "right" => Place(r) = IF sized[r] THEN 5 ELSE 4
        /\ pc[r] = "send" => Place(r) = 6
        /\ pc[r] = "size sent" => Place(r) = 7
        /\ pc[r] = "trace sent" => Place(r) = 8
    BY DEF Place
  <2>6. /\ pc'[r] = "barrier" => Place(r)' = 1
        /\ pc'[r] = "left" => Place(r)' = IF sized'[r] THEN 3 ELSE 2
        /\ pc'[r] = "right" => Place(r)' = IF sized'[r] THEN 5 ELSE 4
        /\ pc'[r] = "send" => Place(r)' = 6
        /\ pc'[r] = "size sent" => Place(r)' = 7
        /\ pc'[r] = "trace sent" => Place(r)' = 8
        /\ pc'[r] = "done" => Place(r)' = 9
    BY DEF Place
  <2>4. Place(r)' > Place(r) /\ Place(r)' \in 1..9
    <3>1. pc[r] = "call" \/ pc[r] = "barrier" => <<Place(r), Place(r)'>> \in {<<0, 1>>, <<1, 2>>}
      BY <2>1, <2>3, <2>5, <2>6
    <3>2. pc[r] = "left" => <<Place(r), Place(r)'>> \in {<<2, 3>>, <<2, 4>>, <<2, 5>>, <<3, 4>>, <<3, 5>>}
      <4> SUFFICES ASSUME pc[r] = "left"
                   PROVE  <<Place(r), Place(r)'>> \in {<<2, 3>>, <<2, 4>>, <<2, 5>>, <<3, 4>>, <<3, 5>>}
        OBVIOUS
      <4>1. pc'[r] = "right" \/ (pc'[r] = "left" /\ ~sized[r] /\ sized'[r])
        BY <2>3
      <4>2. Place(r) = IF sized[r] THEN 3 ELSE 2
        BY <2>5
      <4>3. pc'[r] = "right" => Place(r)' = 4 \/ Place(r)' = 5
        BY <2>6
      <4>4. pc'[r] = "left" /\ sized'[r] => Place(r)' = 3
        BY <2>6
      <4> QED BY <4>1, <4>2, <4>3, <4>4
    <3>3. pc[r] = "right" => <<Place(r), Place(r)'>> \in {<<4, 5>>, <<4, 6>>, <<5, 6>>}
      <4> SUFFICES ASSUME pc[r] = "right" PROVE <<Place(r), Place(r)'>> \in {<<4, 5>>, <<4, 6>>, <<5, 6>>}
        OBVIOUS
      <4>1. pc'[r] = "send" \/ (pc'[r] = "right" /\ ~sized[r] /\ sized'[r])
        BY <2>3
      <4>2. Place(r) = IF sized[r] THEN 5 ELSE 4
        BY <2>5
      <4>3. pc'[r] = "send" => Place(r)' = 6
        BY <2>6
      <4>4. pc'[r] = "right" /\ sized'[r] => Place(r)' = 5
        BY <2>6
      <4> QED BY <4>1, <4>2, <4>3, <4>4
    <3>4. pc[r] \in {"send", "size sent", "trace sent"} =>
            <<Place(r), Place(r)'>> \in {<<6, 7>>, <<6, 9>>, <<7, 8>>, <<8, 9>>}
      BY <2>1, <2>3, <2>5, <2>6
    <3> DEFINE x == Place(r)
               y == Place(r)'
    <3>5. <<x, y>> \in {<<0, 1>>, <<1, 2>>, <<2, 3>>, <<2, 4>>, <<2, 5>>, <<3, 4>>, <<3, 5>>,
                        <<4, 5>>, <<4, 6>>, <<5, 6>>, <<6, 7>>, <<6, 9>>, <<7, 8>>, <<8, 9>>}
      BY <2>3, <3>1, <3>2, <3>3, <3>4
    <3> HIDE DEF x, y
    <3>6. y > x /\ y \in 1..9
      BY <3>5
    <3> QED BY <3>6 DEF x, y
  <2> QED BY <1>1, <2>2, <2>3, <2>4 DEF Advances
<1>2. PInv /\ [Next]_vars => [Advances]_vars
  BY <1>1 DEF Next
<1> QED BY <1>2, ProtocolInductive, PTL DEF SafeSpec
=============================================================================
