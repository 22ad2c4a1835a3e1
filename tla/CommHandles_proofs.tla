-------------------------- MODULE CommHandles_proofs --------------------------
(***************************************************************************)
(* Proofs that a call is replayed on the communicator it was recorded on,  *)
(* for every size of the table, every set of handles of either MPI library *)
(* and any number of calls.                                                *)
(*                                                                         *)
(* Recorder and replayer never have the same handles; what they share is,  *)
(* slot by slot, which communicator a handle names.  A table of numbers    *)
(* says that: its history after each call of the trace is what both have   *)
(* gone through.                                                           *)
(***************************************************************************)
EXTENDS CommHandles, TLAPS, FiniteSetTheorems

\* A table of the numbers of communicators, 0 where there is none.
Tables == [cur : Slots, num : [Slots -> Nat]]
EmptyTable == [cur |-> 0, num |-> [s \in Slots |-> 0]]

\* The table after call k of the trace.
Put(T, n) == [cur |-> (T.cur + 1) % Size, num |-> [T.num EXCEPT ![T.cur] = n]]
Drop(T, index) ==
  IF index = -1 THEN T ELSE [cur |-> T.cur, num |-> [T.num EXCEPT ![index - Size] = 0]]
After(T, k, call) ==
  CASE call.do = "create" -> Put(T, IF call.null THEN 0 ELSE k)
    [] call.do = "free" -> Drop(T, call.index)
    [] call.do = "use" -> T

\* What an index stands for in a table: nothing, a built-in or a slot in use.
Means(T, index, comm) ==
  \/ index = -1
  \/ index = 2 /\ comm = 0
  \/ index = 1 /\ comm = -1
  \/ index \in Size..(2 * Size - 1) /\ T.num[index - Size] # 0 /\ T.num[index - Size] = comm

\* A HandleMapper agrees with a table: its handles name the table's
\* communicators, and no handle is there twice.
Agree(T, m, c) ==
  /\ T \in Tables
  /\ DOMAIN c \subseteq Handles \cup {World, Self}
  /\ {World, Self} \subseteq DOMAIN c /\ c[World] = 0 /\ c[Self] = -1
  /\ m = [current |-> T.cur, buffer |-> m.buffer]
  /\ m.buffer \in [Slots -> Handles \cup {NullHandle}]
  /\ \A s \in Slots : T.num[s] = 0 => m.buffer[s] = NullHandle
  /\ \A s \in Slots : T.num[s] # 0 =>
       m.buffer[s] \in Handles /\ m.buffer[s] \in DOMAIN c /\ c[m.buffer[s]] = T.num[s]
  /\ \A s, t \in Slots : m.buffer[s] \in Handles /\ m.buffer[s] = m.buffer[t] => s = t

Entries == [do : {"use", "create", "free"}, index : Int, comm : Int, null : BOOLEAN]

\* H is the history of the tables the trace goes through.
History(H) ==
  /\ H \in [0..Len(trace) -> Tables]
  /\ H[0] = EmptyTable
  /\ \A k \in 1..Len(trace) :
       /\ H[k] = After(H[k - 1], k, trace[k])
       /\ Means(H[k - 1], trace[k].index, trace[k].comm)
       /\ trace[k].do = "free" => trace[k].index \in {-1} \cup Size..(2 * Size - 1)

NoneLost == \A k \in 1..replayed : trace[k].index # -1

HInv(H) ==
  /\ trace \in Seq(Entries) /\ replayed \in 0..Len(trace)
  /\ phase = "record" => replayed = 0
  /\ comms \in [DOMAIN comms -> Int] /\ recomms \in [DOMAIN recomms -> Int]
  /\ History(H)
  /\ Agree(H[Len(trace)], record, comms)
  /\ phase # "abort" /\ NoneLost => Agree(H[replayed], replay, recomms)

Inv == \E H : HInv(H)
-----------------------------------------------------------------------------
(* The table. *)

\* The built-in handles are three.
LEMMA BuiltinsDiffer ==
  /\ NullHandle # Self /\ NullHandle # World /\ Self # World
  /\ NullHandle \notin Handles /\ Self \notin Handles /\ World \notin Handles
<1>1. \A x, y : IsFiniteSet({x, y}) /\ Cardinality({x, y}) <= 2
  <2> TAKE x, y
  <2>1. IsFiniteSet({x}) /\ Cardinality({x}) = 1
    BY FS_Singleton
  <2>2. {x, y} = {x} \cup {y}
    OBVIOUS
  <2>3. IsFiniteSet({x} \cup {y}) /\ (Cardinality({x} \cup {y}) = 1 \/ Cardinality({x} \cup {y}) = 2)
    BY <2>1, FS_AddElement
  <2> QED BY <2>2, <2>3
<1>2. Cardinality({NullHandle, Self, World}) = 3
  BY HandlesAssumption
<1>3. NullHandle # Self
  <2> SUFFICES ASSUME NullHandle = Self PROVE FALSE
    OBVIOUS
  <2>1. {NullHandle, Self, World} = {Self, World}
    OBVIOUS
  <2>2. Cardinality({Self, World}) <= 2
    BY <1>1
  <2> QED BY <1>2, <2>1, <2>2
<1>4. NullHandle # World
  <2> SUFFICES ASSUME NullHandle = World PROVE FALSE
    OBVIOUS
  <2>1. {NullHandle, Self, World} = {Self, World}
    OBVIOUS
  <2>2. Cardinality({Self, World}) <= 2
    BY <1>1
  <2> QED BY <1>2, <2>1, <2>2
<1>5. Self # World
  <2> SUFFICES ASSUME Self = World PROVE FALSE
    OBVIOUS
  <2>1. {NullHandle, Self, World} = {NullHandle, World}
    OBVIOUS
  <2>2. Cardinality({NullHandle, World}) <= 2
    BY <1>1
  <2> QED BY <1>2, <2>1, <2>2
<1> QED BY <1>3, <1>4, <1>5, HandlesAssumption

\* Slots and the indices of user-defined handles.
LEMMA SlotArithmetic ==
  /\ Size \in Nat /\ Size >= 3 /\ 0 \in Slots /\ Slots \subseteq Nat
  /\ \A s \in Slots : (s + 1) % Size \in Slots
  /\ \A i \in Size..(2 * Size - 1) : i - Size \in Slots /\ i % Size = i - Size /\ i > 2 /\ i \in Int
  /\ \A s \in Slots : s + Size \in Size..(2 * Size - 1) /\ (s + Size) - Size = s
<1>1. Size \in Nat /\ Size >= 3
  BY SizeAssumption DEF Builtins
<1> HIDE DEF Slots
<1>2. 0 \in Slots /\ Slots \subseteq Nat
  BY <1>1 DEF Slots
<1>3. \A s \in Slots : (s + 1) % Size \in Slots
  BY <1>1 DEF Slots
<1>4. ASSUME NEW i \in Size..(2 * Size - 1)
      PROVE  i - Size \in Slots /\ i % Size = i - Size /\ i > 2 /\ i \in Int
  <2>1. i \in Int /\ i - Size \in 0..(Size - 1) /\ i > 2
    BY <1>1
  <2>2. i % Size = i - Size
    BY <1>1, <2>1
  <2> QED BY <2>1, <2>2 DEF Slots
<1>5. \A s \in Slots : s + Size \in Size..(2 * Size - 1) /\ (s + Size) - Size = s
  BY <1>1 DEF Slots
<1> QED BY <1>1, <1>2, <1>3, <1>4, <1>5

\* The handle is in slot s only, and has its index.
Sits(m, h, s) ==
  m.buffer[s] = h /\ SlotsOf(m, h) = {s} /\ Min({s}) = s /\ HandleToIndex(m, h) = s + Size

\* handle_to_index: a user-defined handle is in one slot or in none.
LEMMA IndexOfHandle ==
  ASSUME NEW T, NEW m, NEW c, Agree(T, m, c), NEW h \in Handles
  PROVE  \/ HandleToIndex(m, h) = -1 /\ SlotsOf(m, h) = {}
         \/ \E s \in Slots : Sits(m, h, s)
<1>1. {i \in DOMAIN Builtins : Builtins[i] = h} = {}
  BY BuiltinsDiffer DEF Builtins
<1>2. CASE SlotsOf(m, h) = {}
  BY <1>1, <1>2 DEF HandleToIndex
<1>3. CASE SlotsOf(m, h) # {}
  <2>1. PICK s \in Slots : m.buffer[s] = h
    BY <1>3 DEF SlotsOf
  <2>2. SlotsOf(m, h) = {s}
    BY <2>1 DEF SlotsOf, Agree
  <2>3. Min({s}) = s
    <3>1. s \in Int
      BY SlotArithmetic
    <3> QED BY <3>1 DEF Min
  <2>4. HandleToIndex(m, h) = s + Size
    BY <1>1, <2>2, <2>3 DEF HandleToIndex
  <2>5. Sits(m, h, s)
    BY <2>1, <2>2, <2>3, <2>4 DEF Sits
  <2> QED BY <2>5
<1> QED BY <1>2, <1>3

\* Recording: the index found means the communicator.
LEMMA IndexMeans ==
  ASSUME NEW T, NEW m, NEW c, Agree(T, m, c), NEW h \in DOMAIN c
  PROVE  /\ Means(T, HandleToIndex(m, h), c[h])
         /\ HandleToIndex(m, h) \in Int
         /\ h \in Handles => HandleToIndex(m, h) \in {-1} \cup Size..(2 * Size - 1)
         /\ HandleToIndex(m, h) = -1 => h \in Handles /\ SlotsOf(m, h) = {}
<1>1. CASE h = World
  <2>1. {i \in DOMAIN Builtins : Builtins[i] = h} = {3}
    BY <1>1, BuiltinsDiffer DEF Builtins
  <2>2. HandleToIndex(m, h) = 2
    BY <2>1 DEF HandleToIndex, Min
  <2> QED BY <1>1, <2>2, BuiltinsDiffer DEF Means, Agree
<1>2. CASE h = Self
  <2>1. {i \in DOMAIN Builtins : Builtins[i] = h} = {2}
    BY <1>2, BuiltinsDiffer DEF Builtins
  <2>2. HandleToIndex(m, h) = 1
    BY <2>1 DEF HandleToIndex, Min
  <2> QED BY <1>2, <2>2, BuiltinsDiffer DEF Means, Agree
<1>3. CASE h \in Handles
  <2>1. CASE HandleToIndex(m, h) = -1 /\ SlotsOf(m, h) = {}
    BY <1>3, <2>1 DEF Means
  <2>2. CASE \E s \in Slots : Sits(m, h, s)
    <3>1. PICK s \in Slots : m.buffer[s] = h /\ HandleToIndex(m, h) = s + Size
      BY <2>2 DEF Sits
    <3>2. s + Size \in Size..(2 * Size - 1) /\ (s + Size) - Size = s /\ s + Size \in Int
      BY SlotArithmetic
    <3>3. T.num[s] # 0 /\ T.num[s] = c[h]
      BY <1>3, <3>1, BuiltinsDiffer DEF Agree
    <3>4. s + Size # -1
      BY SlotArithmetic
    <3> QED BY <3>1, <3>2, <3>3, <3>4 DEF Means
  <2> QED BY <1>3, <2>1, <2>2, IndexOfHandle
<1> QED BY <1>1, <1>2, <1>3 DEF Agree

\* Replaying: the handle found names the communicator meant.
LEMMA IndexResolves ==
  ASSUME NEW T, NEW m, NEW c, Agree(T, m, c), NEW index \in Int, NEW comm, index # -1,
         Means(T, index, comm)
  PROVE  \A h \in IndexToHandles(m, index) :
           /\ h \in DOMAIN c /\ c[h] = comm
           /\ index \in Size..(2 * Size - 1) => h = m.buffer[index - Size] /\ h \in Handles
<1>1. CASE index = 2 /\ comm = 0
  <2>1. IndexToHandles(m, index) = {World}
    BY <1>1 DEF IndexToHandles, Builtins
  <2> QED BY <1>1, <2>1, SlotArithmetic DEF Agree
<1>2. CASE index = 1 /\ comm = -1
  <2>1. IndexToHandles(m, index) = {Self}
    BY <1>2 DEF IndexToHandles, Builtins
  <2> QED BY <1>2, <2>1, SlotArithmetic DEF Agree
<1>3. CASE index \in Size..(2 * Size - 1) /\ T.num[index - Size] # 0 /\ T.num[index - Size] = comm
  <2>1. index - Size \in Slots /\ index % Size = index - Size /\ index > 2
    BY <1>3, SlotArithmetic
  <2>2. IndexToHandles(m, index) = {m.buffer[index - Size]}
    BY <2>1 DEF IndexToHandles
  <2> QED BY <1>3, <2>1, <2>2 DEF Agree
<1> QED BY <1>1, <1>2, <1>3 DEF Means

\* The index of the handle found for an index is that index again.
LEMMA IndexBack ==
  ASSUME NEW T, NEW m, NEW c, Agree(T, m, c), NEW index \in Size..(2 * Size - 1), NEW comm,
         Means(T, index, comm), NEW h \in IndexToHandles(m, index)
  PROVE  HandleToIndex(m, h) = index
<1>1. index - Size \in Slots /\ index \in Int /\ Size \in Int /\ index # -1 /\ (index - Size) + Size = index
  BY SlotArithmetic
<1>2. h = m.buffer[index - Size] /\ h \in Handles
  BY <1>1, IndexResolves
<1>3. SlotsOf(m, h) # {}
  BY <1>1, <1>2 DEF SlotsOf
<1>4. \E s \in Slots : Sits(m, h, s)
  BY <1>2, <1>3, IndexOfHandle
<1>5. PICK s \in Slots : m.buffer[s] = h /\ HandleToIndex(m, h) = s + Size
  BY <1>4 DEF Sits
<1>6. s = index - Size
  BY <1>1, <1>2, <1>5 DEF Agree
<1> QED BY <1>1, <1>5, <1>6

\* add_handle: the handle of a new communicator, under a handle that named
\* nothing, takes over the slot at the cursor.
LEMMA CreateAgrees ==
  ASSUME NEW T, NEW m, NEW c, Agree(T, m, c), c \in [DOMAIN c -> Int],
         NEW out \in Handles \ DOMAIN c, NEW k \in Nat \ {0}
  PROVE  Agree(Put(T, k), AddHandle(m, out), With(c, out, k)) /\ With(c, out, k) \in [DOMAIN With(c, out, k) -> Int]
<1> DEFINE U == Put(T, k)
           n == AddHandle(m, out)
           d == With(c, out, k)
<1>1. T \in Tables /\ T.cur \in Slots /\ T.num \in [Slots -> Nat]
  BY DEF Agree, Tables
<1>2. U \in Tables /\ U.num = [T.num EXCEPT ![T.cur] = k] /\ U.cur = (T.cur + 1) % Size
  BY <1>1, SlotArithmetic DEF Put, Tables
<1>3. DOMAIN d = DOMAIN c \cup {out} /\ d[out] = k /\ \A h \in DOMAIN c : d[h] = c[h]
  BY DEF With
<1>4. d \in [DOMAIN d -> Int]
  BY <1>3 DEF With
<1>5. m.current = T.cur /\ m.buffer \in [Slots -> Handles \cup {NullHandle}]
  BY DEF Agree
<1>6. n = [current |-> U.cur, buffer |-> n.buffer] /\ n.buffer = [m.buffer EXCEPT ![T.cur] = out]
  BY <1>2, <1>5 DEF AddHandle
<1>7. out # World /\ out # Self /\ out # NullHandle
  BY BuiltinsDiffer
<1>8. \A s \in Slots : s # T.cur => n.buffer[s] = m.buffer[s] /\ U.num[s] = T.num[s]
  BY <1>1, <1>2, <1>5, <1>6
<1>9. n.buffer[T.cur] = out /\ U.num[T.cur] = k
  BY <1>1, <1>2, <1>5, <1>6
<1>10. \A s \in Slots : m.buffer[s] # out
  <2> SUFFICES ASSUME NEW s \in Slots, m.buffer[s] = out PROVE FALSE
    OBVIOUS
  <2> QED BY <1>7 DEF Agree
<1> HIDE DEF U, n, d
<1>11. \A s \in Slots : U.num[s] = 0 => n.buffer[s] = NullHandle
  BY <1>8, <1>9 DEF Agree
<1>12. \A s \in Slots : U.num[s] # 0 =>
         n.buffer[s] \in Handles /\ n.buffer[s] \in DOMAIN d /\ d[n.buffer[s]] = U.num[s]
  BY <1>3, <1>8, <1>9 DEF Agree
<1>13. \A s, t \in Slots : n.buffer[s] \in Handles /\ n.buffer[s] = n.buffer[t] => s = t
  BY <1>8, <1>9, <1>10 DEF Agree
<1>14. n.buffer \in [Slots -> Handles \cup {NullHandle}]
  BY <1>5, <1>6
<1>15. DOMAIN d \subseteq Handles \cup {World, Self} /\ {World, Self} \subseteq DOMAIN d
       /\ d[World] = 0 /\ d[Self] = -1
  BY <1>3, <1>7 DEF Agree
<1>16. Agree(U, n, d)
  BY <1>2, <1>6, <1>11, <1>12, <1>13, <1>14, <1>15 DEF Agree
<1> QED BY <1>4, <1>16 DEF U, n, d

\* add_handle of MPI_COMM_NULL empties the slot at the cursor.
LEMMA LeftOutAgrees ==
  ASSUME NEW T, NEW m, NEW c, Agree(T, m, c)
  PROVE  Agree(Put(T, 0), AddHandle(m, NullHandle), c)
<1> DEFINE U == Put(T, 0)
           n == AddHandle(m, NullHandle)
<1>1. T \in Tables /\ T.cur \in Slots /\ T.num \in [Slots -> Nat]
  BY DEF Agree, Tables
<1>2. U \in Tables /\ U.num = [T.num EXCEPT ![T.cur] = 0] /\ U.cur = (T.cur + 1) % Size
  BY <1>1, SlotArithmetic DEF Put, Tables
<1>3. m.current = T.cur /\ m.buffer \in [Slots -> Handles \cup {NullHandle}]
  BY DEF Agree
<1>4. n = [current |-> U.cur, buffer |-> n.buffer] /\ n.buffer = [m.buffer EXCEPT ![T.cur] = NullHandle]
  BY <1>2, <1>3 DEF AddHandle
<1>5. \A s \in Slots : s # T.cur => n.buffer[s] = m.buffer[s] /\ U.num[s] = T.num[s]
  BY <1>1, <1>2, <1>3, <1>4
<1>6. n.buffer[T.cur] = NullHandle /\ U.num[T.cur] = 0
  BY <1>1, <1>2, <1>3, <1>4
<1>7. n.buffer \in [Slots -> Handles \cup {NullHandle}]
  BY <1>3, <1>4
<1> HIDE DEF U, n
<1>8. \A s \in Slots : U.num[s] = 0 => n.buffer[s] = NullHandle
  BY <1>5, <1>6 DEF Agree
<1>9. \A s \in Slots : U.num[s] # 0 =>
        n.buffer[s] \in Handles /\ n.buffer[s] \in DOMAIN c /\ c[n.buffer[s]] = U.num[s]
  BY <1>5, <1>6 DEF Agree
<1>10. \A s, t \in Slots : n.buffer[s] \in Handles /\ n.buffer[s] = n.buffer[t] => s = t
  BY <1>5, <1>6, BuiltinsDiffer DEF Agree
<1>11. Agree(U, n, c)
  BY <1>2, <1>4, <1>7, <1>8, <1>9, <1>10 DEF Agree
<1> QED BY <1>11 DEF U, n

\* remove_handle: the handle leaves its slot, if it has one, and may name
\* another communicator from then on.
LEMMA FreeAgrees ==
  ASSUME NEW T, NEW m, NEW c, Agree(T, m, c), c \in [DOMAIN c -> Int],
         NEW h \in Handles \cap DOMAIN c
  PROVE  /\ Agree(Drop(T, HandleToIndex(m, h)), RemoveHandle(m, h), Without(c, h))
         /\ Without(c, h) \in [DOMAIN Without(c, h) -> Int]
<1> DEFINE d == Without(c, h)
<1>1. DOMAIN d = DOMAIN c \ {h} /\ (\A x \in DOMAIN d : d[x] = c[x]) /\ d \in [DOMAIN d -> Int]
  BY DEF Without
<1>2. h # World /\ h # Self /\ h # NullHandle
  BY BuiltinsDiffer
<1>3. DOMAIN d \subseteq Handles \cup {World, Self} /\ {World, Self} \subseteq DOMAIN d
      /\ d[World] = 0 /\ d[Self] = -1
  BY <1>1, <1>2 DEF Agree
<1>4. T \in Tables /\ T.cur \in Slots /\ T.num \in [Slots -> Nat]
      /\ m = [current |-> T.cur, buffer |-> m.buffer] /\ m.buffer \in [Slots -> Handles \cup {NullHandle}]
  BY DEF Agree, Tables
<1> HIDE DEF d
<1>5. CASE HandleToIndex(m, h) = -1 /\ SlotsOf(m, h) = {}
  <2>1. Drop(T, HandleToIndex(m, h)) = T /\ RemoveHandle(m, h) = m
    BY <1>5 DEF Drop, RemoveHandle
  <2>2. \A s \in Slots : m.buffer[s] # h
    BY <1>5 DEF SlotsOf
  <2>3. \A s \in Slots : T.num[s] # 0 =>
          m.buffer[s] \in Handles /\ m.buffer[s] \in DOMAIN d /\ d[m.buffer[s]] = T.num[s]
    BY <1>1, <2>2 DEF Agree
  <2>4. Agree(T, m, d)
    BY <1>3, <2>3 DEF Agree
  <2> QED BY <1>1, <2>1, <2>4 DEF d
<1>6. CASE \E s \in Slots : Sits(m, h, s)
  <2>1. PICK s \in Slots : /\ m.buffer[s] = h /\ SlotsOf(m, h) = {s} /\ Min({s}) = s
                           /\ HandleToIndex(m, h) = s + Size
    BY <1>6 DEF Sits
  <2>2. s + Size # -1 /\ (s + Size) - Size = s
    BY SlotArithmetic
  <2> DEFINE U == Drop(T, HandleToIndex(m, h))
             n == RemoveHandle(m, h)
  <2>3. U = [cur |-> T.cur, num |-> [T.num EXCEPT ![s] = 0]]
    BY <2>1, <2>2 DEF Drop
  <2>4. U \in Tables /\ U.cur = T.cur /\ U.num = [T.num EXCEPT ![s] = 0]
    BY <1>4, <2>3 DEF Tables
  <2>5. n = [m EXCEPT !.buffer[s] = NullHandle]
    BY <2>1 DEF RemoveHandle
  <2>6. n = [current |-> T.cur, buffer |-> [m.buffer EXCEPT ![s] = NullHandle]]
    BY <1>4, <2>5
  <2> HIDE DEF U, n
  <2>7. \A t \in Slots : t # s => n.buffer[t] = m.buffer[t] /\ U.num[t] = T.num[t] /\ m.buffer[t] # h
    BY <1>4, <2>1, <2>4, <2>6 DEF Agree
  <2>8. n.buffer[s] = NullHandle /\ U.num[s] = 0
    BY <1>4, <2>4, <2>6
  <2>9. n.buffer \in [Slots -> Handles \cup {NullHandle}]
    BY <1>4, <2>6
  <2>10. \A t \in Slots : U.num[t] = 0 => n.buffer[t] = NullHandle
    BY <2>7, <2>8 DEF Agree
  <2>11. \A t \in Slots : U.num[t] # 0 =>
           n.buffer[t] \in Handles /\ n.buffer[t] \in DOMAIN d /\ d[n.buffer[t]] = U.num[t]
    BY <1>1, <2>7, <2>8 DEF Agree
  <2>12. \A t, u \in Slots : n.buffer[t] \in Handles /\ n.buffer[t] = n.buffer[u] => t = u
    BY <2>7, <2>8, BuiltinsDiffer DEF Agree
  <2>13. n = [current |-> U.cur, buffer |-> n.buffer]
    BY <2>4, <2>6
  <2>14. Agree(U, n, d)
    BY <1>3, <2>4, <2>9, <2>10, <2>11, <2>12, <2>13 DEF Agree
  <2> QED BY <1>1, <2>14 DEF U, n, d
<1> QED BY <1>5, <1>6, IndexOfHandle

\* A communicator the tracer does not see leaves the table as it is.
LEMMA UntracedAgrees ==
  ASSUME NEW T, NEW m, NEW c, Agree(T, m, c), c \in [DOMAIN c -> Int],
         NEW out \in Handles \ DOMAIN c, NEW n \in Int
  PROVE  Agree(T, m, With(c, out, n)) /\ With(c, out, n) \in [DOMAIN With(c, out, n) -> Int]
<1> DEFINE d == With(c, out, n)
<1>1. DOMAIN d = DOMAIN c \cup {out} /\ \A h \in DOMAIN c : d[h] = c[h]
  BY DEF With
<1>2. d \in [DOMAIN d -> Int]
  BY <1>1 DEF With
<1> HIDE DEF d
<1>3. DOMAIN d \subseteq Handles \cup {World, Self} /\ {World, Self} \subseteq DOMAIN d
      /\ d[World] = 0 /\ d[Self] = -1
  BY <1>1 DEF Agree
<1>4. \A s \in Slots : T.num[s] # 0 =>
        m.buffer[s] \in Handles /\ m.buffer[s] \in DOMAIN d /\ d[m.buffer[s]] = T.num[s]
  BY <1>1 DEF Agree
<1>5. Agree(T, m, d)
  BY <1>3, <1>4 DEF Agree
<1> QED BY <1>2, <1>5 DEF d

\* What names communicators stays a function to numbers.
LEMMA NumbersKept ==
  ASSUME NEW c, c \in [DOMAIN c -> Int], NEW h
  PROVE  /\ Without(c, h) \in [DOMAIN Without(c, h) -> Int]
         /\ \A n \in Int : With(c, h, n) \in [DOMAIN With(c, h, n) -> Int]
<1>1. Without(c, h) \in [DOMAIN Without(c, h) -> Int]
  BY DEF Without
<1>2. ASSUME NEW n \in Int PROVE With(c, h, n) \in [DOMAIN With(c, h, n) -> Int]
  BY DEF With
<1> QED BY <1>1, <1>2
-----------------------------------------------------------------------------
(* The history. *)

\* A call recorded extends the history by the table after it.
LEMMA RecordedCall ==
  ASSUME NEW H, HInv(H), NEW e \in Entries, trace' = Append(trace, e), phase = "record",
         UNCHANGED <<phase, replayVars>>,
         Means(H[Len(trace)], e.index, e.comm),
         e.do = "free" => e.index \in {-1} \cup Size..(2 * Size - 1),
         Agree(After(H[Len(trace)], Len(trace) + 1, e), record', comms'),
         comms' \in [DOMAIN comms' -> Int]
  PROVE  Inv'
<1>1. PICK n \in Nat : n = Len(trace)
  BY DEF HInv
<1>2. /\ trace \in Seq(Entries) /\ trace' \in Seq(Entries) /\ Len(trace') = n + 1
      /\ \A k \in 1..n : trace'[k] = trace[k]
      /\ trace'[n + 1] = e
  BY <1>1 DEF HInv
<1>3. PICK G : G = [k \in 0..(n + 1) |-> IF k = n + 1 THEN After(H[n], n + 1, e) ELSE H[k]]
  OBVIOUS
<1>4. (\A k \in 0..n : G[k] = H[k]) /\ G[n + 1] = After(H[n], n + 1, e)
  BY <1>3
<1>5. G \in [0..(n + 1) -> Tables]
  <2>1. After(H[n], n + 1, e) \in Tables
    BY <1>1 DEF Agree
  <2>2. \A k \in 0..n : H[k] \in Tables
    BY <1>1 DEF HInv, History
  <2> QED BY <1>3, <2>1, <2>2
<1>6. History(G)'
  <2>1. G \in [0..Len(trace') -> Tables] /\ G[0] = EmptyTable
    BY <1>1, <1>2, <1>4, <1>5 DEF HInv, History
  <2> SUFFICES ASSUME NEW k \in 1..(n + 1)
               PROVE  /\ G[k] = After(G[k - 1], k, trace'[k])
                      /\ Means(G[k - 1], trace'[k].index, trace'[k].comm)
                      /\ trace'[k].do = "free" => trace'[k].index \in {-1} \cup Size..(2 * Size - 1)
    BY <1>2, <2>1 DEF History
  <2>2. CASE k = n + 1
    <3>1. k - 1 = n /\ n \in 0..n
      BY <2>2
    <3> QED BY <1>1, <1>2, <1>4, <2>2, <3>1
  <2>3. CASE k \in 1..n
    <3>1. k - 1 \in 0..n /\ k \in 0..n
      BY <2>3
    <3>2. trace'[k] = trace[k] /\ G[k] = H[k] /\ G[k - 1] = H[k - 1]
      BY <1>2, <1>4, <2>3, <3>1
    <3> QED BY <1>1, <2>3, <3>2 DEF HInv, History
  <2>4. k = n + 1 \/ k \in 1..n
    OBVIOUS
  <2> QED BY <2>2, <2>3, <2>4, Zenon
<1>7. phase' = "record" /\ replayed' = 0 /\ replayed = 0 /\ replay' = replay /\ recomms' = recomms
  BY DEF HInv, replayVars
<1>8. Agree(G[0], replay, recomms)
  <2>1. Agree(H[0], replay, recomms)
    BY <1>7 DEF HInv, NoneLost
  <2> QED BY <1>4, <2>1
<1>9. HInv(G)'
  <2>1. trace' \in Seq(Entries) /\ replayed' \in 0..Len(trace')
    BY <1>2, <1>7
  <2>2. comms' \in [DOMAIN comms' -> Int] /\ recomms' \in [DOMAIN recomms' -> Int]
    BY <1>7 DEF HInv
  <2>3. Agree(G[Len(trace')], record', comms')
    BY <1>1, <1>2, <1>4
  <2>4. Agree(G[replayed'], replay', recomms')
    BY <1>7, <1>8
  <2> QED BY <1>6, <1>7, <2>1, <2>2, <2>3, <2>4 DEF HInv
<1> QED BY <1>9 DEF Inv

\* A call replayed takes the replayer to the next table of the history.
LEMMA ReplayedCall ==
  ASSUME NEW H, HInv(H), phase = "replay", replayed < Len(trace), replayed' = replayed + 1,
         UNCHANGED <<phase, recordVars>>, recomms' \in [DOMAIN recomms' -> Int],
         NoneLost /\ Call.index # -1 => Agree(After(H[replayed], replayed + 1, Call), replay', recomms')
  PROVE  Inv'
<1>1. /\ trace' = trace /\ record' = record /\ comms' = comms /\ phase' = phase
      /\ replayed \in Nat /\ replayed + 1 \in 1..Len(trace) /\ Len(trace) \in Nat
  BY DEF HInv, recordVars
<1>2. History(H)'
  BY <1>1 DEF HInv, History
<1>3. H[replayed + 1] = After(H[replayed], replayed + 1, Call)
  <2>1. (replayed + 1) - 1 = replayed
    BY <1>1
  <2> QED BY <1>1, <2>1 DEF HInv, History, Call
<1>4. NoneLost' => NoneLost /\ Call.index # -1
  BY <1>1 DEF NoneLost, Call
<1>5. NoneLost' => Agree(H[replayed'], replay', recomms')
  BY <1>3, <1>4
<1>6. HInv(H)'
  <2>1. trace' \in Seq(Entries) /\ replayed' \in 0..Len(trace') /\ phase' # "record"
    BY <1>1 DEF HInv
  <2>2. comms' \in [DOMAIN comms' -> Int] /\ Agree(H[Len(trace')], record', comms')
    BY <1>1 DEF HInv
  <2> QED BY <1>2, <1>5, <2>1, <2>2 DEF HInv
<1> QED BY <1>6 DEF Inv

\* No call is made yet, and both tables are empty.
LEMMA InitInv == Init => Inv
<1> SUFFICES ASSUME Init PROVE Inv
  OBVIOUS
<1>1. PICK H : H = [k \in 0..0 |-> EmptyTable]
  OBVIOUS
<1>2. H[0] = EmptyTable /\ EmptyTable \in Tables /\ Len(trace) = 0 /\ trace = <<>>
  BY <1>1, SlotArithmetic DEF Init, EmptyTable, Tables
<1>3. H \in [0..0 -> Tables]
  BY <1>1, <1>2
<1>4. History(H)
  BY <1>2, <1>3 DEF History
<1>5. Predefined \in [DOMAIN Predefined -> Int] /\ DOMAIN Predefined = {World, Self}
      /\ Predefined[World] = 0 /\ Predefined[Self] = -1
  BY BuiltinsDiffer DEF Predefined
<1>6. Agree(EmptyTable, EmptyMapper, Predefined)
  BY <1>2, <1>5, BuiltinsDiffer DEF Agree, EmptyTable, EmptyMapper
<1>7. HInv(H)
  BY <1>2, <1>4, <1>5, <1>6 DEF HInv, Init
<1> QED BY <1>7 DEF Inv

\* A wrapper records its call.
LEMMA RecordInv ==
  ASSUME Inv, NEW comm,
         \/ RecordUse(comm) \/ RecordLeftOut(comm) \/ RecordFree(comm)
         \/ \E out \in Handles : RecordCreate(comm, out)
  PROVE  Inv'
<1>1. PICK H : HInv(H)
  BY DEF Inv
<1>2. PICK do \in {"use", "create", "free"}, null \in BOOLEAN : Record(do, comm, null)
  BY DEF RecordUse, RecordLeftOut, RecordFree, RecordCreate
<1> DEFINE n == Len(trace)
           index == HandleToIndex(record, comm)
<1>3. n \in Nat /\ n + 1 \in Nat \ {0} /\ trace \in Seq(Entries) /\ comms \in [DOMAIN comms -> Int]
      /\ Agree(H[n], record, comms)
  BY <1>1 DEF HInv
<1>4. comm \in DOMAIN comms /\ phase = "record" /\ UNCHANGED <<phase, replayVars>>
  BY <1>2 DEF Record
<1>5. Means(H[n], index, comms[comm]) /\ index \in Int
      /\ (comm \in Handles => index \in {-1} \cup Size..(2 * Size - 1))
  BY <1>3, <1>4, IndexMeans
<1> HIDE DEF n, index
<1>6. ASSUME NEW d \in {"use", "create", "free"}, NEW b \in BOOLEAN, Record(d, comm, b),
             d = "free" => comm \in Handles,
             LET e == [do |-> d, index |-> index, comm |-> comms[comm], null |-> b]
             IN  Agree(After(H[n], n + 1, e), record', comms') /\ comms' \in [DOMAIN comms' -> Int]
      PROVE  Inv'
  <2> DEFINE e == [do |-> d, index |-> index, comm |-> comms[comm], null |-> b]
  <2>1. e \in Entries /\ e.do = d /\ e.index = index /\ e.comm = comms[comm]
    BY <1>3, <1>4, <1>5 DEF Entries
  <2>2. trace' = Append(trace, e)
    BY <1>6 DEF Record, index
  <2>3. Agree(After(H[n], n + 1, e), record', comms') /\ comms' \in [DOMAIN comms' -> Int]
    BY <1>6
  <2> HIDE DEF e
  <2> QED BY <1>1, <1>4, <1>5, <1>6, <2>1, <2>2, <2>3, RecordedCall DEF n
<1>7. CASE RecordUse(comm)
  BY <1>3, <1>6, <1>7 DEF RecordUse, After
<1>8. CASE RecordLeftOut(comm)
  BY <1>3, <1>6, <1>8, LeftOutAgrees DEF RecordLeftOut, After
<1>9. CASE RecordFree(comm)
  BY <1>3, <1>4, <1>6, <1>9, FreeAgrees DEF RecordFree, After, index
<1>10. CASE \E out \in Handles : RecordCreate(comm, out)
  <2>1. PICK out \in Handles : RecordCreate(comm, out)
    BY <1>10
  <2>2. out \in Handles \ DOMAIN comms /\ record' = AddHandle(record, out) /\ comms' = With(comms, out, n + 1)
        /\ Record("create", comm, FALSE)
    BY <2>1 DEF RecordCreate, n
  <2>3. Agree(Put(H[n], n + 1), record', comms') /\ comms' \in [DOMAIN comms' -> Int]
    BY <1>3, <2>2, CreateAgrees
  <2> QED BY <1>6, <2>2, <2>3 DEF After
<1> QED BY <1>7, <1>8, <1>9, <1>10

\* The replayer makes the next call of the trace.
LEMMA ReplayInv ==
  ASSUME Inv, NEW comm,
         \/ ReplayUse(comm) \/ ReplayLeftOut(comm) \/ ReplayFree(comm)
         \/ \E out \in Handles : ReplayCreate(comm, out)
  PROVE  Inv'
<1>1. PICK H : HInv(H)
  BY DEF Inv
<1>2. PICK do \in {"use", "create", "free"} : Replay(do, comm)
  BY DEF ReplayUse, ReplayLeftOut, ReplayFree, ReplayCreate
<1> DEFINE n == replayed
           T == H[n]
<1>3. /\ phase = "replay" /\ n < Len(trace) /\ Call.do = do /\ comm \in IndexToHandles(replay, Call.index)
      /\ comm \in DOMAIN recomms /\ replayed' = n + 1 /\ UNCHANGED <<phase, recordVars>>
  BY <1>2 DEF Replay
<1>4. /\ n \in Nat /\ n + 1 \in Nat \ {0} /\ n + 1 \in 1..Len(trace) /\ (n + 1) - 1 = n
      /\ recomms \in [DOMAIN recomms -> Int]
      /\ Call \in Entries
      /\ Means(T, Call.index, Call.comm)
      /\ Call.do = "free" => Call.index \in {-1} \cup Size..(2 * Size - 1)
  <2>1. n \in Nat /\ n + 1 \in Nat \ {0} /\ n + 1 \in 1..Len(trace) /\ (n + 1) - 1 = n
    BY <1>1, <1>3 DEF HInv
  <2>2. Call = trace[n + 1] /\ trace \in Seq(Entries)
    BY <1>1 DEF Call, HInv
  <2> QED BY <1>1, <2>1, <2>2 DEF HInv, History
<1>5. NoneLost => Agree(T, replay, recomms)
  BY <1>1, <1>3 DEF HInv
<1>6. ASSUME recomms' \in [DOMAIN recomms' -> Int],
             Agree(T, replay, recomms) /\ Call.index # -1 => Agree(After(T, n + 1, Call), replay', recomms')
      PROVE  Inv'
  BY <1>1, <1>3, <1>5, <1>6, ReplayedCall
<1> HIDE DEF n, T
<1>7. CASE ReplayUse(comm)
  <2>1. Call.do = "use" /\ UNCHANGED <<replay, recomms>>
    BY <1>7 DEF ReplayUse, Replay
  <2>2. After(T, n + 1, Call) = T
    BY <2>1 DEF After
  <2> QED BY <1>4, <1>6, <2>1, <2>2
<1>8. CASE ReplayLeftOut(comm)
  <2>1. Call.do = "create" /\ Call.null /\ replay' = AddHandle(replay, NullHandle) /\ recomms' = recomms
    BY <1>8 DEF ReplayLeftOut, Replay
  <2>2. After(T, n + 1, Call) = Put(T, 0)
    BY <2>1 DEF After
  <2> QED BY <1>4, <1>6, <2>1, <2>2, LeftOutAgrees
<1>9. CASE ReplayFree(comm)
  <2>1. /\ Call.do = "free" /\ comm \in Handles /\ replay' = RemoveHandle(replay, comm)
        /\ recomms' = Without(recomms, comm)
    BY <1>9 DEF ReplayFree, Replay
  <2>2. After(T, n + 1, Call) = Drop(T, Call.index)
    BY <2>1 DEF After
  <2>3. recomms' \in [DOMAIN recomms' -> Int]
    BY <1>4, <2>1, NumbersKept
  <2>4. ASSUME Agree(T, replay, recomms), Call.index # -1
        PROVE  Agree(Drop(T, Call.index), replay', recomms')
    <3>1. Call.index \in Size..(2 * Size - 1)
      BY <1>4, <2>1, <2>4
    <3>2. HandleToIndex(replay, comm) = Call.index
      BY <1>3, <1>4, <2>4, <3>1, IndexBack
    <3>3. comm \in Handles \cap DOMAIN recomms
      BY <1>3, <2>1
    <3>4. Agree(Drop(T, HandleToIndex(replay, comm)), RemoveHandle(replay, comm), Without(recomms, comm))
      BY <1>4, <2>4, <3>3, FreeAgrees
    <3> QED BY <2>1, <3>2, <3>4
  <2> QED BY <1>6, <2>2, <2>3, <2>4
<1>10. CASE \E out \in Handles : ReplayCreate(comm, out)
  <2>1. PICK out \in Handles : ReplayCreate(comm, out)
    BY <1>10
  <2>2. /\ Call.do = "create" /\ ~Call.null /\ out \in Handles \ DOMAIN recomms
        /\ replay' = AddHandle(replay, out) /\ recomms' = With(recomms, out, n + 1)
    BY <2>1 DEF ReplayCreate, Replay, n
  <2>3. After(T, n + 1, Call) = Put(T, n + 1)
    BY <2>2 DEF After
  <2>4. recomms' \in [DOMAIN recomms' -> Int]
    <3>1. n + 1 \in Int
      BY <1>4
    <3>2. With(recomms, out, n + 1) \in [DOMAIN With(recomms, out, n + 1) -> Int]
      BY <1>4, <3>1, NumbersKept, Zenon
    <3> QED BY <2>2, <3>2
  <2> QED BY <1>4, <1>6, <2>2, <2>3, <2>4, CreateAgrees
<1> QED BY <1>7, <1>8, <1>9, <1>10

\* Every step keeps the invariant.
LEMMA StepInv == ASSUME Inv, [Next]_vars PROVE Inv'
<1>1. PICK H : HInv(H)
  BY DEF Inv
<1>2. CASE UNCHANGED vars
  <2>1. HInv(H)'
    BY <1>1, <1>2 DEF vars, recordVars, replayVars, HInv, History, NoneLost
  <2> QED BY <2>1 DEF Inv
<1>3. CASE \E comm \in AllHandles : RecordUse(comm) \/ RecordLeftOut(comm) \/ RecordFree(comm)
  BY <1>3, RecordInv
<1>4. CASE \E comm \in AllHandles, out \in Handles : RecordCreate(comm, out) \/ ReplayCreate(comm, out)
  BY <1>4, RecordInv, ReplayInv
<1>5. CASE \E out \in Handles : CreateUntraced(out)
  <2>1. PICK out \in Handles : CreateUntraced(out)
    BY <1>5
  <2>2. /\ out \in Handles \ DOMAIN comms /\ comms' = With(comms, out, UntracedNumber)
        /\ UNCHANGED <<phase, trace, record, replayVars>> /\ UntracedNumber \in Int
    BY <2>1 DEF CreateUntraced, UntracedNumber
  <2>3. Agree(H[Len(trace)], record, comms') /\ comms' \in [DOMAIN comms' -> Int]
    BY <1>1, <2>2, UntracedAgrees DEF HInv
  <2>4. HInv(H)'
    BY <1>1, <2>2, <2>3 DEF HInv, History, NoneLost, replayVars
  <2> QED BY <2>4 DEF Inv
<1>6. CASE StartReplay
  <2>1. HInv(H)'
    BY <1>1, <1>6 DEF StartReplay, HInv, History, NoneLost, recordVars, replayVars
  <2> QED BY <2>1 DEF Inv
<1>7. CASE \E comm \in AllHandles : ReplayUse(comm) \/ ReplayLeftOut(comm) \/ ReplayFree(comm)
  BY <1>7, ReplayInv
<1>8. CASE \E comm \in AllHandles : ReplayAbort(comm)
  <2>1. HInv(H)'
    BY <1>1, <1>8 DEF ReplayAbort, HInv, History, NoneLost, recordVars, replayVars
  <2> QED BY <2>1 DEF Inv
<1> QED BY <1>2, <1>3, <1>4, <1>5, <1>6, <1>7, <1>8 DEF Next

\* As long as no communicator was lost to the table, a call is replayed on the
\* communicator it was recorded on (HandleMapper, PtrHandler.C), whatever
\* handles either MPI library hands out.
THEOREM ReplayedOnTheSame == Spec => []SameCommunicator
<1>1. Inv => SameCommunicator
  <2> SUFFICES ASSUME Inv, phase = "replay", replayed < Len(trace),
                      \A k \in 1..(replayed + 1) : trace[k].index # -1,
                      NEW comm \in IndexToHandles(replay, Call.index)
               PROVE  comm \in DOMAIN recomms /\ recomms[comm] = Call.comm
    BY DEF SameCommunicator
  <2>1. PICK H : HInv(H)
    BY DEF Inv
  <2>2. replayed \in Nat /\ replayed + 1 \in 1..Len(trace) /\ (replayed + 1) - 1 = replayed
    BY <2>1 DEF HInv
  <2>3. Call = trace[replayed + 1] /\ Call \in Entries /\ Call.index # -1
    BY <2>1, <2>2 DEF HInv, Call
  <2>4. NoneLost
    BY <2>2 DEF NoneLost
  <2>5. Agree(H[replayed], replay, recomms)
    BY <2>1, <2>4 DEF HInv
  <2>6. Means(H[replayed], Call.index, Call.comm)
    BY <2>1, <2>2, <2>3 DEF HInv, History
  <2>7. Call.index \in Int
    BY <2>3 DEF Entries
  <2> QED BY <2>3, <2>5, <2>6, <2>7, IndexResolves
<1> QED BY <1>1, InitInv, StepInv, PTL DEF Spec
-----------------------------------------------------------------------------
(* What the table loses. *)

\* The calls of trace t after call n that created communicators.
Later(t, n) == {j \in 1..Len(t) : t[j].do = "create" /\ j > n}

\* How many slots the cursor has moved on from slot s.
Age(m, s) == IF m.current > s THEN m.current - s - 1 ELSE m.current + Size - s - 1

\* A communicator is in the slot it was put in, as long ago as there were others
\* created since, or as many were as there are slots.
InPlace(h, n) ==
  \/ Cardinality(Later(trace, n)) >= Size
  \/ \E s \in Slots : record.buffer[s] = h /\ Age(record, s) = Cardinality(Later(trace, n))
AllInPlace ==
  \A h \in Handles \cap DOMAIN comms : comms[h] # UntracedNumber =>
    comms[h] \in 1..Len(trace) /\ InPlace(h, comms[h])

LostInv == Inv /\ AllInPlace /\ LostOnlyByOverflow

\* One more call, and what it adds to those created later.
LEMMA LaterGrows ==
  ASSUME NEW t \in Seq(Entries), NEW e \in Entries, NEW n \in 0..Len(t)
  PROVE  /\ IsFiniteSet(Later(t, n)) /\ Cardinality(Later(t, n)) \in Nat
         /\ e.do # "create" => Later(Append(t, e), n) = Later(t, n)
         /\ e.do = "create" => Cardinality(Later(Append(t, e), n)) = Cardinality(Later(t, n)) + 1
         /\ Cardinality(Later(Append(t, e), Len(t) + 1)) = 0
<1> DEFINE u == Append(t, e)
<1>1. PICK k \in Nat : k = Len(t)
  OBVIOUS
<1>2. Len(u) = k + 1 /\ u[k + 1] = e /\ \A j \in 1..k : u[j] = t[j]
  BY <1>1
<1> HIDE DEF u
<1>3. IsFiniteSet(Later(t, n)) /\ Cardinality(Later(t, n)) \in Nat
  <2>1. IsFiniteSet(1..k)
    BY FS_Interval
  <2>2. Later(t, n) \subseteq 1..k
    BY <1>1 DEF Later
  <2>3. IsFiniteSet(Later(t, n))
    BY <2>1, <2>2, FS_Subset
  <2> QED BY <2>3, FS_CardinalityType
<1>4. ASSUME e.do # "create" PROVE Later(u, n) = Later(t, n)
  <2>1. \A j \in 1..(k + 1) : j \in 1..k \/ j = k + 1
    OBVIOUS
  <2> QED BY <1>1, <1>2, <1>4, <2>1 DEF Later
<1>5. ASSUME e.do = "create" PROVE Cardinality(Later(u, n)) = Cardinality(Later(t, n)) + 1
  <2>1. \A j : j \in 1..(k + 1) <=> j \in 1..k \/ j = k + 1
    OBVIOUS
  <2>2. k + 1 > n /\ k + 1 \notin 1..k
    BY <1>1
  <2>3. Later(u, n) = Later(t, n) \cup {k + 1}
    BY <1>1, <1>2, <1>5, <2>1, <2>2 DEF Later
  <2>4. k + 1 \notin Later(t, n)
    BY <1>1, <2>2 DEF Later
  <2> QED BY <1>3, <2>3, <2>4, FS_AddElement
<1>6. Cardinality(Later(u, Len(t) + 1)) = 0
  <2>1. Later(u, k + 1) = {}
    BY <1>2 DEF Later
  <2> QED BY <1>1, <2>1, FS_EmptySet
<1> QED BY <1>3, <1>4, <1>5, <1>6 DEF u

\* The cursor moves on by one slot, and takes the slot furthest behind.
LEMMA AgeGrows ==
  ASSUME NEW m, m.current \in Slots, NEW h, NEW s \in Slots
  PROVE  /\ Age(m, s) \in 0..(Size - 1)
         /\ Age(m, m.current) = Size - 1
         /\ Age(AddHandle(m, h), m.current) = 0
         /\ s # m.current => Age(AddHandle(m, h), s) = Age(m, s) + 1
<1>1. Size \in Nat /\ Size >= 3 /\ m.current \in 0..(Size - 1) /\ s \in 0..(Size - 1)
  BY SlotArithmetic DEF Slots
<1>2. AddHandle(m, h).current = IF m.current = Size - 1 THEN 0 ELSE m.current + 1
  <2>1. (m.current + 1) % Size = IF m.current = Size - 1 THEN 0 ELSE m.current + 1
    <3>1. CASE m.current = Size - 1
      BY <1>1, <3>1
    <3>2. CASE m.current # Size - 1
      BY <1>1, <3>2
    <3> QED BY <3>1, <3>2
  <2> QED BY <2>1 DEF AddHandle
<1> QED BY <1>1, <1>2 DEF Age

\* Adding a handle keeps the others in place, or brings their count to Size.
LEMMA CreateInPlace ==
  ASSUME Inv, AllInPlace, NEW H, HInv(H), NEW e \in Entries, e.do = "create",
         trace' = Append(trace, e), NEW out, record' = AddHandle(record, out),
         NEW h \in Handles \cap DOMAIN comms, comms[h] # UntracedNumber, NEW n, n = comms[h]
  PROVE  n \in 1..Len(trace') /\ InPlace(h, n)'
<1>0. PICK c : c = Cardinality(Later(trace, n))
  OBVIOUS
<1>1. /\ trace \in Seq(Entries) /\ Len(trace) \in Nat /\ Len(trace') = Len(trace) + 1
      /\ n \in 1..Len(trace) /\ InPlace(h, n)
      /\ record.current \in Slots /\ DOMAIN record.buffer = Slots
  BY DEF HInv, Agree, Tables, AllInPlace
<1>2. c \in Nat /\ Cardinality(Later(trace', n)) = c + 1
  BY <1>0, <1>1, LaterGrows
<1>3. Size \in Nat
  BY SlotArithmetic
<1>4. InPlace(h, n)'
  <2>1. CASE c >= Size
    BY <1>2, <1>3, <2>1 DEF InPlace
  <2>2. CASE \E s \in Slots : record.buffer[s] = h /\ Age(record, s) = c
    <3>1. PICK s \in Slots : record.buffer[s] = h /\ Age(record, s) = c
      BY <2>2
    <3>2. CASE s = record.current
      <4>1. c = Size - 1
        BY <1>1, <3>1, <3>2, AgeGrows
      <4> QED BY <1>2, <1>3, <4>1 DEF InPlace
    <3>3. CASE s # record.current
      <4>1. Age(record', s) = c + 1
        BY <1>1, <3>1, <3>3, AgeGrows
      <4>2. record'.buffer[s] = h
        BY <1>1, <3>1, <3>3 DEF AddHandle
      <4> QED BY <1>2, <4>1, <4>2 DEF InPlace
    <3> QED BY <3>2, <3>3
  <2> QED BY <1>0, <1>1, <2>1, <2>2 DEF InPlace
<1> QED BY <1>1, <1>4

\* A call that creates nothing leaves what is in place there.
LEMMA QuietInPlace ==
  ASSUME Inv, AllInPlace, NEW e \in Entries, e.do # "create", trace' = Append(trace, e),
         record'.current = record.current,
         NEW h \in Handles \cap DOMAIN comms, comms[h] # UntracedNumber, NEW n, n = comms[h],
         \A s \in Slots : record.buffer[s] = h => record'.buffer[s] = h
  PROVE  n \in 1..Len(trace') /\ InPlace(h, n)'
<1>1. trace \in Seq(Entries) /\ n \in 1..Len(trace) /\ InPlace(h, n) /\ Len(trace) \in Nat
  BY DEF Inv, HInv, AllInPlace
<1>2. Later(trace', n) = Later(trace, n) /\ Len(trace') = Len(trace) + 1
  BY <1>1, LaterGrows
<1>3. \A s \in Slots : Age(record', s) = Age(record, s)
  BY DEF Age
<1>4. InPlace(h, n)'
  BY <1>1, <1>2, <1>3 DEF InPlace
<1> QED BY <1>1, <1>2, <1>4

\* What was lost before stays explained, and so is the call recorded.
LEMMA LostKept ==
  ASSUME Inv, LostOnlyByOverflow, NEW e \in Entries, trace' = Append(trace, e),
         e.index = -1 /\ e.comm # UntracedNumber => Cardinality(Later(trace, e.comm)) >= Size
  PROVE  LostOnlyByOverflow'
<1>1. PICK n \in Nat : n = Len(trace) /\ trace \in Seq(Entries)
  BY DEF Inv, HInv
<1>2. Len(trace') = n + 1 /\ DOMAIN trace' = 1..(n + 1) /\ DOMAIN trace = 1..n
      /\ trace'[n + 1] = e /\ \A j \in 1..n : trace'[j] = trace[j]
  BY <1>1
<1> SUFFICES ASSUME NEW k \in 1..(n + 1), trace'[k].index = -1, trace'[k].comm # UntracedNumber
             PROVE  Cardinality({j \in 1..(k - 1) : trace'[j].do = "create" /\ j > trace'[k].comm}) >= Size
  BY <1>2 DEF LostOnlyByOverflow
<1>3. \A j \in 1..(k - 1) : j \in 1..n
  BY <1>1
<1>4. CASE k = n + 1
  <2>1. trace'[k] = e /\ k - 1 = n
    BY <1>1, <1>2, <1>4
  <2>2. {j \in 1..(k - 1) : trace'[j].do = "create" /\ j > trace'[k].comm} = Later(trace, e.comm)
    BY <1>1, <1>2, <2>1 DEF Later
  <2> QED BY <2>1, <2>2
<1>5. CASE k \in 1..n
  <2>1. {j \in 1..(k - 1) : trace'[j].do = "create" /\ j > trace'[k].comm}
          = {j \in 1..(k - 1) : trace[j].do = "create" /\ j > trace[k].comm}
    BY <1>2, <1>3, <1>5
  <2>2. trace[k].index = -1 /\ trace[k].comm # UntracedNumber
    BY <1>2, <1>5
  <2> QED BY <1>2, <1>5, <2>1, <2>2 DEF LostOnlyByOverflow
<1>6. k = n + 1 \/ k \in 1..n
  OBVIOUS
<1> QED BY <1>4, <1>5, <1>6, Zenon

\* In place, call by call.
LEMMA AllByOne ==
  ASSUME \A h \in Handles \cap DOMAIN comms' : comms'[h] # UntracedNumber =>
           \E n : n = comms'[h] /\ n \in 1..Len(trace') /\ InPlace(h, n)'
  PROVE  AllInPlace'
BY DEF AllInPlace, InPlace

\* A wrapper records its call: what it does not find was pushed out.
LEMMA RecordLost ==
  ASSUME LostInv, NEW comm,
         \/ RecordUse(comm) \/ RecordLeftOut(comm) \/ RecordFree(comm)
         \/ \E out \in Handles : RecordCreate(comm, out)
  PROVE  AllInPlace' /\ LostOnlyByOverflow'
<1>1. PICK H : HInv(H)
  BY DEF LostInv, Inv
<1>2. Inv /\ AllInPlace /\ LostOnlyByOverflow
  BY DEF LostInv
<1>3. /\ trace \in Seq(Entries) /\ Len(trace) \in Nat /\ comms \in [DOMAIN comms -> Int]
      /\ Agree(H[Len(trace)], record, comms)
      /\ record.current \in Slots /\ DOMAIN record.buffer = Slots
      /\ record = [current |-> record.current, buffer |-> record.buffer]
  BY <1>1 DEF HInv, Agree, Tables
<1>4. ASSUME NEW do \in {"use", "create", "free"}, NEW null \in BOOLEAN, Record(do, comm, null)
      PROVE  \E e \in Entries : e.do = do /\ trace' = Append(trace, e) /\ LostOnlyByOverflow'
  <2> DEFINE index == HandleToIndex(record, comm)
  <2>1. PICK e : e = [do |-> do, index |-> index, comm |-> comms[comm], null |-> null]
    OBVIOUS
  <2>2. comm \in DOMAIN comms /\ trace' = Append(trace, e)
    BY <1>4, <2>1 DEF Record
  <2>3. index \in Int /\ (index = -1 => comm \in Handles /\ SlotsOf(record, comm) = {})
    BY <1>3, <2>2, IndexMeans
  <2>4. e \in Entries /\ e.do = do /\ e.index = index /\ e.comm = comms[comm]
    BY <1>3, <2>1, <2>2, <2>3 DEF Entries
  <2>5. ASSUME index = -1, comms[comm] # UntracedNumber
        PROVE  Cardinality(Later(trace, comms[comm])) >= Size
    <3>1. \A s \in Slots : record.buffer[s] # comm
      BY <2>3, <2>5 DEF SlotsOf
    <3> QED BY <1>2, <2>2, <2>3, <2>5, <3>1 DEF AllInPlace, InPlace
  <2> HIDE DEF index
  <2>6. LostOnlyByOverflow'
    BY <1>2, <2>2, <2>4, <2>5, LostKept
  <2> QED BY <2>2, <2>4, <2>6
<1>5. CASE RecordUse(comm)
  <2>1. PICK e \in Entries : e.do = "use" /\ trace' = Append(trace, e) /\ LostOnlyByOverflow'
    BY <1>4, <1>5 DEF RecordUse
  <2>2. record' = record /\ comms' = comms
    BY <1>5 DEF RecordUse
  <2>3. ASSUME NEW h \in Handles \cap DOMAIN comms', comms'[h] # UntracedNumber
        PROVE  \E n : n = comms'[h] /\ n \in 1..Len(trace') /\ InPlace(h, n)'
    BY <1>2, <2>1, <2>2, <2>3, QuietInPlace
  <2> QED BY <2>1, <2>3, AllByOne
<1>6. CASE RecordLeftOut(comm)
  <2>1. PICK e \in Entries : e.do = "create" /\ trace' = Append(trace, e) /\ LostOnlyByOverflow'
    BY <1>4, <1>6 DEF RecordLeftOut
  <2>2. record' = AddHandle(record, NullHandle) /\ comms' = comms
    BY <1>6 DEF RecordLeftOut
  <2>3. ASSUME NEW h \in Handles \cap DOMAIN comms', comms'[h] # UntracedNumber
        PROVE  \E n : n = comms'[h] /\ n \in 1..Len(trace') /\ InPlace(h, n)'
    BY <1>1, <1>2, <2>1, <2>2, <2>3, CreateInPlace
  <2> QED BY <2>1, <2>3, AllByOne
<1>7. CASE RecordFree(comm)
  <2>1. PICK e \in Entries : e.do = "free" /\ trace' = Append(trace, e) /\ LostOnlyByOverflow'
    BY <1>4, <1>7 DEF RecordFree
  <2>2. comm \in Handles /\ record' = RemoveHandle(record, comm) /\ comms' = Without(comms, comm)
    BY <1>7 DEF RecordFree
  <2>3. /\ record'.current = record.current
        /\ \A s \in Slots : record.buffer[s] # comm => record'.buffer[s] = record.buffer[s]
    <3>1. CASE SlotsOf(record, comm) = {}
      BY <2>2, <3>1 DEF RemoveHandle
    <3>2. CASE \E t \in Slots : Sits(record, comm, t)
      <4>1. PICK t \in Slots : record.buffer[t] = comm /\ SlotsOf(record, comm) = {t} /\ Min({t}) = t
        BY <3>2 DEF Sits
      <4>2. record' = [record EXCEPT !.buffer[t] = NullHandle]
        BY <2>2, <4>1 DEF RemoveHandle
      <4>3. record' = [current |-> record.current, buffer |-> [record.buffer EXCEPT ![t] = NullHandle]]
        BY <1>3, <4>2
      <4> QED BY <1>3, <4>1, <4>3
    <3> QED BY <1>3, <2>2, <3>1, <3>2, IndexOfHandle
  <2>4. ASSUME NEW h \in Handles \cap DOMAIN comms', comms'[h] # UntracedNumber
        PROVE  \E n : n = comms'[h] /\ n \in 1..Len(trace') /\ InPlace(h, n)'
    <3>1. h \in DOMAIN comms /\ h # comm /\ comms'[h] = comms[h]
      BY <2>2 DEF Without
    <3>2. \A s \in Slots : record.buffer[s] = h => record'.buffer[s] = h
      BY <2>3, <3>1
    <3> QED BY <1>2, <2>1, <2>3, <2>4, <3>1, <3>2, QuietInPlace
  <2> QED BY <2>1, <2>4, AllByOne
<1>8. CASE \E out \in Handles : RecordCreate(comm, out)
  <2>1. PICK out \in Handles : RecordCreate(comm, out)
    BY <1>8
  <2>2. PICK e \in Entries : e.do = "create" /\ trace' = Append(trace, e) /\ LostOnlyByOverflow'
    BY <1>4, <2>1 DEF RecordCreate
  <2>3. /\ out \notin DOMAIN comms /\ record' = AddHandle(record, out)
        /\ comms' = With(comms, out, Len(trace) + 1)
    BY <2>1 DEF RecordCreate
  <2>4. PICK c : c = record.current
    OBVIOUS
  <2>5. record'.buffer[c] = out /\ Age(record', c) = 0 /\ c \in Slots
    BY <1>3, <2>3, <2>4, AgeGrows DEF AddHandle
  <2>6. PICK k \in Nat : k = Len(trace) + 1
    BY <1>3
  <2>7. Cardinality(Later(trace', k)) = 0 /\ k \in 1..Len(trace')
    BY <1>3, <2>2, <2>6, LaterGrows
  <2>8. InPlace(out, k)'
    BY <2>5, <2>7 DEF InPlace
  <2>9. ASSUME NEW h \in Handles \cap DOMAIN comms', comms'[h] # UntracedNumber
        PROVE  \E n : n = comms'[h] /\ n \in 1..Len(trace') /\ InPlace(h, n)'
    <3>1. CASE h = out
      <4>1. comms'[h] = k
        BY <2>3, <2>6, <3>1 DEF With
      <4> QED BY <2>7, <2>8, <3>1, <4>1
    <3>2. CASE h # out
      <4>1. h \in DOMAIN comms /\ comms'[h] = comms[h]
        BY <2>3, <3>2 DEF With
      <4> QED BY <1>1, <1>2, <2>2, <2>3, <2>9, <4>1, CreateInPlace
    <3> QED BY <3>1, <3>2
  <2> QED BY <2>2, <2>9, AllByOne
<1> QED BY <1>5, <1>6, <1>7, <1>8

\* Every step keeps the invariant.
LEMMA StepLost == ASSUME LostInv, [Next]_vars PROVE LostInv'
<1>1. Inv /\ Inv' /\ AllInPlace /\ LostOnlyByOverflow
  BY StepInv DEF LostInv
<1>2. ASSUME UNCHANGED <<trace, record, comms>> PROVE AllInPlace' /\ LostOnlyByOverflow'
  <2>1. AllInPlace'
    BY <1>1, <1>2 DEF AllInPlace, InPlace, Age, Later
  <2>2. LostOnlyByOverflow'
    BY <1>1, <1>2 DEF LostOnlyByOverflow
  <2> QED BY <2>1, <2>2
<1>3. CASE UNCHANGED vars
  BY <1>1, <1>2, <1>3 DEF vars, recordVars, LostInv
<1>4. CASE \E comm \in AllHandles : RecordUse(comm) \/ RecordLeftOut(comm) \/ RecordFree(comm)
  BY <1>1, <1>4, RecordLost DEF LostInv
<1>5. ASSUME NEW comm \in AllHandles, NEW out \in Handles, RecordCreate(comm, out) PROVE LostInv'
  <2>1. AllInPlace' /\ LostOnlyByOverflow'
    BY <1>5, RecordLost
  <2> QED BY <1>1, <2>1 DEF LostInv
<1>6. CASE \E comm \in AllHandles, out \in Handles : ReplayCreate(comm, out)
  BY <1>1, <1>2, <1>6 DEF ReplayCreate, Replay, recordVars, LostInv
<1>7. CASE \E out \in Handles : CreateUntraced(out)
  <2>1. PICK out \in Handles : CreateUntraced(out)
    BY <1>7
  <2>2. out \notin DOMAIN comms /\ comms' = With(comms, out, UntracedNumber) /\ trace' = trace /\ record' = record
    BY <2>1 DEF CreateUntraced
  <2>3. \A h \in Handles \cap DOMAIN comms' : comms'[h] # UntracedNumber =>
          h \in DOMAIN comms /\ comms'[h] = comms[h]
    BY <2>2 DEF With
  <2>4. ASSUME NEW h \in Handles \cap DOMAIN comms', comms'[h] # UntracedNumber
        PROVE  \E n : n = comms'[h] /\ n \in 1..Len(trace') /\ InPlace(h, n)'
    <3>1. PICK n : n = comms[h]
      OBVIOUS
    <3>2. n = comms'[h] /\ n \in 1..Len(trace) /\ InPlace(h, n)
      BY <1>1, <2>3, <2>4, <3>1 DEF AllInPlace
    <3>3. InPlace(h, n)'
      BY <2>2, <3>2 DEF InPlace
    <3> QED BY <2>2, <3>2, <3>3
  <2>5. LostOnlyByOverflow'
    BY <1>1, <2>2 DEF LostOnlyByOverflow
  <2> QED BY <1>1, <2>4, <2>5, AllByOne DEF LostInv
<1>8. CASE StartReplay
  BY <1>1, <1>2, <1>8 DEF StartReplay, recordVars, LostInv
<1>9. CASE \E comm \in AllHandles : \/ ReplayUse(comm) \/ ReplayLeftOut(comm) \/ ReplayFree(comm)
                                    \/ ReplayAbort(comm)
  BY <1>1, <1>2, <1>9 DEF ReplayUse, ReplayLeftOut, ReplayFree, ReplayAbort, Replay, recordVars, LostInv
<1> QED BY <1>3, <1>4, <1>5, <1>6, <1>7, <1>8, <1>9 DEF Next

\* The index of a communicator is lost to the trace only when as many others as
\* the table has slots (PTR_HANDLER_SZ) were created after it, or when the call
\* that created it is untraced.
THEOREM LostByOverflowOnly == Spec => []LostOnlyByOverflow
<1>1. Init => LostInv
  <2> SUFFICES ASSUME Init PROVE LostInv
    OBVIOUS
  <2>1. AllInPlace
    BY BuiltinsDiffer DEF Init, Predefined, AllInPlace
  <2>2. LostOnlyByOverflow
    BY DEF Init, LostOnlyByOverflow
  <2> QED BY InitInv, <2>1, <2>2 DEF LostInv
<1>2. LostInv => LostOnlyByOverflow
  BY DEF LostInv
<1> QED BY <1>1, <1>2, StepLost, PTL DEF Spec
=============================================================================
