-------------------------- MODULE DispatchTheorems --------------------------
(***************************************************************************)
(* What holds of the replay window for any size of it, any connections and *)
(* any identifiers: it holds the messages executed last, so no message of  *)
(* a game is executed again within its reach.                              *)
(***************************************************************************)
EXTENDS Dispatch, FiniteSetTheorems, SequenceTheorems, TLAPS

Entries == [key : Keys, digest : Digests]

\* The only open game is the room's, and only a room with a game is ready.
LinkPart ==
  /\ \A g \in Games : link[g] = "open" => game = g
  /\ game # None => link[game] = "open"
  /\ ready => game # None

\* Whatever is executed, or was admitted to be saved, in a game's session makes
\* or finds the game ready.
EpochPart ==
  /\ \A n \in 1 .. Len(log) :
       log[n].epoch <= epoch /\ (log[n].epoch = epoch /\ game # None => ready)
  /\ \A b \in Bots : saving[b] # None =>
       saving[b].epoch <= epoch /\ (saving[b].epoch = epoch /\ game # None => ready)

\* Only votes are saved.
CastPart == \A b \in Bots : saving[b] # None => saving[b].digest.kind = "cast"

DispatchInv == TypeOK /\ LinkPart /\ EpochPart /\ CastPart /\ WindowIsRecent /\ NoReplay

-----------------------------------------------------------------------------
(* The window *)

\* No message has two entries.
LEMMA KeysDiffer ==
  ASSUME TypeOK, WindowIsRecent, NEW i \in 1 .. Len(window), NEW j \in 1 .. Len(window), i # j
  PROVE  window[i].key # window[j].key
<1>1. ASSUME NEW a \in 1 .. Len(window), NEW b \in 1 .. Len(window), a < b
      PROVE  window[a].key # window[b].key
  <2>1. PICK n \in 1 .. Len(log) : IsLast(log, n, window[a].key)
    BY DEF WindowIsRecent
  <2>2. SUFFICES ASSUME window[a].key = window[b].key
                 PROVE  FALSE
    OBVIOUS
  <2>3. n < n
    BY <1>1, <2>1, <2>2 DEF WindowIsRecent
  <2> QED
    BY <2>3
<1>2. i < j \/ j < i
  OBVIOUS
<1> QED
  BY <1>1, <1>2

\* What Without leaves: everything but the entry of k, in the old order.
LEMMA WithoutShape ==
  ASSUME TypeOK, WindowIsRecent, NEW k \in Keys
  PROVE  /\ Without(k) \in Seq(Entries)
         /\ Len(Without(k)) = IF Known(k) THEN Len(window) - 1 ELSE Len(window)
         /\ \E from \in [1 .. Len(Without(k)) -> 1 .. Len(window)] :
              /\ \A j \in 1 .. Len(Without(k)) :
                   Without(k)[j] = window[from[j]] /\ window[from[j]].key # k
              /\ \A i, j \in 1 .. Len(Without(k)) : i < j => from[i] < from[j]
              /\ \A i \in 1 .. Len(window) : window[i].key # k =>
                   \E j \in 1 .. Len(Without(k)) : from[j] = i
<1>0. window \in Seq(Entries) /\ Len(window) \in Nat
  BY DEF TypeOK, Entries
<1>1. CASE ~Known(k)
  <2> DEFINE from == [j \in 1 .. Len(window) |-> j]
  <2>1. Without(k) = window
    BY <1>1 DEF Without
  <2>2. from \in [1 .. Len(window) -> 1 .. Len(window)]
    OBVIOUS
  <2>3. \A j \in 1 .. Len(window) : window[j].key # k
    BY <1>1 DEF Known
  <2> QED
    BY <1>0, <1>1, <2>1, <2>2, <2>3
<1>2. CASE Known(k)
  <2> DEFINE i == CHOOSE i \in 1 .. Len(window) : window[i].key = k
             old == SubSeq(window, 1, i - 1)
             young == SubSeq(window, i + 1, Len(window))
             w == old \o young
             from == [j \in 1 .. Len(window) - 1 |-> IF j < i THEN j ELSE j + 1]
  <2>1. i \in 1 .. Len(window) /\ window[i].key = k
    BY <1>2 DEF Known
  <2>2. Without(k) = w
    BY <1>2 DEF Without
  <2> HIDE DEF i
  <2>3. old \in Seq(Entries) /\ Len(old) = i - 1 /\ \A j \in 1 .. i - 1 : old[j] = window[j]
    BY <1>0, <2>1
  <2>4. /\ young \in Seq(Entries) /\ Len(young) = Len(window) - i
        /\ \A j \in 1 .. Len(window) - i : young[j] = window[i + j]
    BY <1>0, <2>1
  <2> HIDE DEF old, young
  <2>5. w \in Seq(Entries) /\ Len(w) = Len(window) - 1
    <3>1. w \in Seq(Entries) /\ Len(w) = Len(old) + Len(young)
      BY <2>3, <2>4, ConcatProperties
    <3> QED
      BY <1>0, <2>1, <2>3, <2>4, <3>1
  <2>6. ASSUME NEW j \in 1 .. Len(window) - 1
        PROVE  w[j] = window[from[j]]
    <3>1. CASE j < i
      <4>1. w[j] = old[j]
        BY <1>0, <2>1, <2>3, <2>4, <3>1
      <4> QED
        BY <2>1, <2>3, <3>1, <4>1
    <3>2. CASE ~(j < i)
      <4>1. w[j] = young[j - (i - 1)] /\ j - (i - 1) \in 1 .. Len(window) - i
        BY <1>0, <2>1, <2>3, <2>4, <3>2
      <4>2. i + (j - (i - 1)) = j + 1
        BY <1>0, <2>1, <3>2
      <4>3. w[j] = window[j + 1]
        BY <2>4, <4>1, <4>2
      <4> QED
        BY <3>2, <4>3
    <3> QED
      BY <3>1, <3>2
  <2> HIDE DEF w
  <2>7. from \in [1 .. Len(w) -> 1 .. Len(window)]
    BY <1>0, <2>1, <2>5
  <2>8. \A j \in 1 .. Len(w) : from[j] # i /\ from[j] \in 1 .. Len(window)
    BY <1>0, <2>1, <2>5
  <2>9. \A j \in 1 .. Len(w) : window[from[j]].key # k
    BY <2>1, <2>8, KeysDiffer
  <2>10. \A a, b \in 1 .. Len(w) : a < b => from[a] < from[b]
    BY <1>0, <2>1, <2>5
  <2>11. ASSUME NEW a \in 1 .. Len(window), window[a].key # k
         PROVE  \E j \in 1 .. Len(w) : from[j] = a
    <3>1. a # i
      BY <2>1, <2>11
    <3>2. CASE a < i
      <4>1. a \in 1 .. Len(w) /\ from[a] = a
        BY <1>0, <2>1, <2>5, <3>2
      <4> QED
        BY <4>1
    <3>3. CASE a > i
      <4>1. a - 1 \in 1 .. Len(w) /\ from[a - 1] = a
        BY <1>0, <2>1, <2>5, <3>3
      <4> QED
        BY <4>1
    <3> HIDE DEF from
    <3> QED
      BY <1>0, <2>1, <3>1, <3>2, <3>3
  <2> HIDE DEF from
  <2> QED
    BY <1>2, <2>2, <2>5, <2>6, <2>7, <2>9, <2>10, <2>11
<1> QED
  BY <1>1, <1>2

\* f tells from which place in the window the entries before the last one came:
\* those of other messages, in the old order, and all of them but the oldest if
\* there is no room.
CameFrom(f, k) ==
  /\ f \in [1 .. Len(window') - 1 -> 1 .. Len(window)]
  /\ \A j \in 1 .. Len(window') - 1 : window'[j] = window[f[j]] /\ window[f[j]].key # k
  /\ \A i, j \in 1 .. Len(window') - 1 : i < j => f[i] < f[j]
  /\ \A i \in 1 .. Len(window) : window[i].key # k =>
       \/ \E j \in 1 .. Len(window') - 1 : f[j] = i
       \/ /\ Len(window') = WindowLimit
          /\ \A j \in 1 .. Len(window') - 1 : i < f[j]

\* What Remember makes of the window: the new entry stands at the end, the others
\* before it.
LEMMA RememberShape ==
  ASSUME TypeOK, WindowIsRecent, NEW k \in Keys, NEW d \in Digests, Remember(k, d)
  PROVE  /\ window' \in Seq(Entries) /\ Len(window') \in 1 .. WindowLimit
         /\ Len(window) <= Len(window')
         /\ window'[Len(window')] = [key |-> k, digest |-> d]
         /\ \E f : CameFrom(f, k)
<1> DEFINE w == Without(k)
           e == [key |-> k, digest |-> d]
           moved == Append(w, e)
<1>0. /\ window \in Seq(Entries) /\ Len(window) \in Nat /\ Len(window) <= WindowLimit
      /\ WindowLimit \in Nat \ {0}
  BY WindowAssumption DEF TypeOK, Entries
<1>1. /\ w \in Seq(Entries)
      /\ Len(w) = IF Known(k) THEN Len(window) - 1 ELSE Len(window)
  BY WithoutShape
<1>2. PICK from \in [1 .. Len(w) -> 1 .. Len(window)] :
        /\ \A j \in 1 .. Len(w) : w[j] = window[from[j]] /\ window[from[j]].key # k
        /\ \A i, j \in 1 .. Len(w) : i < j => from[i] < from[j]
        /\ \A i \in 1 .. Len(window) : window[i].key # k => \E j \in 1 .. Len(w) : from[j] = i
  BY WithoutShape
<1>3. window' = IF Len(moved) > WindowLimit THEN Tail(moved) ELSE moved
  BY DEF Remember
<1>4. Known(k) => Len(window) # 0
  BY DEF Known
<1>5. e \in Entries
  BY DEF Entries
<1> HIDE DEF w, e
<1>6. /\ moved \in Seq(Entries) /\ Len(moved) = Len(w) + 1 /\ moved[Len(w) + 1] = e
      /\ \A j \in 1 .. Len(w) : moved[j] = w[j]
  BY <1>1, <1>5
<1>7. Len(w) \in Nat /\ Len(w) <= Len(window) /\ Len(window) <= Len(w) + 1
  BY <1>0, <1>1, <1>4
<1> HIDE DEF moved
<1>8. CASE Len(moved) <= WindowLimit
  <2>1. window' = moved
    BY <1>0, <1>3, <1>6, <1>7, <1>8
  <2>2. Len(window') - 1 = Len(w)
    BY <1>6, <1>7, <2>1
  <2>3. from \in [1 .. Len(window') - 1 -> 1 .. Len(window)]
    BY <2>2
  <2>4. CameFrom(from, k)
    BY <1>2, <1>6, <2>1, <2>2, <2>3 DEF CameFrom
  <2>5. /\ window' \in Seq(Entries) /\ Len(window') \in 1 .. WindowLimit
        /\ Len(window) <= Len(window') /\ window'[Len(window')] = e
    BY <1>0, <1>6, <1>7, <1>8, <2>1
  <2> QED
    BY <2>4, <2>5 DEF e
<1>9. CASE ~(Len(moved) <= WindowLimit)
  <2> DEFINE later == [j \in 1 .. Len(w) - 1 |-> from[j + 1]]
  <2>1. window' = Tail(moved) /\ Len(w) = WindowLimit /\ Len(window) = WindowLimit
    BY <1>0, <1>3, <1>6, <1>7, <1>9
  <2>2. /\ window' \in Seq(Entries) /\ Len(window') = Len(w)
        /\ \A j \in 1 .. Len(w) : window'[j] = moved[j + 1]
    BY <1>0, <1>6, <2>1
  <2>3. window'[Len(window')] = e
    BY <1>0, <1>6, <2>1, <2>2
  <2>4. later \in [1 .. Len(w) - 1 -> 1 .. Len(window)]
    BY <1>2, <1>7
  <2>5. \A j \in 1 .. Len(w) - 1 : window'[j] = window[later[j]] /\ window[later[j]].key # k
    BY <1>2, <1>6, <1>7, <2>2
  <2>6. \A i, j \in 1 .. Len(w) - 1 : i < j => later[i] < later[j]
    BY <1>2, <1>7
  <2>7. ASSUME NEW i \in 1 .. Len(window), window[i].key # k
        PROVE  \/ \E j \in 1 .. Len(w) - 1 : later[j] = i
               \/ \A j \in 1 .. Len(w) - 1 : i < later[j]
    <3>1. PICK j \in 1 .. Len(w) : from[j] = i
      BY <1>2, <2>7
    <3>2. CASE j = 1
      BY <1>2, <1>7, <3>1, <3>2
    <3>3. CASE j # 1
      <4>1. j - 1 \in 1 .. Len(w) - 1 /\ later[j - 1] = i
        BY <1>7, <3>1, <3>3
      <4> QED
        BY <4>1
    <3> QED
      BY <3>2, <3>3
  <2> HIDE DEF later
  <2>8. Len(window') = WindowLimit /\ Len(window') - 1 = Len(w) - 1
    BY <2>1, <2>2
  <2>9. later \in [1 .. Len(window') - 1 -> 1 .. Len(window)]
    BY <2>4, <2>8
  <2>10. CameFrom(later, k)
    BY <2>5, <2>6, <2>7, <2>8, <2>9 DEF CameFrom
  <2>11. Len(window') \in 1 .. WindowLimit /\ Len(window) <= Len(window')
    BY <1>0, <2>1, <2>8
  <2> QED
    BY <2>2, <2>3, <2>10, <2>11 DEF e
<1> QED
  BY <1>8, <1>9

-----------------------------------------------------------------------------
(* The order of execution *)

\* After a message is executed it is the last of its key, and what was the last
\* of another key still is.
LEMMA LastMoves ==
  ASSUME TypeOK, NEW k \in Keys, NEW e \in Executions, e.key = k, log' = Append(log, e),
         NEW n, NEW l
  PROVE  IsLast(log', n, l) <=> IF l = k THEN n = Len(log) + 1 ELSE IsLast(log, n, l)
<1>1. /\ Len(log) \in Nat /\ Len(log') = Len(log) + 1
      /\ log'[Len(log) + 1] = e
      /\ \A m \in 1 .. Len(log) : log'[m] = log[m]
  BY DEF TypeOK
<1>2. CASE l = k
  <2>1. IsLast(log', n, l) => n = Len(log) + 1
    BY <1>1, <1>2 DEF IsLast
  <2>2. n = Len(log) + 1 => IsLast(log', n, l)
    BY <1>1, <1>2 DEF IsLast
  <2> QED
    BY <1>2, <2>1, <2>2
<1>3. CASE l # k
  <2>1. ASSUME IsLast(log', n, l)
        PROVE  IsLast(log, n, l)
    <3>1. n \in 1 .. Len(log)
      BY <1>1, <1>3, <2>1 DEF IsLast
    <3> QED
      BY <1>1, <1>3, <2>1, <3>1 DEF IsLast
  <2>2. ASSUME IsLast(log, n, l)
        PROVE  IsLast(log', n, l)
    BY <1>1, <1>3, <2>2 DEF IsLast
  <2> QED
    BY <1>3, <2>1, <2>2
<1> QED
  BY <1>2, <1>3

\* An execution keeps the window what it should be.
LEMMA RecentKeeps ==
  ASSUME TypeOK, WindowIsRecent, NEW k \in Keys, NEW d \in Digests,
         NEW e \in Executions, e.key = k, e.digest = d, log' = Append(log, e), Remember(k, d)
  PROVE  WindowIsRecent'
<1> DEFINE last == Len(window')
           now == Len(log) + 1
<1>1. /\ Len(log) \in Nat /\ Len(log') = now /\ log'[now] = e
      /\ \A m \in 1 .. Len(log) : log'[m] = log[m]
  BY DEF TypeOK
<1>2. /\ last \in 1 .. WindowLimit /\ Len(window) \in Nat /\ Len(window) <= last
      /\ Len(window) <= WindowLimit /\ window'[last].key = k /\ window'[last].digest = d
      /\ WindowLimit \in Nat
  <2>1. Len(window) \in Nat /\ Len(window) <= WindowLimit /\ WindowLimit \in Nat
    BY WindowAssumption DEF TypeOK
  <2>2. /\ last \in 1 .. WindowLimit /\ Len(window) <= last
        /\ window'[last] = [key |-> k, digest |-> d]
    BY RememberShape
  <2> QED
    BY <2>1, <2>2
<1>3. PICK from : CameFrom(from, k)
  BY RememberShape
<1>4. \A i \in 1 .. last - 1 :
        /\ from[i] \in 1 .. Len(window) /\ window'[i] = window[from[i]]
        /\ window'[i].key # k
  BY <1>3 DEF CameFrom
<1>5. \A n, l : IsLast(log', n, l) <=> IF l = k THEN n = now ELSE IsLast(log, n, l)
  BY LastMoves
<1>6. \A n, l : IsLast(log, n, l) => n \in 1 .. Len(log)
  BY DEF IsLast
<1>7. ASSUME NEW i \in 1 .. last
      PROVE  \E n \in 1 .. Len(log') : IsLast(log', n, window'[i].key) /\ log'[n].digest = window'[i].digest
  <2>1. CASE i = last
    BY <1>1, <1>2, <1>5, <2>1
  <2>2. CASE i # last
    <3>1. i \in 1 .. last - 1
      BY <1>2, <2>2
    <3>2. PICK n \in 1 .. Len(log) :
            IsLast(log, n, window[from[i]].key) /\ log[n].digest = window[from[i]].digest
      BY <1>4, <3>1 DEF WindowIsRecent
    <3>3. n \in 1 .. Len(log') /\ log'[n].digest = window'[i].digest
      BY <1>1, <1>4, <3>1, <3>2
    <3>4. IsLast(log', n, window'[i].key)
      BY <1>4, <1>5, <3>1, <3>2
    <3> QED
      BY <3>3, <3>4
  <2> QED
    BY <2>1, <2>2
<1>8. ASSUME NEW i \in 1 .. last, NEW j \in 1 .. last, i < j,
             NEW m \in 1 .. Len(log'), NEW n \in 1 .. Len(log'),
             IsLast(log', m, window'[i].key), IsLast(log', n, window'[j].key)
      PROVE  m < n
  <2>1. i \in 1 .. last - 1
    BY <1>2, <1>8
  <2>2. IsLast(log, m, window[from[i]].key) /\ m \in 1 .. Len(log)
    BY <1>4, <1>5, <1>8, <1>6, <2>1
  <2>3. CASE j = last
    BY <1>1, <1>2, <1>5, <1>8, <2>2, <2>3
  <2>4. CASE j # last
    <3>1. j \in 1 .. last - 1
      BY <1>2, <2>4
    <3>2. IsLast(log, n, window[from[j]].key) /\ n \in 1 .. Len(log)
      BY <1>4, <1>5, <1>8, <1>6, <3>1
    <3>3. from[i] < from[j]
      BY <1>3, <1>8, <2>1, <3>1 DEF CameFrom
    <3>4. from[i] \in 1 .. Len(window) /\ from[j] \in 1 .. Len(window)
      BY <1>4, <2>1, <3>1
    <3> QED
      BY <2>2, <3>2, <3>3, <3>4 DEF WindowIsRecent
  <2> QED
    BY <2>3, <2>4
<1>9. ASSUME NEW n \in 1 .. Len(log'), log'[n].key \notin InWindow'
      PROVE  /\ last = WindowLimit
             /\ \A i \in 1 .. last, m \in 1 .. Len(log') : IsLast(log', m, window'[i].key) => n < m
  <2>1. \A i \in 1 .. last : window'[i].key # log'[n].key
    BY <1>9 DEF InWindow
  <2>2. log'[n].key # k /\ n \in 1 .. Len(log) /\ log'[n] = log[n]
    BY <1>1, <1>2, <2>1
  <2>3. last = WindowLimit
        /\ \A i \in 1 .. last - 1, m \in 1 .. Len(log) : IsLast(log, m, window[from[i]].key) => n < m
    <3>1. CASE log[n].key \notin InWindow
      <4>1. Len(window) = WindowLimit
            /\ \A i \in 1 .. Len(window), m \in 1 .. Len(log) : IsLast(log, m, window[i].key) => n < m
        BY <2>2, <3>1 DEF WindowIsRecent
      <4> QED
        BY <1>2, <1>4, <4>1
    <3>2. CASE log[n].key \in InWindow
      <4>1. PICK a \in 1 .. Len(window) : window[a].key = log[n].key
        BY <3>2 DEF InWindow
      <4>2. PICK b \in 1 .. Len(log) : IsLast(log, b, window[a].key)
        BY DEF WindowIsRecent
      <4>3. n <= b
        BY <2>2, <4>1, <4>2 DEF IsLast
      <4>4. \A j \in 1 .. last - 1 : from[j] # a
        BY <1>2, <1>4, <2>1, <2>2, <4>1
      <4>5. last = WindowLimit /\ \A j \in 1 .. last - 1 : a < from[j]
        BY <1>3, <2>2, <4>1, <4>4 DEF CameFrom
      <4>6. ASSUME NEW i \in 1 .. last - 1, NEW m \in 1 .. Len(log), IsLast(log, m, window[from[i]].key)
            PROVE  b < m
        BY <1>4, <4>2, <4>5, <4>6 DEF WindowIsRecent
      <4> QED
        BY <2>2, <4>3, <4>5, <4>6
    <3> QED
      BY <3>1, <3>2
  <2>4. ASSUME NEW i \in 1 .. last, NEW m \in 1 .. Len(log'), IsLast(log', m, window'[i].key)
        PROVE  n < m
    <3>1. CASE i = last
      BY <1>1, <1>2, <1>5, <2>2, <2>4, <3>1
    <3>2. CASE i # last
      <4>1. i \in 1 .. last - 1
        BY <1>2, <3>2
      <4>2. IsLast(log, m, window[from[i]].key) /\ m \in 1 .. Len(log)
        BY <1>4, <1>5, <1>6, <2>4, <4>1
      <4> QED
        BY <2>3, <4>1, <4>2
    <3> QED
      BY <3>1, <3>2
  <2> QED
    BY <2>3, <2>4
<1> QED
  BY <1>7, <1>8, <1>9 DEF WindowIsRecent

\* Between an execution the window has forgotten and the present, at least
\* WindowLimit messages were executed.
LEMMA ForgottenIsFar ==
  ASSUME TypeOK, WindowIsRecent, NEW m \in 1 .. Len(log), log[m].key \notin InWindow
  PROVE  ~(Cardinality({log[l].key : l \in m + 1 .. Len(log)}) < WindowLimit)
<1> DEFINE later == {log[l].key : l \in m + 1 .. Len(log)}
           f == [i \in 1 .. WindowLimit |-> window[i].key]
           g == [l \in m + 1 .. Len(log) |-> log[l].key]
<1>1. /\ Len(log) \in Nat /\ WindowLimit \in Nat /\ Len(window) = WindowLimit
      /\ \A i \in 1 .. WindowLimit, n \in 1 .. Len(log) : IsLast(log, n, window[i].key) => m < n
  <2>1. Len(log) \in Nat /\ WindowLimit \in Nat
    BY WindowAssumption DEF TypeOK
  <2>2. \A n \in 1 .. Len(log) : log[n].key \notin InWindow =>
          /\ Len(window) = WindowLimit
          /\ \A i \in 1 .. Len(window), l \in 1 .. Len(log) : IsLast(log, l, window[i].key) => n < l
    BY Zenon DEF WindowIsRecent
  <2>3. /\ Len(window) = WindowLimit
        /\ \A i \in 1 .. Len(window), l \in 1 .. Len(log) : IsLast(log, l, window[i].key) => m < l
    BY <2>2, Zenon
  <2> QED
    BY <2>1, <2>3, Zenon
<1>2. IsFiniteSet(later)
  <2>1. g \in Surjection(m + 1 .. Len(log), later)
    BY DEF Surjection
  <2>2. IsFiniteSet(m + 1 .. Len(log))
    BY <1>1, FS_Interval
  <2> QED
    BY <2>1, <2>2, FS_Surjection
<1>3. f \in Injection(1 .. WindowLimit, later)
  <2>1. ASSUME NEW i \in 1 .. WindowLimit
        PROVE  window[i].key \in later
    <3>1. PICK n \in 1 .. Len(log) : IsLast(log, n, window[i].key)
      BY <1>1 DEF WindowIsRecent
    <3>2. n \in m + 1 .. Len(log) /\ log[n].key = window[i].key
      BY <1>1, <3>1 DEF IsLast
    <3> QED
      BY <3>2
  <2>2. \A i, j \in 1 .. WindowLimit : i # j => window[i].key # window[j].key
    BY <1>1, KeysDiffer
  <2> HIDE DEF later
  <2>3. f \in [1 .. WindowLimit -> later]
    BY <2>1
  <2>4. \A i, j \in 1 .. WindowLimit : f[i] = f[j] => i = j
    BY <2>2
  <2> HIDE DEF f
  <2> QED
    BY <2>3, <2>4 DEF Injection, IsInjective
<1>4. Cardinality(1 .. WindowLimit) = WindowLimit
  BY <1>1, FS_Interval
<1>5. Cardinality(1 .. WindowLimit) <= Cardinality(later) /\ Cardinality(later) \in Nat
  BY <1>2, <1>3, FS_Injection, FS_CardinalityType
<1> QED
  BY <1>1, <1>4, <1>5

-----------------------------------------------------------------------------
(* Steps *)

\* What an execution adds.
LEMMA ExecuteKeeps ==
  ASSUME TypeOK, WindowIsRecent, NEW k \in Keys, NEW d \in Digests, Execute(k, d)
  PROVE  /\ window' \in Seq(Entries) /\ Len(window') <= WindowLimit
         /\ log' \in Seq(Executions)
         /\ Len(log') = Len(log) + 1
         /\ log'[Len(log) + 1] = [key |-> k, digest |-> d, epoch |-> epoch]
         /\ \A n \in 1 .. Len(log) : log'[n] = log[n]
         /\ WindowIsRecent'
<1> DEFINE e == [key |-> k, digest |-> d, epoch |-> epoch]
<1>1. e \in Executions /\ e.key = k /\ e.digest = d
  BY DEF TypeOK, Executions
<1>2. log \in Seq(Executions) /\ log' = Append(log, e) /\ Remember(k, d)
  BY DEF TypeOK, Execute
<1>3. window' \in Seq(Entries) /\ Len(window') \in 1 .. WindowLimit
  BY <1>2, RememberShape
<1> HIDE DEF e
<1>4. WindowIsRecent'
  BY <1>1, <1>2, RecentKeeps
<1>5. /\ log' \in Seq(Executions) /\ Len(log') = Len(log) + 1 /\ log'[Len(log) + 1] = e
      /\ \A n \in 1 .. Len(log) : log'[n] = log[n]
  BY <1>1, <1>2
<1>6. Len(window') <= WindowLimit
  BY <1>3, WindowAssumption
<1> QED
  BY <1>3, <1>4, <1>5, <1>6 DEF e

\* A connection that is dropped is no longer the room's game.
LEMMA DropKeeps ==
  ASSUME TypeOK, LinkPart, NEW x \in Clients, Drop(x)
  PROVE  /\ link' \in [Clients -> {"new", "open", "ended"}]
         /\ game' \in Games \cup {None} /\ ready' \in BOOLEAN
         /\ LinkPart'
         /\ game' # None => game' = game /\ ready' = ready
<1>1. /\ link \in [Clients -> {"new", "open", "ended"}] /\ game \in Games \cup {None}
      /\ ready \in BOOLEAN
  BY DEF TypeOK
<1>2. Games \subseteq Clients /\ None \notin Clients
  BY ClientAssumption DEF Clients
<1>3. /\ link' = [link EXCEPT ![x] = "ended"]
      /\ game' = IF game = x THEN None ELSE game
      /\ ready' = IF game = x THEN FALSE ELSE ready
  BY DEF Drop
<1>4. LinkPart'
  <2>1. \A g \in Games : link'[g] = "open" => game' = g
    BY <1>1, <1>2, <1>3 DEF LinkPart
  <2>2. game' # None => link'[game'] = "open"
    BY <1>1, <1>2, <1>3 DEF LinkPart
  <2>3. ready' => game' # None
    BY <1>1, <1>2, <1>3 DEF LinkPart
  <2> QED
    BY <2>1, <2>2, <2>3 DEF LinkPart
<1> QED
  BY <1>1, <1>2, <1>3, <1>4

\* Whatever a client's message may have for a key is one.
LEMMA KeyTypes ==
  ASSUME NEW x \in Clients, NEW k \in KeysOf(x)
  PROVE  k \in Keys
BY InstanceAssumption DEF KeysOf, Keys

\* Whatever x may do without a message being executed.
Quiet(x) ==
  \/ ConnectGame(x) /\ x \in Games
  \/ (ConnectBot(x) \/ CastRefused(x)) /\ x \in Bots
  \/ HandshakeFails(x) \/ Leaves(x) \/ Fatal(x)
  \/ \E k \in KeysOf(x), d \in Digests :
       \/ CastArrives(x, k, d) /\ x \in Bots
       \/ Reuses(x, k, d)
       \/ GameTooEarly(x, k, d) /\ x \in Games

\* What a step of the room may do besides executing a message: registering a
\* game, dropping a connection, or saving a vote of a game's session.
LEMMA QuietKeeps ==
  ASSUME TypeOK, LinkPart, EpochPart, NEW x \in Clients, Quiet(x)
  PROVE  TypeOK' /\ LinkPart' /\ EpochPart' /\ UNCHANGED <<window, log>>
<1>0. /\ Games \subseteq Clients /\ Bots \subseteq Clients /\ None \notin Clients
      /\ Games \cap Bots = {}
  BY ClientAssumption DEF Clients
<1>1. CASE ConnectGame(x) /\ x \in Games
  <2>1. /\ link' = [link EXCEPT ![x] = "open"] /\ game = None /\ game' = x
        /\ ready' = (epoch = 0) /\ epoch' = epoch + 1
        /\ UNCHANGED <<saving, rows, window, log>>
    BY <1>1 DEF ConnectGame
  <2>2. TypeOK'
    BY <1>0, <1>1, <2>1 DEF TypeOK
  <2>3. LinkPart'
    BY <1>0, <1>1, <2>1 DEF TypeOK, LinkPart
  <2>4. EpochPart'
    <3>1. epoch \in Nat /\ saving \in [Bots -> Executions \cup {None}] /\ log \in Seq(Executions)
      BY DEF TypeOK
    <3>2. ASSUME NEW n \in 1 .. Len(log)
          PROVE  log[n].epoch \in Nat /\ log[n].epoch <= epoch
      <4>1. log[n] \in Executions
        BY <3>1
      <4> QED
        BY <4>1 DEF EpochPart, Executions
    <3>3. \A b \in Bots : saving[b] # None => saving[b].epoch \in Nat /\ saving[b].epoch <= epoch
      BY <3>1 DEF EpochPart, Executions
    <3> QED
      BY <2>1, <3>1, <3>2, <3>3 DEF EpochPart
  <2> QED
    BY <2>1, <2>2, <2>3, <2>4
<1>2. CASE (ConnectBot(x) /\ x \in Bots) \/ HandshakeFails(x)
  <2>1. /\ link[x] = "new" /\ link' \in [Clients -> {"new", "open", "ended"}]
        /\ \A y \in Clients : y # x => link'[y] = link[y]
        /\ x \in Bots \/ link'[x] = "ended"
        /\ UNCHANGED <<game, ready, epoch, saving, rows, window, log>>
    BY <1>2 DEF ConnectBot, HandshakeFails, TypeOK
  <2>2. TypeOK'
    BY <2>1 DEF TypeOK
  <2>3. LinkPart'
    BY <1>0, <2>1 DEF TypeOK, LinkPart
  <2>4. EpochPart'
    BY <2>1 DEF EpochPart
  <2> QED
    BY <2>1, <2>2, <2>3, <2>4
<1>3. CASE /\ Drop(x)
           /\ UNCHANGED <<epoch, saving, rows, window, log>>
  <2>1. TypeOK'
    BY <1>3, DropKeeps DEF TypeOK
  <2>2. LinkPart'
    BY <1>3, DropKeeps
  <2>3. EpochPart'
    BY <1>3, DropKeeps DEF EpochPart
  <2> QED
    BY <1>3, <2>1, <2>2, <2>3
<1>4. ASSUME NEW k \in KeysOf(x), NEW d \in Digests, CastArrives(x, k, d), x \in Bots
      PROVE  TypeOK' /\ LinkPart' /\ EpochPart' /\ UNCHANGED <<window, log>>
  <2>1. /\ saving' = [saving EXCEPT ![x] = [key |-> k, digest |-> d, epoch |-> epoch]]
        /\ ready /\ UNCHANGED <<link, game, ready, epoch, rows, window, log>>
    BY <1>4 DEF CastArrives
  <2>2. [key |-> k, digest |-> d, epoch |-> epoch] \in Executions
    BY KeyTypes DEF TypeOK, Executions
  <2>3. TypeOK'
    BY <2>1, <2>2 DEF TypeOK
  <2>4. LinkPart'
    BY <2>1 DEF LinkPart
  <2>5. EpochPart'
    BY <1>4, <2>1 DEF TypeOK, EpochPart
  <2> QED
    BY <2>1, <2>3, <2>4, <2>5
<1>5. CASE CastRefused(x) /\ x \in Bots
  <2>1. /\ saving[x] # None /\ saving' = [saving EXCEPT ![x] = None]
        /\ rows' \in {rows, rows \cup {saving[x].digest.content}}
        /\ UNCHANGED <<link, game, ready, epoch, window, log>>
    BY <1>5 DEF CastRefused
  <2>2. saving[x].digest.content \in Contents
    BY <1>5, <2>1 DEF TypeOK, Executions, Digests
  <2>3. TypeOK'
    BY <2>1, <2>2 DEF TypeOK
  <2>4. LinkPart'
    BY <2>1 DEF LinkPart
  <2>5. EpochPart'
    BY <1>5, <2>1 DEF TypeOK, EpochPart
  <2> QED
    BY <2>1, <2>3, <2>4, <2>5
<1> QED
  BY <1>1, <1>2, <1>3, <1>4, <1>5 DEF Quiet, Leaves, Fatal, Reuses, GameTooEarly

\* The steps that execute a message: those of the room's game make it ready, a
\* vote is of a session in which the game was.
LEMMA RoomKeeps ==
  ASSUME TypeOK, LinkPart, EpochPart, WindowIsRecent,
         NEW x \in Clients,
         \/ x \in Games /\ \E k \in KeysOf(x), d \in Digests : GameExecutes(x, k, d)
         \/ x \in Bots /\ CastExecutes(x)
  PROVE  TypeOK' /\ LinkPart' /\ EpochPart' /\ WindowIsRecent'
<1>0. /\ Games \subseteq Clients /\ Bots \subseteq Clients /\ None \notin Clients
  BY ClientAssumption DEF Clients
<1>1. ASSUME NEW k \in Keys, NEW c \in Digests, Execute(k, c), UNCHANGED epoch,
             \A b \in Bots : saving'[b] \in {saving[b], None},
             game' # None => game' = game /\ ready'
      PROVE  WindowIsRecent' /\ EpochPart' /\ log' \in Seq(Executions)
             /\ window' \in Seq(Entries) /\ Len(window') <= WindowLimit
  <2>1. /\ window' \in Seq(Entries) /\ Len(window') <= WindowLimit
        /\ log' \in Seq(Executions)
        /\ Len(log') = Len(log) + 1
        /\ log'[Len(log) + 1] = [key |-> k, digest |-> c, epoch |-> epoch]
        /\ \A n \in 1 .. Len(log) : log'[n] = log[n]
        /\ WindowIsRecent'
    BY <1>1, ExecuteKeeps
  <2>2. epoch \in Nat /\ Len(log) \in Nat /\ epoch' = epoch
    BY <1>1 DEF TypeOK
  <2>3. log'[Len(log) + 1].epoch = epoch
    BY <2>1
  <2>4. ASSUME NEW n \in 1 .. Len(log')
        PROVE  log'[n].epoch <= epoch /\ (log'[n].epoch = epoch /\ game' # None => ready')
    <3>1. CASE n = Len(log) + 1
      BY <1>1, <2>2, <2>3, <3>1
    <3>2. CASE n # Len(log) + 1
      <4>1. n \in 1 .. Len(log) /\ log'[n] = log[n]
        BY <2>1, <2>2, <3>2
      <4> QED
        BY <1>1, <4>1 DEF EpochPart
    <3> QED
      BY <3>1, <3>2
  <2>5. \A b \in Bots : saving'[b] # None =>
          saving'[b].epoch <= epoch /\ (saving'[b].epoch = epoch /\ game' # None => ready')
    BY <1>1 DEF EpochPart
  <2> QED
    BY <2>1, <2>2, <2>4, <2>5 DEF EpochPart
<1>2. ASSUME x \in Games, NEW k \in KeysOf(x), NEW d \in Digests, GameExecutes(x, k, d)
      PROVE  TypeOK' /\ LinkPart' /\ EpochPart' /\ WindowIsRecent'
  <2>1. /\ Execute(k, d) /\ ready' = TRUE /\ link[x] = "open"
        /\ UNCHANGED <<link, game, epoch, saving, rows>>
    BY <1>2 DEF GameExecutes, Reads
  <2>2. k \in Keys /\ game = x /\ x # None
    BY <1>0, <1>2, <2>1, KeyTypes DEF LinkPart
  <2>3. WindowIsRecent' /\ EpochPart' /\ log' \in Seq(Executions)
        /\ window' \in Seq(Entries) /\ Len(window') <= WindowLimit
    BY <1>1, <2>1, <2>2
  <2>4. TypeOK'
    BY <2>1, <2>3 DEF TypeOK, Entries
  <2>5. LinkPart'
    BY <2>1, <2>2 DEF LinkPart
  <2> QED
    BY <2>3, <2>4, <2>5
<1>3. CASE x \in Bots /\ CastExecutes(x)
  <2>1. /\ saving[x] # None /\ saving[x].epoch = epoch /\ game # None
        /\ rows' = rows \cup {saving[x].digest.content}
        /\ Execute(saving[x].key, saving[x].digest)
        /\ saving' = [saving EXCEPT ![x] = None]
        /\ UNCHANGED <<link, game, ready>> \/ Drop(game)
        /\ UNCHANGED epoch
    BY <1>3 DEF CastExecutes
  <2>2. saving[x] \in Executions /\ ready
    BY <1>3, <2>1 DEF TypeOK, EpochPart
  <2>3. saving[x].key \in Keys /\ saving[x].digest \in Digests /\ saving[x].digest.content \in Contents
    BY <2>2 DEF Executions, Digests
  <2>4. game \in Clients
    BY <1>0, <2>1 DEF TypeOK
  <2>5. /\ link' \in [Clients -> {"new", "open", "ended"}]
        /\ game' \in Games \cup {None} /\ ready' \in BOOLEAN
        /\ LinkPart'
        /\ game' # None => game' = game /\ ready'
    <3>1. CASE UNCHANGED <<link, game, ready>>
      BY <2>2, <3>1 DEF TypeOK, LinkPart
    <3>2. CASE Drop(game)
      BY <2>2, <2>4, <3>2, DropKeeps
    <3> QED
      BY <2>1, <3>1, <3>2
  <2>6. \A b \in Bots : saving'[b] \in {saving[b], None}
    BY <2>1 DEF TypeOK
  <2>7. WindowIsRecent' /\ EpochPart' /\ log' \in Seq(Executions)
        /\ window' \in Seq(Entries) /\ Len(window') <= WindowLimit
    BY <1>1, <2>1, <2>3, <2>5, <2>6
  <2>8. TypeOK'
    BY <2>1, <2>3, <2>5, <2>7 DEF TypeOK, Entries
  <2> QED
    BY <2>5, <2>7, <2>8
<1> QED
  BY <1>2, <1>3

\* Votes enter saving as votes.
LEMMA CastKeeps ==
  ASSUME TypeOK, CastPart, [Next]_vars
  PROVE  CastPart'
<1>1. ASSUME NEW b \in Bots, saving'[b] # None
      PROVE  saving'[b] = saving[b] \/ saving'[b].digest.kind = "cast"
  <2>1. ASSUME NEW c \in Bots, NEW k \in KeysOf(c), NEW d \in Digests, CastArrives(c, k, d)
        PROVE  saving'[b] = saving[b] \/ saving'[b].digest.kind = "cast"
    BY <2>1 DEF CastArrives, TypeOK
  <2>2. ASSUME NEW c \in Bots, CastExecutes(c) \/ CastRefused(c)
        PROVE  saving'[b] = saving[b]
    BY <1>1, <2>2 DEF CastExecutes, CastRefused, TypeOK
  <2>3. CASE UNCHANGED saving
    BY <2>3
  <2> QED
    BY <2>1, <2>2, <2>3
       DEF Next, ConnectGame, ConnectBot, HandshakeFails, Leaves, Fatal, Reuses, GameExecutes,
           GameTooEarly, vars
<1> QED
  BY <1>1 DEF CastPart

-----------------------------------------------------------------------------
(* Replays *)

KeysBetween(run, m, n) == {run[l].key : l \in m + 1 .. n - 1}

\* Fewer messages lie between two executions than between the first and the end.
LEMMA BetweenIsLess ==
  ASSUME TypeOK, NEW m \in 1 .. Len(log), NEW n \in 1 .. Len(log)
  PROVE  /\ Cardinality(KeysBetween(log, m, n)) \in Nat
         /\ Cardinality(KeysBetween(log, m, Len(log) + 1)) \in Nat
         /\ Cardinality(KeysBetween(log, m, n)) <= Cardinality(KeysBetween(log, m, Len(log) + 1))
<1> DEFINE S == KeysBetween(log, m, Len(log) + 1)
           g == [l \in m + 1 .. Len(log) |-> log[l].key]
<1>1. Len(log) \in Nat
  BY DEF TypeOK
<1>2. S = {log[l].key : l \in m + 1 .. Len(log)}
  BY <1>1 DEF KeysBetween
<1>3. IsFiniteSet(S)
  <2>1. g \in Surjection(m + 1 .. Len(log), {log[l].key : l \in m + 1 .. Len(log)})
    BY DEF Surjection
  <2>2. IsFiniteSet(m + 1 .. Len(log))
    BY <1>1, FS_Interval
  <2> HIDE DEF g
  <2> QED
    BY <1>2, <2>1, <2>2, FS_Surjection
<1>4. KeysBetween(log, m, n) \in SUBSET S
  BY <1>1 DEF KeysBetween
<1> HIDE DEF S
<1> QED
  BY <1>3, <1>4, FS_Subset, FS_CardinalityType DEF S

\* Executing one more message replays nothing if the new execution does not
\* replay an old one.
LEMMA OneMore ==
  ASSUME TypeOK, NoReplay, NEW e \in Executions, log' = Append(log, e),
         \A m \in 1 .. Len(log) :
           /\ log[m].key = e.key /\ e.digest.kind # "cast"
           /\ Cardinality(KeysBetween(log, m, Len(log) + 1)) < WindowLimit
           => e.digest = log[m].digest /\ e.digest.kind = "sync" /\ log[m].epoch # e.epoch
  PROVE  NoReplay'
<1>1. /\ Len(log) \in Nat /\ Len(log') = Len(log) + 1 /\ log'[Len(log) + 1] = e
      /\ \A m \in 1 .. Len(log) : log'[m] = log[m]
  BY DEF TypeOK
<1>2. ASSUME NEW m \in 1 .. Len(log'), NEW n \in 1 .. Len(log'), m < n
      PROVE  KeysBetween(log', m, n) = KeysBetween(log, m, n)
  BY <1>1, <1>2 DEF KeysBetween
<1>3. SUFFICES ASSUME NEW m \in 1 .. Len(log'), NEW n \in 1 .. Len(log'), m < n,
                      log'[m].key = log'[n].key, log'[n].digest.kind # "cast",
                      Cardinality(KeysBetween(log', m, n)) < WindowLimit
               PROVE  /\ log'[n].digest = log'[m].digest /\ log'[n].digest.kind = "sync"
                      /\ log'[m].epoch # log'[n].epoch
  BY DEF NoReplay, WithinWindow, KeysBetween
<1>4. Cardinality(KeysBetween(log, m, n)) < WindowLimit /\ m \in 1 .. Len(log)
  BY <1>1, <1>2, <1>3
<1>5. CASE n = Len(log) + 1
  BY <1>1, <1>3, <1>4, <1>5
<1>6. CASE n # Len(log) + 1
  <2>1. n \in 1 .. Len(log) /\ log'[n] = log[n] /\ log'[m] = log[m]
    BY <1>1, <1>4, <1>6
  <2>2. WithinWindow(m, n)
    BY <1>4 DEF WithinWindow, KeysBetween
  <2> QED
    BY <1>3, <1>4, <2>1, <2>2 DEF NoReplay
<1> QED
  BY <1>5, <1>6

\* A game's message is executed if the window does not know it, and then the last
\* time is out of reach; or if it is the first sync of its session.
LEMMA GameReplaysNothing ==
  ASSUME DispatchInv, NEW x \in Games, NEW k \in KeysOf(x), NEW d \in Digests, GameExecutes(x, k, d)
  PROVE  NoReplay'
<1> DEFINE e == [key |-> k, digest |-> d, epoch |-> epoch]
<1>1. /\ TypeOK /\ LinkPart /\ EpochPart /\ WindowIsRecent /\ NoReplay /\ x \in Clients
      /\ game = x /\ x # None
  BY ClientAssumption DEF DispatchInv, LinkPart, GameExecutes, Reads, Clients
<1>2. /\ \/ ~Known(k)
         \/ SameAsKnown(k, d) /\ d.kind = "sync" /\ ~ready
      /\ log' = Append(log, e)
  BY DEF GameExecutes, Execute
<1>3. e \in Executions /\ e.key = k /\ e.digest = d /\ e.epoch = epoch
  BY <1>1, KeyTypes DEF Executions, TypeOK
<1>4. Len(log) \in Nat /\ WindowLimit \in Nat
  BY <1>1, WindowAssumption DEF TypeOK
<1> HIDE DEF e
<1>5. ASSUME NEW m \in 1 .. Len(log), log[m].key = k,
             Cardinality(KeysBetween(log, m, Len(log) + 1)) < WindowLimit
      PROVE  d = log[m].digest /\ d.kind = "sync" /\ log[m].epoch # epoch
  <2>1. Known(k)
    <3>1. KeysBetween(log, m, Len(log) + 1) = {log[l].key : l \in m + 1 .. Len(log)}
      BY <1>4 DEF KeysBetween
    <3>2. k \in InWindow
      BY <1>1, <1>5, <3>1, ForgottenIsFar
    <3> QED
      BY <3>2 DEF InWindow, Known
  <2>2. SameAsKnown(k, d) /\ d.kind = "sync" /\ ~ready
    BY <1>2, <2>1
  <2>3. log[m].epoch # epoch
    BY <1>1, <2>2 DEF EpochPart
  <2>4. PICK i \in 1 .. Len(window) : window[i].key = k /\ window[i].digest = d
    BY <2>2 DEF SameAsKnown
  <2>5. PICK n \in 1 .. Len(log) : IsLast(log, n, k) /\ log[n].digest = d
    BY <1>1, <2>4 DEF WindowIsRecent
  <2>6. log[n].key = k /\ m <= n
    BY <1>4, <1>5, <2>5 DEF IsLast
  <2>7. log[n].digest = log[m].digest
    <3>1. CASE m = n
      BY <3>1
    <3>2. CASE m < n
      <4>1. Cardinality(KeysBetween(log, m, n)) < WindowLimit
        BY <1>1, <1>4, <1>5, BetweenIsLess
      <4>2. WithinWindow(m, n)
        BY <4>1 DEF WithinWindow, KeysBetween
      <4> QED
        BY <1>1, <1>5, <2>2, <2>5, <2>6, <3>2, <4>2 DEF NoReplay
    <3> QED
      BY <2>6, <3>1, <3>2
  <2> QED
    BY <2>2, <2>3, <2>5, <2>7
<1> QED
  BY <1>1, <1>2, <1>3, <1>5, OneMore

-----------------------------------------------------------------------------
(* The theorems *)

\* The invariant holds at the start.
LEMMA InitDispatchInv == Init => DispatchInv
<1>1. SUFFICES ASSUME Init
               PROVE  DispatchInv
  OBVIOUS
<1>2. log = <<>> /\ window = <<>> /\ Len(log) = 0 /\ Len(window) = 0
  BY <1>1 DEF Init
<1>3. TypeOK
  <2>1. window \in Seq(Entries) /\ log \in Seq(Executions)
    BY <1>2
  <2>2. Len(window) <= WindowLimit
    BY <1>2, WindowAssumption
  <2>3. saving \in [Bots -> Executions \cup {None}] /\ rows \subseteq Contents /\ epoch \in Nat
    BY <1>1 DEF Init
  <2>4. link \in [Clients -> {"new", "open", "ended"}] /\ game \in Games \cup {None}
        /\ ready \in BOOLEAN
    BY <1>1 DEF Init
  <2> QED
    BY <2>1, <2>2, <2>3, <2>4 DEF TypeOK, Entries
<1>4. LinkPart /\ CastPart
  BY <1>1, ClientAssumption DEF Init, LinkPart, CastPart, Clients
<1>5. EpochPart /\ WindowIsRecent /\ NoReplay
  BY <1>1, <1>2 DEF Init, EpochPart, WindowIsRecent, NoReplay
<1> QED
  BY <1>3, <1>4, <1>5 DEF DispatchInv

\* Every step keeps it.
LEMMA NextDispatchInv == DispatchInv /\ [Next]_vars => DispatchInv'
<1>1. SUFFICES ASSUME DispatchInv, [Next]_vars
               PROVE  DispatchInv'
  OBVIOUS
<1>2. TypeOK /\ LinkPart /\ EpochPart /\ CastPart /\ WindowIsRecent /\ NoReplay
  BY <1>1 DEF DispatchInv
<1>3. CastPart'
  BY <1>1, <1>2, CastKeeps
<1>4. Games \subseteq Clients /\ Bots \subseteq Clients
  BY DEF Clients
<1>5. ASSUME UNCHANGED <<window, log>>
      PROVE  WindowIsRecent' /\ NoReplay'
  <2>1. window' = window /\ log' = log
    BY <1>5
  <2>2. InWindow' = InWindow
    BY <2>1 DEF InWindow
  <2>3. WindowIsRecent'
    BY ONLY <1>2, <2>1, <2>2, Zenon DEF WindowIsRecent
  <2>4. NoReplay'
    <3>1. ASSUME NEW m, NEW n
          PROVE  WithinWindow(m, n)' <=> WithinWindow(m, n)
      BY ONLY <2>1 DEF WithinWindow
    <3> QED
      BY ONLY <1>2, <2>1, <3>1 DEF NoReplay
  <2> QED
    BY <2>3, <2>4
<1>6. ASSUME NEW x \in Clients, Quiet(x)
      PROVE  DispatchInv'
  BY <1>2, <1>3, <1>5, <1>6, QuietKeeps DEF DispatchInv
<1>7. ASSUME NEW x \in Games, NEW k \in KeysOf(x), NEW d \in Digests, GameExecutes(x, k, d)
      PROVE  DispatchInv'
  BY <1>1, <1>2, <1>3, <1>4, <1>7, RoomKeeps, GameReplaysNothing DEF DispatchInv
<1>8. ASSUME NEW x \in Bots, CastExecutes(x)
      PROVE  DispatchInv'
  <2> DEFINE e == [key |-> saving[x].key, digest |-> saving[x].digest, epoch |-> epoch]
  <2>1. saving[x] \in Executions /\ saving[x].digest.kind = "cast" /\ epoch \in Nat
    BY <1>2, <1>8 DEF CastExecutes, CastPart, TypeOK
  <2>2. e \in Executions /\ e.digest.kind = "cast"
    BY <2>1 DEF Executions
  <2>3. log' = Append(log, e)
    BY <1>8 DEF CastExecutes, Execute
  <2> HIDE DEF e
  <2>4. NoReplay'
    BY <1>2, <2>2, <2>3, OneMore
  <2> QED
    BY <1>2, <1>3, <1>4, <1>8, <2>4, RoomKeeps DEF DispatchInv
<1>9. CASE UNCHANGED vars
  BY <1>2, <1>3, <1>5, <1>9 DEF DispatchInv, TypeOK, LinkPart, EpochPart, vars
<1> QED
  BY <1>1, <1>4, <1>6, <1>7, <1>8, <1>9 DEF Next, Quiet

\* The invariant holds in every reachable state of every room.
THEOREM DispatchInvCorrect == Spec => []DispatchInv
  BY InitDispatchInv, NextDispatchInv, PTL DEF Spec

\* The window is an idempotency memory as an OrderedDict should be: whatever
\* falls out is older than all that stays (hub.py: _dispatch).
THEOREM WindowIsRecentCorrect == Spec => []WindowIsRecent
<1>1. DispatchInv => WindowIsRecent
  BY DEF DispatchInv
<1> QED
  BY <1>1, DispatchInvCorrect, PTL

\* No message of a game is executed twice within the reach of the window, but the
\* game.sync that opens each of its sessions (hub.py: _dispatch, _register).
THEOREM NoReplayCorrect == Spec => []NoReplay
<1>1. DispatchInv => NoReplay
  BY DEF DispatchInv
<1> QED
  BY <1>1, DispatchInvCorrect, PTL

\* Every variable of the dispatch model holds a value of its type.
THEOREM DispatchTypeCorrect == Spec => []TypeOK
<1>1. DispatchInv => TypeOK
  BY DEF DispatchInv
<1> QED
  BY <1>1, DispatchInvCorrect, PTL
=============================================================================
