-------------------------- MODULE SupplyChainUnits --------------------------
(***************************************************************************)
(* What a unit of work of the supply-chain service reads, and what each of *)
(* its statements does to what it reads, for any number of processes,      *)
(* scenes, requests, copies and attempts.                                  *)
(*                                                                         *)
(* Amounts first: a total of rows is what they weigh, by induction over    *)
(* their number (Least), and everything a property sums (stock, rows of a  *)
(* key, verified payments) is such a weight.                               *)
(*                                                                         *)
(* The command bus: each statement ends in one of four ways (the unit goes *)
(* on, is refused, given up or run again), which keeps what the callers    *)
(* have been told (BusInv).                                                *)
(*                                                                         *)
(* The unit: what it has written but not committed must already be in      *)
(* order, for COMMIT checks nothing.  Local says so of one unit: its rows  *)
(* are those its statements insert, what it has noted of other rows still  *)
(* holds, and the stock it reads, with its own writes, is one the          *)
(* properties allow (the fence makes it the only writer of it).  Writing   *)
(* nothing, inserting a document, updating one, taking the fence and       *)
(* posting movements under it keep a unit in order, and two units Apart:   *)
(* they hold different locks.                                              *)
(*                                                                         *)
(* The statements, one lemma each: so every statement of every request     *)
(* keeps its unit in order and apart from its peers (StatementProgress).   *)
(***************************************************************************)
EXTENDS SupplyChain, TLAPS, WellFoundedInduction, SequenceTheorems

\* A set of naturals that is not empty has a least element.
LEMMA Least == ASSUME NEW T, T \subseteq Nat, T # {} PROVE \E m \in T : \A n \in T : m <= n
<1>1. PICK x \in T : \A y \in T : ~ (<<y, x>> \in OpToRel(<, Nat))
  BY ZenonT(40), NatLessThanWellFounded, WFMin
<1>2. \A y \in T : ~(y < x)
  BY ZenonT(40), <1>1 DEF OpToRel
<1> QED BY <1>2

\* s is the running total of the list up to n.
Runs(s, list, n) ==
  /\ s \in [0..n -> Int] /\ s[0] = 0
  /\ \A i \in 1..n : s[i] = s[i - 1] + list[i]

\* Every list of numbers has a running total, up to any of its items.
LEMMA RunsExist ==
  ASSUME NEW list \in Seq(Int), NEW n \in 0..Len(list)
  PROVE  \E s : Runs(s, list, n)
<1> DEFINE T == {m \in 0..Len(list) : ~\E s : Runs(s, list, m)}
<1>1. SUFFICES ASSUME T # {} PROVE FALSE
  OBVIOUS
<1>0. Len(list) \in Nat
  OBVIOUS
<1>2. PICK m \in T : \A k \in T : m <= k
  <2>1. T \subseteq Nat
    BY <1>0
  <2> HIDE DEF T
  <2> QED BY ZenonT(40), <1>1, <2>1, Least
<1>3. m \in 0..Len(list) /\ m \in Nat /\ ~\E s : Runs(s, list, m)
  BY <1>0, <1>2
<1>4. m # 0
  <2>1. Runs([i \in 0..0 |-> 0], list, 0)
    BY DEF Runs
  <2> QED BY <1>3, <2>1
<1>5. m - 1 \in 0..Len(list) /\ ~(m <= m - 1)
  BY <1>0, <1>3, <1>4
<1>6. m - 1 \notin T
  BY ZenonT(40), <1>2, <1>5
<1>7. PICK s : Runs(s, list, m - 1)
  BY <1>5, <1>6
<1>8. list[m] \in Int
  BY <1>0, <1>3, <1>4
<1>9. PICK u : u = [i \in 0..m |-> IF i = m THEN s[m - 1] + list[m] ELSE s[i]]
  OBVIOUS
<1>10. Runs(u, list, m)
  <2>1. s \in [0..(m - 1) -> Int] /\ s[0] = 0 /\ \A i \in 1..(m - 1) : s[i] = s[i - 1] + list[i]
    BY <1>7 DEF Runs
  <2>2. u \in [0..m -> Int] /\ u[0] = 0
    BY <1>3, <1>4, <1>8, <1>9, <2>1
  <2>3. u[m] = u[m - 1] + list[m]
    BY <1>3, <1>4, <1>9
  <2>4. ASSUME NEW i \in 1..m PROVE u[i] = u[i - 1] + list[i]
    <3>1. CASE i = m
      BY <2>3, <3>1
    <3>2. CASE i # m
      <4>1. i \in 1..(m - 1) /\ i - 1 \in 0..m /\ i \in 0..m /\ i - 1 # m
        BY <1>3, <1>4, <3>2
      <4> QED BY <1>9, <2>1, <3>2, <4>1
    <3> QED BY <3>1, <3>2
  <2> QED BY <2>2, <2>4 DEF Runs
<1> QED BY <1>3, <1>10

\* The sums of a list are its running total.
LEMMA SumsRun ==
  ASSUME NEW list \in Seq(Int)
  PROVE  Runs(Sums(list), list, Len(list))
<1>0. Len(list) \in Nat
  OBVIOUS
<1>1. PICK s : Runs(s, list, Len(list))
  BY <1>0, RunsExist
<1>2. s = [i \in 0..Len(list) |-> IF i = 0 THEN 0 ELSE s[i - 1] + list[i]]
  BY <1>0, <1>1 DEF Runs
<1>3. Sums(list) = [i \in 0..Len(list) |-> IF i = 0 THEN 0 ELSE Sums(list)[i - 1] + list[i]]
  BY ZenonT(40), <1>2 DEF Sums
<1>4. PICK r : r = Sums(list) /\ r = [i \in 0..Len(list) |-> IF i = 0 THEN 0 ELSE r[i - 1] + list[i]]
  BY ZenonT(40), <1>3
<1> DEFINE T == {i \in 0..Len(list) : r[i] # s[i]}
<1>5. T = {}
  <2>1. SUFFICES ASSUME T # {} PROVE FALSE
    OBVIOUS
  <2>2. PICK m \in T : \A k \in T : m <= k
    <3>1. T \subseteq Nat
      BY <1>0
    <3> HIDE DEF T
    <3> QED BY ZenonT(40), <2>1, <3>1, Least
  <2>3. m \in 0..Len(list) /\ r[m] # s[m]
    BY <2>2
  <2>4. m # 0
    BY <1>0, <1>1, <1>4, <2>3 DEF Runs
  <2>5. m - 1 \in 0..Len(list) /\ ~(m <= m - 1) /\ m \in 1..Len(list)
    BY <1>0, <2>3, <2>4
  <2>6. r[m - 1] = s[m - 1]
    BY <2>2, <2>5
  <2>7. r[m] = r[m - 1] + list[m] /\ s[m] = s[m - 1] + list[m]
    BY ZenonT(40), <1>1, <1>4, <2>3, <2>4, <2>5 DEF Runs
  <2> QED BY <2>3, <2>6, <2>7
<1>6. DOMAIN r = 0..Len(list) /\ DOMAIN s = 0..Len(list) /\ \A i \in 0..Len(list) : r[i] = s[i]
  BY ZenonT(40), <1>1, <1>4, <1>5 DEF Runs
<1>7. r = s
  BY <1>1, <1>4, <1>6 DEF Runs
<1> QED BY ZenonT(40), <1>1, <1>4, <1>7

\* r runs over l up to N, s over k up to M, and both lists have the same first n items.
Together(r, l, N, s, k, M, n) ==
  /\ N \in Nat /\ M \in Nat /\ n \in Nat /\ n <= N /\ n <= M
  /\ Runs(r, l, N) /\ Runs(s, k, M) /\ \A i \in 1..n : l[i] = k[i]

\* Two lists with the same first n items have the same running total up to n.
LEMMA RunsAgree ==
  ASSUME NEW l, NEW k, NEW N, NEW M, NEW n, NEW r, NEW s, Together(r, l, N, s, k, M, n)
  PROVE  r[n] = s[n]
<1>0. /\ N \in Nat /\ M \in Nat /\ n \in Nat /\ n <= N /\ n <= M
      /\ Runs(r, l, N) /\ Runs(s, k, M) /\ \A i \in 1..n : l[i] = k[i]
  BY DEF Together
<1> DEFINE T == {i \in 0..n : r[i] # s[i]}
<1>1. SUFFICES ASSUME T # {} PROVE FALSE
  <2>1. n \in 0..n
    BY <1>0
  <2> QED BY <2>1
<1>2. PICK m \in T : \A j \in T : m <= j
  <2>1. T \subseteq Nat
    BY <1>0
  <2> HIDE DEF T
  <2> QED BY ZenonT(40), <1>1, <2>1, Least
<1>3. m \in 0..n /\ r[m] # s[m]
  BY <1>2
<1>4. m # 0
  BY <1>0, <1>3 DEF Runs
<1>5. m - 1 \in 0..n /\ ~(m <= m - 1) /\ m \in 1..n /\ m \in 1..N /\ m \in 1..M
  BY <1>0, <1>3, <1>4
<1>6. r[m - 1] = s[m - 1]
  BY <1>2, <1>5
<1>7. r[m] = r[m - 1] + l[m] /\ s[m] = s[m - 1] + k[m] /\ l[m] = k[m]
  BY <1>0, <1>5 DEF Runs
<1> QED BY <1>3, <1>6, <1>7

\* A list that goes on after n items runs on from there.
LEMMA RunsMore ==
  ASSUME NEW l, NEW k, NEW n \in Nat, NEW m, m = n + 1, NEW r, NEW s, Runs(r, l, n),
         Runs(s, k, m), \A i \in 1..n : l[i] = k[i]
  PROVE  s[m] = r[n] + k[m]
<1>1. m \in Nat /\ n \in 0..m /\ m \in 1..m /\ m - 1 = n
  OBVIOUS
<1>2. Together(r, l, n, s, k, m, n)
  BY <1>1 DEF Together
<1>3. r[n] = s[n]
  BY <1>2, RunsAgree
<1>4. s[m] = s[n] + k[m]
  BY <1>1 DEF Runs
<1> QED BY <1>3, <1>4

\* w is the first n items of l followed by the first o numbers of k.
Joins(w, l, n, k, o) ==
  (\A i \in 1..n : l[i] = w[i]) /\ (\A i \in 1..o : w[n + i] = k[i] /\ k[i] \in Int)

\* A list that goes on with the items of another runs on as that one does.
LEMMA RunsJoin ==
  \A l, k, w \in Seq(Int) : \A r, s, t : \A n \in Nat, o \in Nat :
    Runs(r, l, n) /\ Runs(s, k, o) /\ Runs(t, w, n + o) /\ Joins(w, l, n, k, o) =>
      t[n + o] = r[n] + s[o]
<1> SUFFICES
      ASSUME NEW l \in Seq(Int), NEW k \in Seq(Int), NEW w \in Seq(Int),
             NEW r, NEW s, NEW t, NEW n \in Nat, NEW o \in Nat,
             Runs(r, l, n), Runs(s, k, o), Runs(t, w, n + o), Joins(w, l, n, k, o)
      PROVE  t[n + o] = r[n] + s[o]
  OBVIOUS
<1>1. (\A i \in 1..n : l[i] = w[i]) /\ (\A i \in 1..o : w[n + i] = k[i] /\ k[i] \in Int)
  BY DEF Joins
<1>4. r[n] = t[n]
  <2>1. n + o \in Nat /\ n \in 0..(n + o)
    OBVIOUS
  <2>2. Together(r, l, n, t, w, n + o, n)
    BY <1>1, <2>1 DEF Together
  <2> QED BY <2>2, RunsAgree
<1>5. r[n] \in Int /\ s[0] = 0
  BY DEF Runs
<1> DEFINE T == {i \in 0..o : t[n + i] # r[n] + s[i]}
<1>6. SUFFICES ASSUME T # {} PROVE FALSE
  <2>1. o \in 0..o
    OBVIOUS
  <2> QED BY ZenonT(40), <2>1
<1>7. PICK m \in T : \A j \in T : m <= j
  <2>1. T \subseteq Nat
    OBVIOUS
  <2> HIDE DEF T
  <2> QED BY ZenonT(40), <1>6, <2>1, Least
<1>8. m \in 0..o /\ t[n + m] # r[n] + s[m]
  BY <1>7
<1>9. m # 0
  BY <1>4, <1>5, <1>8
<1>10. m - 1 \in 0..o /\ ~(m <= m - 1) /\ m \in 1..o /\ n + m \in 1..(n + o) /\ n + m - 1 = n + (m - 1)
  BY <1>8, <1>9
<1>11. t[n + (m - 1)] = r[n] + s[m - 1]
  BY <1>7, <1>10
<1>12. t[n + m] = t[n + (m - 1)] + w[n + m]
  <2>1. t[n + m] = t[n + m - 1] + w[n + m]
    BY <1>10 DEF Runs
  <2> QED BY <1>10, <2>1
<1>13. s[m] = s[m - 1] + k[m] /\ w[n + m] = k[m] /\ s[m - 1] \in Int /\ k[m] \in Int
  BY <1>1, <1>10 DEF Runs
<1>14. PICK x \in Int, y \in Int, z \in Int : x = r[n] /\ y = s[m - 1] /\ z = k[m]
  BY ZenonT(40), <1>5, <1>13
<1>15. t[n + m] = (x + y) + z /\ s[m] = y + z
  BY <1>11, <1>12, <1>13, <1>14
<1>16. (x + y) + z = x + (y + z)
  OBVIOUS
<1> QED BY <1>8, <1>14, <1>15, <1>16

\* The total of numbers is a number, of none zero,
LEMMA TotalType ==
  ASSUME NEW l \in Seq(Int)
  PROVE  Total(l) \in Int /\ (Len(l) = 0 => Total(l) = 0)
<1>1. Len(l) \in Nat /\ Len(l) \in 0..Len(l)
  OBVIOUS
<1> QED BY <1>1, SumsRun DEF Total, Runs

\* of one more number that much more,
LEMMA TotalMore ==
  ASSUME NEW l \in Seq(Int), NEW k \in Seq(Int), Len(k) = Len(l) + 1,
         \A i \in 1..Len(l) : k[i] = l[i]
  PROVE  Total(k) = Total(l) + k[Len(k)]
<1>1. PICK n \in Nat : n = Len(l)
  OBVIOUS
<1>2. Runs(Sums(l), l, n) /\ Runs(Sums(k), k, n + 1) /\ \A i \in 1..n : l[i] = k[i]
  BY <1>1, SumsRun
<1>3. Sums(k)[n + 1] = Sums(l)[n] + k[n + 1]
  <2>1. PICK r, s : r = Sums(l) /\ s = Sums(k)
    OBVIOUS
  <2>2. PICK m : m = n + 1 /\ Runs(r, l, n) /\ Runs(s, k, m) /\ \A i \in 1..n : l[i] = k[i]
    BY <1>2, <2>1
  <2>3. s[m] = r[n] + k[m]
    BY SMTT(40), <1>1, <2>2, RunsMore
  <2> QED BY <2>1, <2>2, <2>3
<1> QED BY <1>1, <1>3 DEF Total

\* of two lists one after the other the sum of both totals,
LEMMA TotalJoin ==
  ASSUME NEW l \in Seq(Int), NEW k \in Seq(Int), NEW w \in Seq(Int),
         Len(w) = Len(l) + Len(k), \A i \in 1..Len(l) : w[i] = l[i],
         \A i \in 1..Len(k) : w[Len(l) + i] = k[i]
  PROVE  Total(w) = Total(l) + Total(k)
<1>1. PICK n \in Nat, o \in Nat : n = Len(l) /\ o = Len(k) /\ Len(w) = n + o
  OBVIOUS
<1>2. Runs(Sums(l), l, n) /\ Runs(Sums(k), k, o) /\ Runs(Sums(w), w, n + o)
  BY ZenonT(40), <1>1, SumsRun
<1>3. \A i \in 1..n : l[i] = w[i]
  BY <1>1
<1>4. \A i \in 1..o : w[n + i] = k[i] /\ k[i] \in Int
  BY <1>1
<1>5. Joins(w, l, n, k, o)
  BY <1>3, <1>4 DEF Joins
<1>6. Sums(w)[n + o] = Sums(l)[n] + Sums(k)[o]
  <2>1. PICK r, s, t : r = Sums(l) /\ s = Sums(k) /\ t = Sums(w)
    OBVIOUS
  <2>2. Runs(r, l, n) /\ Runs(s, k, o) /\ Runs(t, w, n + o)
    BY <1>2, <2>1
  <2>3. t[n + o] = r[n] + s[o]
    BY <1>5, <2>2, RunsJoin
  <2> QED BY <2>1, <2>3
<1> QED BY <1>1, <1>6 DEF Total

\* and of a list with one item replaced what the item changed by.
LEMMA TotalReplace ==
  ASSUME NEW l \in Seq(Int), NEW k \in Seq(Int), Len(k) = Len(l), NEW i \in 1..Len(l),
         \A j \in 1..Len(l) : j # i => k[j] = l[j]
  PROVE  Total(k) = Total(l) - l[i] + k[i]
<1>1. PICK n \in Nat : n = Len(l) /\ n = Len(k)
  OBVIOUS
<1>2. PICK r, s : r = Sums(l) /\ s = Sums(k)
  OBVIOUS
<1>3. Runs(r, l, n) /\ Runs(s, k, n) /\ i \in 1..n
  BY <1>1, <1>2, SumsRun
<1>a. \A j \in 1..n : (j # i => k[j] = l[j]) /\ k[j] \in Int /\ l[j] \in Int
  BY SMTT(40), <1>1
<1>4. r[i - 1] = s[i - 1]
  <2>1. i - 1 \in Nat /\ i - 1 \in 0..n /\ \A j \in 1..(i - 1) : j \in 1..n /\ j # i
    BY <1>3
  <2>2. \A j \in 1..(i - 1) : l[j] = k[j]
    BY <1>a, <2>1
  <2>3. PICK e : e \in Nat /\ e = i - 1 /\ e <= n /\ \A j \in 1..e : l[j] = k[j]
    BY <2>1, <2>2
  <2>4. Together(r, l, n, s, k, n, e)
    BY <1>1, <1>3, <2>3 DEF Together
  <2>5. r[e] = s[e]
    BY <2>4, RunsAgree
  <2> QED BY <2>3, <2>5
<1>5. /\ r[i] = r[i - 1] + l[i] /\ s[i] = s[i - 1] + k[i]
      /\ r[i] \in Int /\ s[i] \in Int /\ r[i - 1] \in Int
  BY <1>3 DEF Runs
<1> DEFINE T == {j \in 0..n : i <= j /\ s[j] # r[j] - l[i] + k[i]}
<1>6. T = {}
  <2>1. SUFFICES ASSUME T # {} PROVE FALSE
    OBVIOUS
  <2>2. PICK m \in T : \A j \in T : m <= j
    <3>1. T \subseteq Nat
      OBVIOUS
    <3> HIDE DEF T
    <3> QED BY ZenonT(40), <2>1, <3>1, Least
  <2>3. m \in 0..n /\ i <= m /\ s[m] # r[m] - l[i] + k[i]
    BY <2>2
  <2>4. m # i
    <3>1. PICK a \in Int, b \in Int, c \in Int : a = r[i - 1] /\ b = l[i] /\ c = k[i]
      BY ZenonT(40), <1>a, <1>3, <1>5
    <3>2. s[i] = a + c /\ r[i] = a + b
      BY <1>4, <1>5, <3>1
    <3>3. (a + b) - b + c = a + c
      OBVIOUS
    <3>4. s[i] = r[i] - l[i] + k[i]
      BY ONLY <3>1, <3>2, <3>3
    <3> QED BY <2>3, <3>4
  <2>5. m - 1 \in 0..n /\ i <= m - 1 /\ ~(m <= m - 1) /\ m \in 1..n
    BY <1>3, <2>3, <2>4
  <2>6. s[m - 1] = r[m - 1] - l[i] + k[i]
    BY <2>2, <2>5
  <2>7. r[m] = r[m - 1] + l[m] /\ s[m] = s[m - 1] + k[m] /\ r[m - 1] \in Int /\ s[m - 1] \in Int
    BY <1>3, <2>5 DEF Runs
  <2>8. k[m] = l[m] /\ l[m] \in Int /\ l[i] \in Int /\ k[i] \in Int
    BY <1>a, <1>3, <2>4, <2>5
  <2>9. PICK a \in Int, b \in Int, c \in Int, e \in Int : a = r[m - 1] /\ b = l[i] /\ c = k[i] /\ e = l[m]
    BY ZenonT(40), <2>7, <2>8
  <2>10. s[m] = (a - b + c) + e /\ r[m] = a + e
    BY ONLY <2>6, <2>7, <2>8, <2>9
  <2>11. s[m] = (a + e) - b + c
    BY ONLY <2>10
  <2>12. s[m] = r[m] - l[i] + k[i]
    BY ONLY <2>9, <2>10, <2>11
  <2> QED BY <2>3, <2>12
<1>7. s[n] = r[n] - l[i] + k[i]
  <2>1. n \in 0..n /\ i <= n
    BY <1>3
  <2> QED BY ZenonT(40), <1>6, <2>1
<1> QED BY <1>1, <1>2, <1>7 DEF Total

\* Nothing adds up to nothing,
LEMMA TotalZero ==
  ASSUME NEW l \in Seq(Int), \A i \in 1..Len(l) : l[i] = 0
  PROVE  Total(l) = 0
<1>1. PICK n \in Nat : n = Len(l)
  OBVIOUS
<1>2. PICK r : r = Sums(l)
  OBVIOUS
<1>3. Runs(r, l, n) /\ \A i \in 1..n : l[i] = 0
  BY <1>1, <1>2, SumsRun
<1>4. PICK z : z = [i \in 0..n |-> 0]
  OBVIOUS
<1>5. Runs(z, l, n) /\ z[n] = 0
  BY <1>3, <1>4 DEF Runs
<1>6. Together(r, l, n, z, l, n, n)
  BY <1>3, <1>5 DEF Together
<1>7. r[n] = z[n]
  BY <1>6, RunsAgree
<1> QED BY <1>1, <1>2, <1>5, <1>7 DEF Total

\* and ones to how many there are.
LEMMA TotalOnes ==
  ASSUME NEW l \in Seq(Int), \A i \in 1..Len(l) : l[i] = 1
  PROVE  Total(l) = Len(l)
<1>1. PICK n \in Nat : n = Len(l)
  OBVIOUS
<1>2. PICK r : r = Sums(l)
  OBVIOUS
<1>3. Runs(r, l, n) /\ \A i \in 1..n : l[i] = 1
  BY <1>1, <1>2, SumsRun
<1>4. PICK z : z = [i \in 0..n |-> i]
  OBVIOUS
<1>5. Runs(z, l, n) /\ z[n] = n
  BY <1>3, <1>4 DEF Runs
<1>6. Together(r, l, n, z, l, n, n)
  BY <1>3, <1>5 DEF Together
<1>7. r[n] = z[n]
  BY <1>6, RunsAgree
<1> QED BY <1>1, <1>2, <1>5, <1>7 DEF Total

-----------------------------------------------------------------------------
\* Amounts of rows.

\* What the rows weigh together, each by w.
Weigh(rows, w) == Total([i \in 1..Len(rows) |-> w[rows[i]]])

\* The weights of rows are a list of numbers.
LEMMA WeighList ==
  ASSUME NEW R, NEW w \in [R -> Int], NEW rows \in Seq(R)
  PROVE  /\ [i \in 1..Len(rows) |-> w[rows[i]]] \in Seq(Int)
         /\ Len([i \in 1..Len(rows) |-> w[rows[i]]]) = Len(rows)
         /\ Len(rows) \in Nat
<1>1. Len(rows) \in Nat /\ \A i \in 1..Len(rows) : w[rows[i]] \in Int
  OBVIOUS
<1> QED BY <1>1

\* What rows weigh together is a number,
LEMMA WeighType ==
  ASSUME NEW R, NEW w \in [R -> Int], NEW rows \in Seq(R)
  PROVE  Weigh(rows, w) \in Int
BY WeighList, TotalType DEF Weigh

\* that of rows after rows the sum of both,
LEMMA WeighJoin ==
  ASSUME NEW R, NEW w \in [R -> Int], NEW rows \in Seq(R), NEW more \in Seq(R)
  PROVE  Weigh(rows \o more, w) = Weigh(rows, w) + Weigh(more, w)
<1>1. PICK all : all = rows \o more
  OBVIOUS
<1>2. /\ all \in Seq(R) /\ Len(all) = Len(rows) + Len(more)
      /\ \A i \in 1..Len(rows) : all[i] = rows[i]
      /\ \A i \in 1..Len(more) : all[Len(rows) + i] = more[i]
  BY <1>1
<1>3. PICK l, k, j : /\ l = [i \in 1..Len(rows) |-> w[rows[i]]]
                     /\ k = [i \in 1..Len(more) |-> w[more[i]]]
                     /\ j = [i \in 1..Len(all) |-> w[all[i]]]
  OBVIOUS
<1>4. /\ l \in Seq(Int) /\ k \in Seq(Int) /\ j \in Seq(Int)
      /\ Len(l) = Len(rows) /\ Len(k) = Len(more) /\ Len(j) = Len(all)
      /\ Len(rows) \in Nat /\ Len(more) \in Nat
  BY <1>2, <1>3, WeighList
<1>5. Len(j) = Len(l) + Len(k)
  BY <1>2, <1>4
<1>6. \A i \in 1..Len(l) : j[i] = l[i]
  BY <1>2, <1>3, <1>4
<1>7. \A i \in 1..Len(k) : j[Len(l) + i] = k[i]
  BY <1>2, <1>3, <1>4
<1>8. Total(j) = Total(l) + Total(k)
  BY ZenonT(40), <1>4, <1>5, <1>6, <1>7, TotalJoin
<1> QED BY ZenonT(40), <1>1, <1>3, <1>8 DEF Weigh

\* The rows differ in row i alone, and what they weigh by what that row does.
ButFor(rows, other, w, i) ==
  Len(other) = Len(rows) /\ \A j \in 1..Len(rows) : j # i => w[other[j]] = w[rows[j]]
Replaced(rows, other, w, i) ==
  Weigh(other, w) = Weigh(rows, w) - w[rows[i]] + w[other[i]]

\* of rows with one replaced what that row makes of it,
LEMMA OneReplaced ==
  ASSUME NEW R, NEW w \in [R -> Int], NEW rows \in Seq(R), NEW other \in Seq(R),
         NEW i \in 1..Len(rows), ButFor(rows, other, w, i)
  PROVE  Replaced(rows, other, w, i)
<1>1. Len(other) = Len(rows) /\ \A j \in 1..Len(rows) : j # i => w[other[j]] = w[rows[j]]
  BY DEF ButFor
<1>2. PICK l, k : /\ l = [j \in 1..Len(rows) |-> w[rows[j]]]
                  /\ k = [j \in 1..Len(other) |-> w[other[j]]]
  OBVIOUS
<1>3. l \in Seq(Int) /\ k \in Seq(Int) /\ Len(l) = Len(rows) /\ Len(k) = Len(other)
  BY <1>2, WeighList
<1>4. i \in 1..Len(l) /\ Len(k) = Len(l)
  BY <1>1, <1>3
<1>5. l[i] = w[rows[i]] /\ k[i] = w[other[i]] /\ \A j \in 1..Len(l) : j # i => k[j] = l[j]
  BY ZenonT(40), <1>1, <1>2, <1>3, <1>4
<1>6. Total(k) = Total(l) - l[i] + k[i]
  BY ONLY ZenonT(40), <1>3, <1>4, <1>5, TotalReplace
<1>7. Weigh(rows, w) = Total(l) /\ Weigh(other, w) = Total(k)
  BY <1>2 DEF Weigh
<1> QED BY <1>5, <1>6, <1>7 DEF Replaced

\* of rows that weigh the same one by one the same,
LEMMA WeighSame ==
  ASSUME NEW rows, NEW other, NEW w, Len(other) = Len(rows),
         \A j \in 1..Len(rows) : w[other[j]] = w[rows[j]]
  PROVE  Weigh(other, w) = Weigh(rows, w)
<1>1. [j \in 1..Len(other) |-> w[other[j]]] = [j \in 1..Len(rows) |-> w[rows[j]]]
  OBVIOUS
<1> QED BY <1>1 DEF Weigh

\* of rows that weigh nothing nothing,
LEMMA WeighZero ==
  ASSUME NEW R, NEW w \in [R -> Int], NEW rows \in Seq(R),
         \A i \in 1..Len(rows) : w[rows[i]] = 0
  PROVE  Weigh(rows, w) = 0
<1>1. PICK l : l = [j \in 1..Len(rows) |-> w[rows[j]]]
  OBVIOUS
<1>2. l \in Seq(Int) /\ Len(l) = Len(rows)
  BY <1>1, WeighList
<1>3. \A i \in 1..Len(l) : l[i] = 0
  BY <1>1, <1>2
<1> QED BY ZenonT(40), <1>1, <1>2, <1>3, TotalZero DEF Weigh

\* and of rows that weigh one each how many there are.
LEMMA WeighOnes ==
  ASSUME NEW R, NEW w \in [R -> Int], NEW rows \in Seq(R),
         \A i \in 1..Len(rows) : w[rows[i]] = 1
  PROVE  Weigh(rows, w) = Len(rows)
<1>1. PICK l : l = [j \in 1..Len(rows) |-> w[rows[j]]]
  OBVIOUS
<1>2. l \in Seq(Int) /\ Len(l) = Len(rows)
  BY <1>1, WeighList
<1>3. \A i \in 1..Len(l) : l[i] = 1
  BY <1>1, <1>2
<1>4. Total(l) = Len(l)
  BY <1>2, <1>3, TotalOnes
<1> QED BY <1>1, <1>2, <1>4 DEF Weigh

\* more is rows and one row after them.
Longer(more, rows) ==
  Len(more) = Len(rows) + 1 /\ \A i \in 1..Len(rows) : more[i] = rows[i]

\* One more row adds what it weighs.
LEMMA WeighMore ==
  ASSUME NEW R, NEW w \in [R -> Int], NEW rows \in Seq(R), NEW more \in Seq(R), Longer(more, rows)
  PROVE  Weigh(more, w) = Weigh(rows, w) + w[more[Len(more)]]
<1>0. Len(more) = Len(rows) + 1 /\ \A i \in 1..Len(rows) : more[i] = rows[i]
  BY DEF Longer
<1>1. PICK l, k : /\ l = [j \in 1..Len(rows) |-> w[rows[j]]]
                  /\ k = [j \in 1..Len(more) |-> w[more[j]]]
  OBVIOUS
<1>2. /\ l \in Seq(Int) /\ k \in Seq(Int) /\ Len(l) = Len(rows) /\ Len(k) = Len(more)
      /\ Len(rows) \in Nat
  BY <1>1, WeighList
<1>3. Len(k) = Len(l) + 1 /\ Len(k) \in 1..Len(more)
  BY <1>0, <1>2
<1>4. \A i \in 1..Len(l) : k[i] = l[i]
  <2>1. \A i \in 1..Len(l) : i \in 1..Len(rows) /\ i \in 1..Len(more)
    BY <1>0, <1>2
  <2>2. \A i \in 1..Len(l) : l[i] = w[rows[i]] /\ k[i] = w[more[i]]
    BY <1>1, <2>1
  <2>3. \A i \in 1..Len(l) : rows[i] = more[i]
    BY <1>0, <2>1
  <2> QED BY ONLY SMTT(40), <2>2, <2>3
<1>5. Total(k) = Total(l) + k[Len(k)]
  BY ZenonT(40), <1>2, <1>3, <1>4, TotalMore
<1>6. k[Len(k)] = w[more[Len(more)]]
  BY <1>1, <1>2, <1>3
<1> QED BY <1>1, <1>5, <1>6 DEF Weigh

\* What a movement adds to the stock of x.
Brings(x) == [m \in Row.ledger |-> IF m.prod = x THEN m.qty ELSE 0]

\* The stock of a product is what its movements weigh,
LEMMA OnHandWeighs ==
  ASSUME NEW ledger \in Seq(Row.ledger), NEW x
  PROVE  Brings(x) \in [Row.ledger -> Int] /\ OnHand(ledger, x) = Weigh(ledger, Brings(x))
<1>1. \A m \in Row.ledger : m.qty \in Int
  BY DEF Row
<1>2. Brings(x) \in [Row.ledger -> Int]
  BY <1>1 DEF Brings
<1>3. \A i \in 1..Len(ledger) : ledger[i] \in Row.ledger
  OBVIOUS
<1>4. [i \in 1..Len(ledger) |-> IF ledger[i].prod = x THEN ledger[i].qty ELSE 0]
        = [i \in 1..Len(ledger) |-> Brings(x)[ledger[i]]]
  BY <1>3 DEF Brings
<1> QED BY ZenonT(40), <1>2, <1>4 DEF OnHand, Amount, Weigh

\* One for a row that names the key.
Names(t, key) == [r \in Row[t] |-> IF r.by = key THEN 1 ELSE 0]

\* how many rows name a key what those rows weigh, one each,
LEMMA ByWeighs ==
  ASSUME NEW t \in Keyed, NEW key, NEW rows \in Seq(Row[t])
  PROVE  /\ Names(t, key) \in [Row[t] -> Int]
         /\ HowMany(rows, LAMBDA r : r.by = key) = Weigh(rows, Names(t, key))
<1>2. Names(t, key) \in [Row[t] -> Int]
  BY DEF Names
<1>3. \A i \in 1..Len(rows) : rows[i] \in Row[t]
  OBVIOUS
<1>4. [i \in 1..Len(rows) |-> IF rows[i].by = key THEN 1 ELSE 0]
        = [i \in 1..Len(rows) |-> Names(t, key)[rows[i]]]
  BY <1>3 DEF Names
<1> QED BY ZenonT(40), <1>2, <1>4 DEF HowMany, Amount, Weigh

Settled(order, kind) ==
  [y \in Row.pays |->
     IF y.order = order /\ y.kind = kind /\ y.status = "VERIFIED" THEN y.qty ELSE 0]

\* and what an order has been paid, or refunded, what its verified payments weigh.
LEMMA VerifiedWeighs ==
  ASSUME NEW pays \in Seq(Row.pays), NEW order, NEW kind
  PROVE  /\ Settled(order, kind) \in [Row.pays -> Int]
         /\ Verified(pays, order, kind) = Weigh(pays, Settled(order, kind))
<1>1. \A y \in Row.pays : y.qty \in Int
  BY DEF Row
<1>2. Settled(order, kind) \in [Row.pays -> Int]
  BY <1>1 DEF Settled
<1>3. \A i \in 1..Len(pays) : pays[i] \in Row.pays
  OBVIOUS
<1>4. [i \in 1..Len(pays) |->
         IF pays[i].order = order /\ pays[i].kind = kind /\ pays[i].status = "VERIFIED"
         THEN pays[i].qty ELSE 0]
        = [i \in 1..Len(pays) |-> Settled(order, kind)[pays[i]]]
  BY <1>3 DEF Settled
<1> QED BY ZenonT(40), <1>2, <1>4 DEF Verified, Amount, Weigh

\* v is u some statements later: the same request in the same run.
Keeps(u, v) == DOMAIN v = DOMAIN u /\ v.run = u.run /\ v.calls = u.calls

GoesOn(p) == \E u : Keeps(unit[p], u) /\ Becomes(p, u)

Outcome(p) == GoesOn(p) \/ Refuse(p) \/ GiveUp(p) \/ Rerun(p)

Shaped(u) == DOMAIN u = DOMAIN NoUnit

UnitsShaped == DOMAIN unit = Processes /\ \A p \in Processes : Shaped(unit[p])

\* The inductive invariant: what the type invariant says, the shape of the units,
\* that a running unit runs a request of the scene, and DoneIsStored.
Running ==
  \A p \in Processes : unit[p].run > 0 => unit[p].calls \in scene.calls

Heard ==
  /\ receipt \in [DOMAIN receipt -> scene.calls]
  /\ told \in [scene.calls -> {"NONE", "DONE", "REFUSED"}]
  /\ sent \in [scene.calls -> 0..MaxCalls]
  /\ \A p \in Processes : unit[p].run \in 0..MaxAttempts
  /\ now \in 0..scene.until

BusInv ==
  /\ UnitsShaped
  /\ Running
  /\ scene \in Scenarios
  /\ Heard
  /\ DoneIsStored

-----------------------------------------------------------------------------
\* What the changes of a unit leave alone.

\* The fields of a unit.
LEMMA Fields ==
  DOMAIN NoUnit = {"pc", "calls", "run", "at", "want", "seen", "due", "new", "set"}
  /\ NoUnit.run = 0
BY DEF NoUnit

\* Moving to the next statement keeps the unit's request and run.
LEMMA ThenKeeps == ASSUME NEW u, Shaped(u) PROVE Keeps(u, Then(u)) /\ Shaped(Then(u))
BY Fields DEF Shaped, Keeps, Then

\* So does an update of a row,
LEMMA UpdatedKeeps ==
  ASSUME NEW u, Shaped(u), NEW t, NEW i, NEW row
  PROVE  Keeps(u, Updated(u, t, i, row)) /\ Shaped(Updated(u, t, i, row))
BY Fields DEF Shaped, Keeps, Updated

\* an insertion,
LEMMA AppendedKeeps ==
  ASSUME NEW u, Shaped(u), NEW t, NEW row
  PROVE  Keeps(u, Appended(u, t, row)) /\ Shaped(Appended(u, t, row))
BY Fields DEF Shaped, Keeps, Appended

\* and several of them.
LEMMA KeepsChains ==
  ASSUME NEW u, NEW v, NEW w, Keeps(u, v), Keeps(v, w) PROVE Keeps(u, w)
BY DEF Keeps

\* A unit that goes on with its next statement goes on.
LEMMA ThenGoesOn ==
  ASSUME UnitsShaped, NEW p \in Processes, Becomes(p, Then(unit[p]))
  PROVE  GoesOn(p)
BY ThenKeeps DEF UnitsShaped, GoesOn

-----------------------------------------------------------------------------
\* What a statement does with its unit.

\* An insertion under a code goes on, now or when the code is free, or re-runs.
LEMMA InsertOutcome ==
  ASSUME UnitsShaped, NEW p \in Processes, NEW t, NEW row, InsertCoded(p, t, row, unit[p])
  PROVE  Outcome(p)
<1> DEFINE u == Appended(unit[p], t, row)
<1>1. Shaped(unit[p])
  BY DEF UnitsShaped
<1>2. CASE Becomes(p, Then(u))
  <2>1. Keeps(unit[p], u) /\ Shaped(u)
    BY <1>1, AppendedKeeps
  <2>2. Keeps(unit[p], Then(u))
    BY <2>1, ThenKeeps, KeepsChains
  <2> QED
    BY <1>2, <2>2 DEF Outcome, GoesOn
<1>3. CASE Becomes(p, [unit[p] EXCEPT !.want = Len(db[t]) + 1])
  <2>1. Keeps(unit[p], [unit[p] EXCEPT !.want = Len(db[t]) + 1])
    BY <1>1, Fields DEF Keeps, Shaped
  <2> QED
    BY <1>3, <2>1 DEF Outcome, GoesOn
<1>4. CASE Rerun(p)
  BY <1>4 DEF Outcome
<1> QED
  BY <1>2, <1>3, <1>4 DEF InsertCoded

\* A compare-and-swap goes on, is refused or is given up.
LEMMA CasOutcome ==
  ASSUME UnitsShaped, NEW p \in Processes, NEW t, NEW i, NEW holds, NEW row, NEW retryable,
         Cas(p, t, i, holds, row, retryable)
  PROVE  Outcome(p)
<1> DEFINE u == Updated(unit[p], t, i, row)
<1>1. Keeps(unit[p], u) /\ Shaped(u)
  BY UpdatedKeeps DEF UnitsShaped
<1>2. Keeps(unit[p], Then(u))
  BY <1>1, ThenKeeps, KeepsChains
<1>3. Becomes(p, Then(u)) \/ GiveUp(p) \/ Refuse(p)
  BY DEF Cas
<1> QED
  BY <1>2, <1>3 DEF Outcome, GoesOn

\* Taking the fence keeps the unit's request and run,
LEMMA FencedKeeps ==
  ASSUME NEW p, NEW u, Shaped(u), NEW n
  PROVE  Keeps(u, Fenced(p, u, n)) /\ Shaped(Fenced(p, u, n))
BY UpdatedKeeps DEF Fenced

\* and so does writing movements.
LEMMA LedgerKeeps ==
  ASSUME UnitsShaped, NEW p \in Processes, NEW rows
  PROVE  /\ Keeps(unit[p], Append2Ledger(p, rows))
         /\ Shaped(Append2Ledger(p, rows))
<1> DEFINE u == Fenced(p, unit[p], Len(rows))
<1>1. Keeps(unit[p], u) /\ Shaped(u)
  BY FencedKeeps DEF UnitsShaped
<1>2. /\ Keeps(u, [u EXCEPT !.new["ledger"] = @ \o rows])
      /\ Shaped([u EXCEPT !.new["ledger"] = @ \o rows])
  BY <1>1, Fields DEF Keeps, Shaped
<1>3. Append2Ledger(p, rows) = [u EXCEPT !.new["ledger"] = @ \o rows]
  BY DEF Append2Ledger
<1> QED
  BY <1>1, <1>2, <1>3, KeepsChains

\* Movements are written, or what is not there is refused.
LEMMA MoveOutcome ==
  ASSUME UnitsShaped, NEW p \in Processes, NEW on, NEW list, Move(p, on, list)
  PROVE  Outcome(p)
<1> DEFINE u == Append2Ledger(p, Movements(Call(p), on, list))
<1>1. Keeps(unit[p], Then(u))
  BY LedgerKeeps, ThenKeeps, KeepsChains
<1>2. Becomes(p, Then(u)) \/ Refuse(p)
  BY DEF Move
<1> QED
  BY <1>1, <1>2 DEF Outcome, GoesOn

\* Reading a document notes it, or refuses.
LEMMA ReadOutcome ==
  ASSUME UnitsShaped, NEW p \in Processes, NEW row,
         Becomes(p, Then([unit[p] EXCEPT !.seen = row]))
  PROVE  Outcome(p)
<1> DEFINE u == [unit[p] EXCEPT !.seen = row]
<1>1. Keeps(unit[p], u) /\ Shaped(u)
  BY Fields DEF UnitsShaped, Keeps, Shaped
<1> QED
  BY <1>1, ThenKeeps, KeepsChains DEF Outcome, GoesOn

-----------------------------------------------------------------------------
\* The statements, one by one.

\* The statements of the inventory end in one of the four ways,
LEMMA InventoryOutcome ==
  ASSUME UnitsShaped, NEW p \in Processes, InventoryStatement(p)
  PROVE  Outcome(p)
<1>0. Shaped(unit[p])
  BY DEF UnitsShaped
<1>1. CASE Move(p, <<"move", 0>>, <<<<"A", Call(p).qty, "none">>>>)
  BY <1>1, MoveOutcome
<1>2. CASE AskPromise(p)
  <2> DEFINE w == Fenced(p, unit[p], 0)
             u == [w EXCEPT !.seen = Rows(p, "holds")]
  <2>1. Keeps(unit[p], w) /\ Shaped(w)
    BY <1>0, FencedKeeps
  <2>2. Keeps(w, u) /\ Shaped(u)
    BY <2>1, Fields DEF Keeps, Shaped
  <2>3. Keeps(unit[p], Then(u))
    BY <2>1, <2>2, ThenKeeps, KeepsChains
  <2>4. Becomes(p, Then(u)) \/ Refuse(p)
    BY <1>2 DEF AskPromise
  <2> QED
    BY <2>3, <2>4 DEF Outcome, GoesOn
<1>3. CASE PlaceHold(p)
  BY <1>3, InsertOutcome DEF PlaceHold
<1>4. CASE ReadHold(p)
  BY <1>4, ReadOutcome DEF ReadHold, Outcome
<1>5. CASE EndHold(p, "RELEASED") \/ EndHold(p, "CONVERTED")
  BY ZenonT(40), <1>5, CasOutcome DEF EndHold
<1>6. CASE PlaceCommitted(p)
  BY <1>6, InsertOutcome DEF PlaceCommitted
<1>7. CASE ReadDue(p)
  <2> DEFINE due == {i \in 1..Len(Rows(p, "holds")) :
                       Rows(p, "holds")[i].status = "ACTIVE" /\ Rows(p, "holds")[i].exp <= unit[p].at}
             u == [unit[p] EXCEPT !.due = due]
  <2>1. Keeps(unit[p], u) /\ Shaped(u)
    BY <1>0, Fields DEF Keeps, Shaped
  <2>2. Becomes(p, Then(u))
    BY <1>7 DEF ReadDue
  <2> QED
    BY <2>1, <2>2, ThenKeeps, KeepsChains DEF Outcome, GoesOn
<1>8. CASE StampDue(p)
  <2> DEFINE i == CHOOSE x \in unit[p].due : \A y \in unit[p].due : x <= y
             h == Rows(p, "holds")[i]
             u == [unit[p] EXCEPT !.due = @ \ {i}]
             v == Updated(u, "holds", i, [h EXCEPT !.status = "EXPIRED", !.ver = @ + 1])
  <2>1. Keeps(unit[p], u) /\ Shaped(u)
    BY <1>0, Fields DEF Keeps, Shaped
  <2>2. Keeps(unit[p], v)
    BY <2>1, UpdatedKeeps, KeepsChains
  <2>3. Becomes(p, Then(unit[p])) \/ Becomes(p, u) \/ Becomes(p, v)
    BY <1>8 DEF StampDue
  <2> QED
    BY <2>1, <2>2, <2>3, ThenGoesOn DEF Outcome, GoesOn
<1>9. CASE Preview(p)
  <2> DEFINE u == Fenced(p, unit[p], 0)
             row == [by |-> Call(p).key, status |-> "PREVIEWED", ver |-> 1, rev |-> Fence(p).ver,
                     expected |-> OnHand(Rows(p, "ledger"), "A"), counted |-> Call(p).qty]
             v == Appended(u, "counts", row)
  <2>1. Keeps(unit[p], u) /\ Shaped(u)
    BY <1>0, FencedKeeps
  <2>2. Keeps(unit[p], v) /\ Shaped(v)
    BY <2>1, AppendedKeeps, KeepsChains
  <2>3. Becomes(p, Then(v))
    BY <1>9 DEF Preview
  <2> QED
    BY <2>2, <2>3, ThenKeeps, KeepsChains DEF Outcome, GoesOn
<1>10. CASE SettleCount(p)
  <2> DEFINE q == Call(p)
             c == Rows(p, "counts")[q.on]
             variance == c.counted - OnHand(Rows(p, "ledger"), "A")
             posted == IF variance = 0 THEN <<>>
                       ELSE Movements(q, <<"counts", q.on>>, <<<<"A", variance, "none">>>>)
             u == Append2Ledger(p, posted)
             v == Updated(u, "counts", q.on, [c EXCEPT !.status = "COMMITTED", !.ver = @ + 1, !.by = q.key])
  <2>1. Keeps(unit[p], u) /\ Shaped(u)
    BY LedgerKeeps
  <2>2. Keeps(unit[p], v) /\ Shaped(v)
    BY <2>1, UpdatedKeeps, KeepsChains
  <2>3. Keeps(unit[p], Then(v))
    BY <2>2, ThenKeeps, KeepsChains
  <2>4. Becomes(p, Then(unit[p])) \/ Becomes(p, Then(v)) \/ Refuse(p)
    BY <1>10 DEF SettleCount
  <2> QED
    BY <2>3, <2>4, ThenGoesOn DEF Outcome, GoesOn
<1> QED
  BY <1>1, <1>2, <1>3, <1>4, <1>5, <1>6, <1>7, <1>8, <1>9, <1>10 DEF InventoryStatement

\* so do those of orders and payments,
LEMMA CommerceOutcome ==
  ASSUME UnitsShaped, NEW p \in Processes, CommerceStatement(p)
  PROVE  Outcome(p)
<1>1. CASE ReadOrder(p)
  BY ZenonT(40), <1>1, ReadOutcome DEF ReadOrder, ReadDocument, Outcome
<1>2. CASE IssueOrder(p)
  <2>1. \/ Becomes(p, Then(unit[p])) \/ Refuse(p)
        \/ Move(p, <<"orders", Call(p).on>>, <<<<"A", -unit[p].seen.qty, "none">>>>)
    BY ZenonT(40), <1>2 DEF IssueOrder
  <2> QED
    BY <2>1, MoveOutcome, ThenGoesOn DEF Outcome
<1>3. CASE CloseOrder(p)
  BY ZenonT(40), <1>3, CasOutcome DEF CloseOrder
<1>4. CASE InsertSale(p)
  BY <1>4, InsertOutcome DEF InsertSale
<1>5. CASE IssueSale(p)
  <2>1. \/ Becomes(p, Then(unit[p]))
        \/ Move(p, <<"orders", Len(Rows(p, "orders"))>>, <<<<"A", -Call(p).qty, "none">>>>)
    BY ZenonT(40), <1>5 DEF IssueSale
  <2> QED
    BY <2>1, MoveOutcome, ThenGoesOn DEF Outcome
<1>6. CASE InsertSalePayment(p)
  BY <1>6, InsertOutcome DEF InsertSalePayment
<1>7. CASE ReadPayable(p)
  BY <1>7, ThenGoesOn DEF ReadPayable, Outcome
<1>8. CASE RecordPayment(p)
  BY <1>8, InsertOutcome DEF RecordPayment
<1>9. CASE ReadPayment(p)
  BY <1>9, ReadOutcome DEF ReadPayment, ReadDocument, Outcome
<1>10. CASE CeilingOfRefund(p)
  <2> DEFINE i == unit[p].seen.order
             u == Updated(unit[p], "orders", i, Rows(p, "orders")[i])
  <2>1. Keeps(unit[p], Then(u))
    BY UpdatedKeeps, ThenKeeps, KeepsChains DEF UnitsShaped
  <2>2. Becomes(p, Then(unit[p])) \/ Becomes(p, Then(u)) \/ Refuse(p)
    BY <1>10 DEF CeilingOfRefund
  <2> QED
    BY <2>1, <2>2, ThenGoesOn DEF Outcome, GoesOn
<1>11. CASE SettlePayment(p)
  BY ZenonT(40), <1>11, CasOutcome DEF SettlePayment, CloseDocument
<1> QED
  BY <1>1, <1>2, <1>3, <1>4, <1>5, <1>6, <1>7, <1>8, <1>9, <1>10, <1>11 DEF CommerceStatement

\* and those of purchase orders and work orders.
LEMMA DocumentOutcome ==
  ASSUME UnitsShaped, NEW p \in Processes, DocumentStatement(p)
  PROVE  Outcome(p)
<1>1. CASE ReadPurchase(p)
  <2> DEFINE row == Rows(p, "pos")[Call(p).on]
             seen == [row EXCEPT !.got = Received(Rows(p, "grns"), Call(p).on)]
  <2>1. Becomes(p, Then([unit[p] EXCEPT !.seen = seen])) \/ Refuse(p)
    BY ZenonT(40), <1>1 DEF ReadPurchase
  <2> QED
    BY <2>1, ReadOutcome DEF Outcome
<1>2. CASE InsertReceipt(p)
  BY <1>2, InsertOutcome DEF InsertReceipt
<1>3. CASE StockReceipt(p)
  BY <1>3, MoveOutcome DEF StockReceipt
<1>4. CASE ClosePurchase(p)
  BY <1>4, CasOutcome DEF ClosePurchase, CloseDocument
<1>5. CASE ReadWork(p)
  BY ZenonT(40), <1>5, ReadOutcome DEF ReadWork, Outcome
<1>6. CASE MoveWork(p)
  BY <1>6, MoveOutcome DEF MoveWork
<1>7. CASE CloseWork(p)
  BY ZenonT(40), <1>7, CasOutcome DEF CloseWork
<1> QED
  BY <1>1, <1>2, <1>3, <1>4, <1>5, <1>6, <1>7 DEF DocumentStatement

-----------------------------------------------------------------------------
\* The invariant is kept.

\* A unit that runs again starts from nothing, one run later, with its request.
LEMMA RerunIsFresh ==
  ASSUME BusInv, NEW p \in Processes,
         unit' = [unit EXCEPT ![p] = [NoUnit EXCEPT !.calls = unit[p].calls, !.run = unit[p].run + 1]],
         unit[p].run \in 1..(MaxAttempts - 1), scene' = scene
  PROVE  UnitsShaped' /\ Running' /\ \A o \in Processes : unit'[o].run \in 0..MaxAttempts
<1> DEFINE u == [NoUnit EXCEPT !.calls = unit[p].calls, !.run = unit[p].run + 1]
<1>1. Shaped(u) /\ u.run = unit[p].run + 1 /\ u.calls = unit[p].calls
  BY Fields DEF Shaped
<1>2. DOMAIN unit' = Processes /\ unit'[p] = u /\ \A o \in Processes \ {p} : unit'[o] = unit[o]
  BY DEF BusInv, UnitsShaped
<1>3. UnitsShaped'
  BY <1>1, <1>2 DEF BusInv, UnitsShaped, Shaped, NoUnit, NoRows
<1>4. Running'
  BY <1>1, <1>2 DEF BusInv, Running
<1>5. \A o \in Processes : unit'[o].run \in 0..MaxAttempts
  BY <1>1, <1>2, StoreAssumption DEF BusInv, Heard
<1> QED
  BY <1>3, <1>4, <1>5

\* An ended unit is no unit.
LEMMA EndedIsShaped ==
  ASSUME BusInv, NEW p \in Processes, unit' = [unit EXCEPT ![p] = NoUnit], scene' = scene
  PROVE  UnitsShaped' /\ Running' /\ \A o \in Processes : unit'[o].run \in 0..MaxAttempts
<1>1. DOMAIN unit' = Processes /\ unit'[p] = NoUnit /\ \A o \in Processes \ {p} : unit'[o] = unit[o]
  BY DEF BusInv, UnitsShaped
<1>2. UnitsShaped'
  BY <1>1 DEF BusInv, UnitsShaped, Shaped, NoUnit, NoRows
<1>3. Running'
  BY <1>1, Fields DEF BusInv, Running
<1>4. \A o \in Processes : unit'[o].run \in 0..MaxAttempts
  BY <1>1, Fields, StoreAssumption DEF BusInv, Heard
<1> QED
  BY <1>2, <1>3, <1>4

\* Nothing of the callers' knowledge changes while a unit only goes on.
LEMMA QuietStep ==
  ASSUME BusInv, UnitsShaped', Running', \A o \in Processes : unit'[o].run \in 0..MaxAttempts,
         UNCHANGED <<receipt, told, sent, now, scene>>
  PROVE  BusInv'
BY DEF BusInv, Heard, DoneIsStored, Stored

\* Each of the four ways a statement ends keeps the invariant.
LEMMA OutcomeKeeps ==
  ASSUME BusInv, NEW p \in Processes, unit[p].run > 0, Outcome(p)
  PROVE  BusInv'
<1>1. CASE GoesOn(p)
  <2>1. PICK u : Keeps(unit[p], u) /\ Becomes(p, u)
    BY <1>1 DEF GoesOn
  <2>2. /\ DOMAIN unit' = Processes /\ unit'[p] = u
        /\ \A o \in Processes \ {p} : unit'[o] = unit[o]
    BY <2>1 DEF Becomes, BusInv, UnitsShaped
  <2>3. UnitsShaped'
    BY <2>1, <2>2 DEF BusInv, UnitsShaped, Shaped, Keeps, NoUnit, NoRows
  <2>4. Running' /\ \A o \in Processes : unit'[o].run \in 0..MaxAttempts
    BY <2>1, <2>2 DEF BusInv, Running, Keeps, Becomes, Heard
  <2> QED
    BY <2>1, <2>3, <2>4, QuietStep DEF Becomes
<1>2. CASE Refuse(p)
  <2>1. UnitsShaped' /\ Running' /\ \A o \in Processes : unit'[o].run \in 0..MaxAttempts
    BY ZenonT(40), <1>2, EndedIsShaped DEF Refuse
  <2>2. Heard'
    BY ZenonT(40), <1>2, <2>1 DEF Refuse, BusInv, Heard
  <2>3. DoneIsStored'
    BY <1>2 DEF Refuse, BusInv, Heard, DoneIsStored, Stored
  <2> QED
    BY <1>2, <2>1, <2>2, <2>3 DEF BusInv, Refuse
<1>3. CASE GiveUp(p)
  BY ZenonT(40), <1>3, EndedIsShaped, QuietStep DEF GiveUp, Becomes
<1>4. CASE Rerun(p)
  <2>1. CASE unit[p].run < MaxAttempts
    <3>1. unit[p].run \in 1..(MaxAttempts - 1)
      BY <2>1, StoreAssumption DEF BusInv, Heard
    <3> QED
      BY ZenonT(40), <1>4, <2>1, <3>1, RerunIsFresh, QuietStep DEF Rerun, Becomes
  <2>2. CASE ~(unit[p].run < MaxAttempts)
    BY <1>4, <2>2, EndedIsShaped, QuietStep DEF Rerun, GiveUp, Becomes
  <2> QED
    BY <2>1, <2>2
<1> QED
  BY <1>1, <1>2, <1>3, <1>4 DEF Outcome

\* A request is sent by its own process, in its first run.
LEMMA SendKeeps ==
  ASSUME BusInv, NEW p \in Processes, NEW q \in scene.calls, Send(p, q)
  PROVE  BusInv'
<1> DEFINE u == [unit[p] EXCEPT !.calls = q, !.run = 1]
<1>1. Shaped(u) /\ u.calls = q /\ u.run = 1
  BY Fields DEF BusInv, UnitsShaped, Shaped
<1>2. /\ unit' = [unit EXCEPT ![p] = u]
      /\ sent' = [sent EXCEPT ![q] = @ + 1]
      /\ sent[q] < MaxCalls
      /\ UNCHANGED <<receipt, told, now, scene>>
  <2>1. unit' = [unit EXCEPT ![p].calls = q, ![p].run = 1]
    BY DEF Send
  <2>2. [unit EXCEPT ![p].calls = q, ![p].run = 1] = [unit EXCEPT ![p] = u]
    BY ZenonT(40) DEF BusInv, UnitsShaped
  <2> QED
    BY <2>1, <2>2 DEF Send
<1>3. /\ DOMAIN unit' = Processes /\ unit'[p] = u
      /\ \A o \in Processes \ {p} : unit'[o] = unit[o]
  BY <1>2 DEF BusInv, UnitsShaped
<1>4. UnitsShaped'
  BY ZenonT(40), <1>1, <1>3 DEF BusInv, UnitsShaped, Shaped, NoUnit, NoRows
<1>5. Running'
  BY <1>1, <1>2, <1>3 DEF BusInv, Running
<1>6. \A o \in Processes : unit'[o].run \in 0..MaxAttempts
  <2>1. unit'[p].run = 1 /\ 1 \in 0..MaxAttempts
    BY <1>1, <1>3, StoreAssumption
  <2>2. \A o \in Processes \ {p} : unit'[o].run \in 0..MaxAttempts
    BY <1>3 DEF BusInv, Heard
  <2> QED
    BY <2>1, <2>2
<1>7. sent' \in [scene.calls -> 0..MaxCalls]
  <2>1. sent[q] + 1 \in 0..MaxCalls
    BY <1>2, StoreAssumption DEF BusInv, Heard
  <2> QED
    BY <1>2, <2>1 DEF BusInv, Heard
<1> QED
  BY <1>2, <1>4, <1>5, <1>6, <1>7 DEF BusInv, Heard, DoneIsStored, Stored

\* The look-up reports a request done only for a receipt that names it.
LEMMA LookKeeps ==
  ASSUME BusInv, NEW p \in Processes, Look(p)
  PROVE  BusInv'
<1> DEFINE q == unit[p].calls
<1>1. q \in scene.calls
  BY StoreAssumption DEF Look, BusInv, Running, Heard
<1>2. CASE ~Stored(q)
  <2> DEFINE u == [unit[p] EXCEPT !.at = now]
  <2>1. Keeps(unit[p], u) /\ Shaped(u)
    BY Fields DEF BusInv, UnitsShaped, Keeps, Shaped
  <2>2. Keeps(unit[p], Then(u)) /\ Becomes(p, Then(u))
    BY <1>2, <2>1, ThenKeeps, KeepsChains DEF Look
  <2>3. GoesOn(p)
    BY <2>2 DEF GoesOn
  <2> QED
    BY <2>3, OutcomeKeeps DEF Look, Outcome
<1>3. CASE Stored(q)
  <2>1. PICK reply \in BOOLEAN :
          told' = [told EXCEPT ![q] =
                    IF ~reply THEN @ ELSE IF receipt[q.key] = q THEN "DONE" ELSE "REFUSED"]
    BY <1>3 DEF Look
  <2>2. unit' = [unit EXCEPT ![p] = NoUnit] /\ UNCHANGED <<db, receipt, sent, now, scene>>
    BY <1>3 DEF Look
  <2>3. UnitsShaped' /\ Running' /\ \A o \in Processes : unit'[o].run \in 0..MaxAttempts
    BY ZenonT(40), <2>2, EndedIsShaped
  <2>4. told' \in [scene.calls -> {"NONE", "DONE", "REFUSED"}]
    BY <2>1, <1>1 DEF BusInv, Heard
  <2>5. DoneIsStored'
    BY <1>1, <1>3, <2>1, <2>2 DEF BusInv, Heard, DoneIsStored, Stored
  <2> QED
    BY <2>2, <2>3, <2>4, <2>5 DEF BusInv, Heard
<1> QED
  BY <1>2, <1>3

\* COMMIT adds the receipt of a key that has none.
LEMMA CommitKeeps ==
  ASSUME BusInv, NEW p \in Processes, unit[p].run > 0, Commit(p)
  PROVE  BusInv'
<1> DEFINE q == unit[p].calls
<1>1. q \in scene.calls
  BY DEF BusInv, Running
<1>2. CASE Stored(q)
  BY <1>2, OutcomeKeeps DEF Commit, Outcome
<1>3. CASE ~Stored(q)
  <2>1. PICK reply \in BOOLEAN : told' = [told EXCEPT ![q] = IF reply THEN "DONE" ELSE @]
    BY <1>3 DEF Commit
  <2>2. /\ unit' = [unit EXCEPT ![p] = NoUnit]
        /\ receipt' = [k \in DOMAIN receipt \cup {q.key} |-> IF k = q.key THEN q ELSE receipt[k]]
        /\ UNCHANGED <<sent, now, scene>>
    BY <1>3 DEF Commit
  <2>3. UnitsShaped' /\ Running' /\ \A o \in Processes : unit'[o].run \in 0..MaxAttempts
    BY ZenonT(40), <2>2, EndedIsShaped
  <2>4. told' \in [scene.calls -> {"NONE", "DONE", "REFUSED"}]
    BY <2>1, <1>1 DEF BusInv, Heard
  <2>5. receipt' \in [DOMAIN receipt' -> scene.calls]
    BY <1>1, <2>2 DEF BusInv, Heard
  <2>6. DoneIsStored'
    <3> SUFFICES ASSUME NEW r \in scene.calls, told'[r] = "DONE"
                 PROVE  r.key \in DOMAIN receipt' /\ receipt'[r.key] = r
      BY <2>2 DEF DoneIsStored, Stored
    <3>1. CASE r = q
      BY <3>1, <2>2
    <3>2. CASE r # q
      <4>1. told[r] = "DONE"
        BY <3>2, <2>1, <1>1 DEF BusInv, Heard
      <4>2. r.key \in DOMAIN receipt /\ receipt[r.key] = r
        BY <4>1 DEF BusInv, DoneIsStored, Stored
      <4>3. r.key # q.key
        BY <4>2, <1>3 DEF Stored
      <4> QED
        BY <4>2, <4>3, <2>2
    <3> QED
      BY <3>1, <3>2
  <2> QED
    BY <2>2, <2>3, <2>4, <2>5, <2>6 DEF BusInv, Heard
<1> QED
  BY <1>2, <1>3

\* Time passes up to the end of the scene.
LEMMA TickKeeps == ASSUME BusInv, Tick PROVE BusInv'
<1>1. now' \in 0..scene.until
  BY StoreAssumption DEF Tick, BusInv, Heard
<1> QED
  BY <1>1 DEF Tick, BusInv, UnitsShaped, Shaped, Running, Heard, DoneIsStored, Stored, NoUnit, NoRows

\* Every step keeps the invariant.
LEMMA StepKeeps == ASSUME BusInv, [Next]_store PROVE BusInv'
<1>1. CASE \E p \in Processes : \E q \in scene.calls : Send(p, q)
  BY <1>1, SendKeeps
<1>2. CASE \E p \in Processes : Look(p)
  BY <1>2, LookKeeps
<1>3. CASE \E p \in Processes : InventoryStatement(p) \/ CommerceStatement(p) \/ DocumentStatement(p)
  <2>1. PICK p \in Processes : InventoryStatement(p) \/ CommerceStatement(p) \/ DocumentStatement(p)
    BY <1>3
  <2>2. unit[p].run > 0
    BY <2>1 DEF InventoryStatement, CommerceStatement, DocumentStatement, At
  <2>3. Outcome(p)
    BY <2>1, InventoryOutcome, CommerceOutcome, DocumentOutcome DEF BusInv
  <2> QED
    BY <2>2, <2>3, OutcomeKeeps
<1>4. CASE \E p \in Processes : Ends(p)
  BY <1>4, CommitKeeps DEF Ends
<1>5. CASE \E p \in Processes : Fail(p)
  BY <1>5, OutcomeKeeps DEF Fail, Outcome
<1>6. CASE Tick
  BY <1>6, TickKeeps
<1>7. CASE UNCHANGED store
  BY <1>7 DEF store, BusInv, UnitsShaped, Shaped, Running, Heard, DoneIsStored, Stored, NoUnit, NoRows
<1> QED
  BY <1>1, <1>2, <1>3, <1>4, <1>5, <1>6, <1>7 DEF Next

\* A scene opens with nothing running and nothing told.
LEMMA InitHolds == ASSUME StoreInit PROVE BusInv
<1>1. UnitsShaped /\ Running
  BY Fields DEF StoreInit, UnitsShaped, Shaped, Running
<1>2. receipt \in [DOMAIN receipt -> scene.calls] /\ DOMAIN receipt = {}
  BY DEF StoreInit
<1>3. \A p \in Processes : unit[p].run \in 0..MaxAttempts
  BY Fields, StoreAssumption DEF StoreInit
<1>4. sent \in [scene.calls -> 0..MaxCalls] /\ now \in 0..scene.until
  BY StoreAssumption DEF StoreInit
<1> QED
  BY <1>1, <1>2, <1>3, <1>4 DEF StoreInit, BusInv, Heard, DoneIsStored

-----------------------------------------------------------------------------
\* Whatever is sent, re-run or cut off, a running unit runs a request of its scene in one
\* of its attempts, and an answer that reports it done names a receipt.
THEOREM BusInvariance == Spec => []BusInv
<1> QED
  BY InitHolds, StepKeeps, PTL DEF Spec

\* A caller is told its request is done only when the committed receipt of its key
\* names that request, however many processes, copies, re-runs and cut-offs there are.
THEOREM DoneMeansStored == Spec => []DoneIsStored
<1>1. BusInv => DoneIsStored
  BY DEF BusInv
<1> QED
  BY <1>1, BusInvariance, PTL

\* Receipts change only by a COMMIT, which adds one.
LEMMA StepStands ==
  ASSUME BusInv, [Next]_store
  PROVE  \A k \in DOMAIN receipt : k \in DOMAIN receipt' /\ receipt'[k] = receipt[k]
<1>1. CASE \E p \in Processes : InventoryStatement(p) \/ CommerceStatement(p) \/ DocumentStatement(p)
  <2>1. PICK p \in Processes : Outcome(p)
    BY <1>1, InventoryOutcome, CommerceOutcome, DocumentOutcome DEF BusInv
  <2> QED
    BY <2>1 DEF Outcome, GoesOn, Becomes, Refuse, GiveUp, Rerun
<1>2. CASE \E p \in Processes : Ends(p)
  <2>1. PICK p \in Processes : Commit(p)
    BY <1>2 DEF Ends
  <2>2. CASE Stored(unit[p].calls)
    BY <2>1, <2>2 DEF Commit, Rerun, GiveUp, Becomes
  <2>3. CASE ~Stored(unit[p].calls)
    BY <2>1, <2>3 DEF Commit, Stored
  <2> QED
    BY <2>2, <2>3
<1>3. CASE \E p \in Processes : Look(p)
  BY <1>3 DEF Look, Becomes
<1>4. CASE \/ \E p \in Processes : (\E q \in scene.calls : Send(p, q)) \/ Fail(p)
           \/ Tick \/ UNCHANGED store
  BY ZenonT(40), <1>4 DEF Send, Fail, GiveUp, Becomes, Tick, store
<1> QED
  BY <1>1, <1>2, <1>3, <1>4 DEF Next

\* The outcome stored under a key is never replaced nor removed, whatever copies of
\* its request, or other requests under the same key, run beside it.
THEOREM OutcomeStands == Spec => StoredStands
<1>1. BusInv /\ [Next]_store =>
        [\A k \in DOMAIN receipt : k \in DOMAIN receipt' /\ receipt'[k] = receipt[k]]_store
  BY StepStands
<1> QED
  BY <1>1, BusInvariance, PTL DEF Spec, StoredStands

\* Where a statement stands: in which commands, at which place.
Place(op, k, s) ==
  /\ s = "move" => op = "move" /\ k = 1
  /\ s = "readOrder" => op \in {"confirm", "complete", "completeOnly", "cancel"} /\ k = 1
  /\ s = "closeOrder" => (op \in {"confirm", "completeOnly", "cancel"} /\ k = 2) \/ (op = "complete" /\ k = 3)
  /\ s = "issueOrder" => op = "complete" /\ k = 2
  /\ s = "insertSale" => op = "sale" /\ k = 1
  /\ s = "issueSale" => op = "sale" /\ k = 2
  /\ s = "paySale" => op = "sale" /\ k = 3
  /\ s = "readPayable" => op \in {"pay", "refund"} /\ k = 1
  /\ s = "recordPayment" => op \in {"pay", "refund"} /\ k = 2
  /\ s = "readPayment" => op \in {"verify", "reject"} /\ k = 1
  /\ s = "ceiling" => op = "verify" /\ k = 2
  /\ s = "settlePayment" => (op = "verify" /\ k = 3) \/ (op = "reject" /\ k = 2)
  /\ s = "askPromise" => op = "hold" /\ k = 1
  /\ s = "placeHold" => op = "hold" /\ k = 2
  /\ s = "readHold" => op \in {"release", "convert"} /\ k = 1
  /\ s = "releaseHold" => op = "release" /\ k = 2
  /\ s = "placeCommitted" => op = "convert" /\ k = 2
  /\ s = "convertHold" => op = "convert" /\ k = 3
  /\ s = "readDue" => op = "expire" /\ k = 1
  /\ s = "stampDue" => op = "expire" /\ k = 2
  /\ s = "preview" => op = "preview" /\ k = 1
  /\ s = "settleCount" => op = "count" /\ k = 1
  /\ s = "readPurchase" => op \in {"receive", "withdraw", "short"} /\ k = 1
  /\ s = "insertReceipt" => op = "receive" /\ k = 2
  /\ s = "stockReceipt" => op = "receive" /\ k = 3
  /\ s = "closePurchase" => (op = "receive" /\ k = 4) \/ (op \in {"withdraw", "short"} /\ k = 2)
  /\ s = "readWork" => op \in {"stageWork", "finishWork", "cancelWork"} /\ k = 1
  /\ s = "moveWork" => op \in {"stageWork", "finishWork", "cancelWork"} /\ k = 2
  /\ s = "closeWork" => op \in {"stageWork", "finishWork", "cancelWork"} /\ k = 3

\* Every statement stands where its name says.
LEMMA Places ==
  ASSUME NEW op \in DOMAIN Program, NEW k \in 1..Len(Program[op])
  PROVE  Place(op, k, Program[op][k])
<1>1. CASE op = "move"
  BY <1>1 DEF Program, Place
<1>2. CASE op = "confirm"
  BY <1>2 DEF Program, Place
<1>3. CASE op = "complete"
  BY <1>3 DEF Program, Place
<1>4. CASE op = "cancel"
  BY <1>4 DEF Program, Place
<1>5. CASE op = "sale"
  BY <1>5 DEF Program, Place
<1>6. CASE op = "pay"
  BY <1>6 DEF Program, Place
<1>7. CASE op = "refund"
  BY <1>7 DEF Program, Place
<1>8. CASE op = "verify"
  BY <1>8 DEF Program, Place
<1>9. CASE op = "reject"
  BY <1>9 DEF Program, Place
<1>10. CASE op = "hold"
  BY <1>10 DEF Program, Place
<1>11. CASE op = "release"
  BY <1>11 DEF Program, Place
<1>12. CASE op = "convert"
  BY <1>12 DEF Program, Place
<1>13. CASE op = "expire"
  BY <1>13 DEF Program, Place
<1>14. CASE op = "preview"
  BY <1>14 DEF Program, Place
<1>15. CASE op = "count"
  BY SMTT(40), <1>15 DEF Program, Place
<1>16. CASE op = "receive"
  BY <1>16 DEF Program, Place
<1>17. CASE op = "withdraw"
  BY <1>17 DEF Program, Place
<1>18. CASE op = "short"
  BY <1>18 DEF Program, Place
<1>19. CASE op = "stageWork"
  BY <1>19 DEF Program, Place
<1>20. CASE op = "finishWork"
  BY <1>20 DEF Program, Place
<1>21. CASE op = "cancelWork"
  BY <1>21 DEF Program, Place
<1>22. CASE op = "completeOnly"
  BY <1>22 DEF Program, Place
<1> QED
  BY <1>1, <1>2, <1>3, <1>4, <1>5, <1>6, <1>7, <1>8, <1>9, <1>10, <1>11, <1>12, <1>13, <1>14, <1>15, <1>16, <1>17, <1>18, <1>19, <1>20, <1>21, <1>22 DEF Program

\* The statement of a command that inserts into a table, for the commands that do.
Slot(op, t) ==
  CASE t = "ledger" /\ op = "receive" -> 3
    [] t = "ledger" /\ op \in {"move", "count"} -> 1
    [] t = "orders" -> 1
    [] t = "pays" /\ op = "sale" -> 3
    [] OTHER -> 2

\* The tables whose rows are updated.
Kept == {"fence", "orders", "pays", "holds", "counts", "pos", "works"}

\* What unit u reads of the database d.
View(u, d) ==
  [t \in Tables |->
     [i \in 1..Len(d[t]) |-> IF <<t, i>> \in DOMAIN u.set THEN u.set[<<t, i>>] ELSE d[t][i]]
       \o u.new[t]]

Fit(u, d, n) ==
  /\ u.pc \in Nat /\ u.at \in 0..n
  /\ DOMAIN u.new = Tables /\ \A t \in Tables : u.new[t] \in Seq(Row[t])
  /\ \A k \in DOMAIN u.set :
       k \in Kept \X Nat /\ k[2] \in 1..Len(d[k[1]]) /\ u.set[k] \in Row[k[1]]

Clean(u) ==
  /\ u.run = 0 => u.pc = 0
  /\ u.pc <= 1 => u.new = NoRows /\ DOMAIN u.set = {}

Written(u) ==
  /\ \A t \in Keyed :
       IF u.pc > 0 /\ u.pc > Slot(u.calls.op, t) THEN Len(u.new[t]) \in Rights(u.calls)[t]
       ELSE u.new[t] = <<>>
  /\ \A t \in Keyed : \A i \in 1..Len(u.new[t]) : u.new[t][i].by = u.calls.key
  /\ u.new.fence = <<>> /\ u.new.pos = <<>> /\ u.new.works = <<>>
  /\ u.new.counts # <<>> => u.calls.op = "preview"

\* The unit runs one of these commands and is past that many of its statements.
Past(u, ops, k) == u.pc > k /\ u.calls.op \in ops

\* The row is there, and at the version that was seen it is the row that was seen.
Saw(u, rows) ==
  /\ u.calls.on \in 1..Len(rows)
  /\ u.seen.ver <= rows[u.calls.on].ver
  /\ u.seen.ver = rows[u.calls.on].ver => rows[u.calls.on] = u.seen

\* The purchase order is there, and at the version that was seen it still is open.
SawOpen(u, rows) ==
  /\ u.calls.on \in 1..Len(rows)
  /\ u.seen.ver \in Nat /\ u.seen.ver <= rows[u.calls.on].ver
  /\ u.seen.ver = rows[u.calls.on].ver =>
       rows[u.calls.on].qty = u.seen.qty /\ rows[u.calls.on].status \in {"DRAFT", "SENT"}

Noted(u, d) ==
  /\ Past(u, {"confirm", "complete", "completeOnly", "cancel"}, 1) =>
       /\ Saw(u, d.orders) /\ u.seen \in Row.orders
       /\ u.seen.status \in {"DRAFT", "CONFIRMED"}
  /\ Past(u, {"pay", "refund"}, 1) => u.calls.on \in 1..Len(d.orders)
  /\ Past(u, {"verify", "reject"}, 1) =>
       /\ Saw(u, d.pays) /\ u.seen \in Row.pays
       /\ u.seen.status = "PENDING" /\ u.seen.order \in 1..Len(d.orders)
  /\ Past(u, {"release", "convert"}, 1) => Saw(u, d.holds) /\ u.seen \in Row.holds
  /\ Past(u, {"expire"}, 1) => u.due \subseteq 1..Len(d.holds)
  /\ Past(u, {"receive", "withdraw", "short"}, 1) => SawOpen(u, d.pos)
  /\ Past(u, {"stageWork", "finishWork", "cancelWork"}, 1) =>
       /\ Saw(u, d.works) /\ u.seen \in Row.works
       /\ u.calls.op = "finishWork" => u.seen.status \in Opened
       /\ u.calls.op = "stageWork" => u.seen.status = "DRAFT"
       /\ u.calls.op = "cancelWork" => u.seen.status \in Opened \cup {"DRAFT"}

\* What each command that ends a hold makes of it.
Ended(op) == IF op = "release" THEN "RELEASED" ELSE IF op = "convert" THEN "CONVERTED" ELSE "EXPIRED"

\* The unit ends the live hold a, row i, as b: the one its caller names, if any.
EndsHold(u, a, b, i) ==
  /\ u.calls.op \in {"release", "convert", "expire"} /\ a.status = "ACTIVE"
  /\ u.calls.op # "expire" => i = u.calls.on /\ a = u.seen
  /\ b = [a EXCEPT !.status = Ended(u.calls.op), !.ver = @ + 1]

\* What each command that closes a sales or a purchase order makes of it.
OrderEnd(op) ==
  IF op = "confirm" THEN "CONFIRMED" ELSE IF op = "cancel" THEN "CANCELLED" ELSE "COMPLETED"

PurchaseEnd(u) ==
  IF u.calls.op = "withdraw" THEN "CANCELLED" ELSE IF u.calls.op = "short" THEN "SHORT_CLOSED"
  ELSE IF u.seen.got + u.calls.qty = u.seen.qty THEN "RECEIVED" ELSE "SENT"

\* The work order a becomes b when it is staged, run or cancelled for the request q.
WorkEnd(q, a, b) ==
  /\ b.kind = a.kind /\ b.gross = a.gross
  /\ q.op = "stageWork" =>
       b.status = "IN_PROGRESS" /\ b.issued = a.gross /\ b.made = a.made /\ b.scrapped = a.scrapped
  /\ q.op = "finishWork" =>
       b.status \in {"BLOCKED_SHORTAGE", "COMPLETED"} /\ b.issued = a.issued /\ b.made = q.qty
  /\ q.op = "cancelWork" =>
       b.status = "CANCELLED" /\ b.issued = a.issued /\ b.made = a.made /\ b.scrapped = a.scrapped

\* The unit leaves the document a, row i of t, as b: locked as it is, or closed from the
\* version it saw.
Marks(u, a, b, t, i) ==
  \/ t = "orders" /\ u.calls.op = "verify" /\ b = a
  \/ /\ i = u.calls.on /\ a.ver = u.seen.ver /\ b.ver = a.ver + 1
     /\ \/ /\ t = "orders" /\ u.calls.op \in {"confirm", "complete", "completeOnly", "cancel"}
           /\ b.status = OrderEnd(u.calls.op) /\ b.qty = a.qty
           /\ b.issued <=> a.issued \/ u.calls.op = "complete"
        \/ /\ t = "pos" /\ u.calls.op \in {"receive", "withdraw", "short"}
           /\ b.qty = a.qty /\ b.status = PurchaseEnd(u)
        \/ t = "works" /\ u.calls.op \in {"stageWork", "finishWork", "cancelWork"} /\ WorkEnd(u.calls, a, b)

Changed(u, d) ==
  \A k \in DOMAIN u.set :
    /\ k[1] \in Keyed => u.set[k].by = d[k[1]][k[2]].by
    /\ k[1] \in {"orders", "pos", "works"} => Marks(u, d[k[1]][k[2]], u.set[k], k[1], k[2])
    /\ k[1] = "works" => u.pc > 3 /\ u.set[k].ver > d.works[k[2]].ver
    /\ k[1] = "pays" =>
         /\ Past(u, {"verify"}, 3) \/ Past(u, {"reject"}, 2)
         /\ k[2] = u.calls.on /\ d.pays[k[2]] = u.seen
         /\ u.set[k] = [u.seen EXCEPT !.ver = @ + 1,
                          !.status = IF u.calls.op = "verify" THEN "VERIFIED" ELSE "REJECTED"]
    /\ k[1] = "holds" => EndsHold(u, d.holds[k[2]], u.set[k], k[2])

Guarded(u) ==
  \/ <<"fence", 1>> \in DOMAIN u.set
  \/ u.new.ledger = <<>> /\ u.new.counts = <<>> /\ \A k \in DOMAIN u.set : k[1] # "counts"

Named(d) ==
  \A k \in 1..Len(d.ledger) :
    d.ledger[k].on[1] = "counts" => d.ledger[k].on[2] \in 1..Len(d.counts)

Stocked(d) == Covers(d) /\ Stood(d) /\ Fresh(d) /\ Named(d)

Backed(u, d) ==
  /\ \A i \in 1..Len(u.new.pays) :
       u.new.pays[i].status = "PENDING" /\ u.new.pays[i].order \in 1..Len(View(u, d).orders)
  /\ Past(u, {"verify"}, 2) /\ u.seen.kind = "REFUND" =>
       <<"orders", u.seen.order>> \in DOMAIN u.set /\ Net(d.pays, u.seen.order) >= u.seen.qty

Local(u, d, n) ==
  /\ Fit(u, d, n) /\ Clean(u) /\ Written(u) /\ Noted(u, d) /\ Changed(u, d)
  /\ Guarded(u) /\ Stocked(View(u, d)) /\ Backed(u, d)

Apart(u, w) ==
  /\ DOMAIN u.set \cap DOMAIN w.set = {}
  /\ \A t \in Coded : u.new[t] = <<>> \/ w.new[t] = <<>>

\* What the next statement starts from,
LEMMA ThenFields ==
  ASSUME NEW u, Shaped(u), NEW v, v = Then(u)
  PROVE  /\ Shaped(v) /\ v.pc = u.pc + 1 /\ v.want = 0
         /\ v.calls = u.calls /\ v.run = u.run /\ v.at = u.at /\ v.seen = u.seen
         /\ v.due = u.due /\ v.new = u.new /\ v.set = u.set
BY Fields DEF Shaped, Then

\* what an updated row changes of a unit,
LEMMA UpdatedFields ==
  ASSUME NEW u, Shaped(u), NEW t, NEW i, NEW row, NEW v, v = Updated(u, t, i, row)
  PROVE  /\ Shaped(v) /\ v.pc = u.pc /\ v.want = u.want
         /\ v.calls = u.calls /\ v.run = u.run /\ v.at = u.at /\ v.seen = u.seen
         /\ v.due = u.due /\ v.new = u.new
         /\ DOMAIN v.set = DOMAIN u.set \cup {<<t, i>>}
         /\ v.set[<<t, i>>] = row
         /\ \A k \in DOMAIN u.set : k # <<t, i>> => v.set[k] = u.set[k]
<1>1. v.set = [k \in DOMAIN u.set \cup {<<t, i>>} |-> IF k = <<t, i>> THEN row ELSE u.set[k]]
  BY Fields DEF Shaped, Updated
<1>2. /\ DOMAIN v.set = DOMAIN u.set \cup {<<t, i>>}
      /\ v.set[<<t, i>>] = row
      /\ \A k \in DOMAIN u.set : k # <<t, i>> => v.set[k] = u.set[k]
  <2>1. PICK f, x, g : f = u.set /\ x = <<t, i>> /\ g = v.set
    OBVIOUS
  <2>2. g = [y \in DOMAIN f \cup {x} |-> IF y = x THEN row ELSE f[y]]
    BY <1>1, <2>1
  <2>3. DOMAIN g = DOMAIN f \cup {x} /\ g[x] = row /\ \A k \in DOMAIN f : k # x => g[k] = f[k]
    <3>1. g = [y \in {x} \cup DOMAIN f |-> IF y = x THEN row ELSE f[y]]
      BY <2>2
    <3> QED BY <3>1
  <2> QED BY <2>1, <2>3
<1> QED
BY <1>2, Fields DEF Shaped, Updated

\* and what an inserted one does.
LEMMA AppendedFields ==
  ASSUME NEW u, Shaped(u), NEW t \in DOMAIN u.new, NEW row, NEW v, v = Appended(u, t, row)
  PROVE  /\ Shaped(v) /\ v.pc = u.pc /\ v.want = u.want
         /\ v.calls = u.calls /\ v.run = u.run /\ v.at = u.at /\ v.seen = u.seen
         /\ v.due = u.due /\ v.set = u.set /\ DOMAIN v.new = DOMAIN u.new
         /\ v.new[t] = Append(u.new[t], row)
         /\ \A s \in DOMAIN u.new : s # t => v.new[s] = u.new[s]
BY Fields DEF Shaped, Appended

-----------------------------------------------------------------------------
\* What a unit reads.

\* u and v have the same rows of t inserted and updated.
Agree(u, v, t) ==
  /\ v.new[t] = u.new[t]
  /\ \A i \in Nat : <<t, i>> \in DOMAIN v.set <=> <<t, i>> \in DOMAIN u.set
  /\ \A i \in Nat : <<t, i>> \in DOMAIN u.set => v.set[<<t, i>>] = u.set[<<t, i>>]

\* The committed rows of t under the updates of u.
Over(u, d, t) ==
  [i \in 1..Len(d[t]) |-> IF <<t, i>> \in DOMAIN u.set THEN u.set[<<t, i>>] ELSE d[t][i]]

\* A unit reads the committed rows under its updates, and then its insertions.
LEMMA ViewIs ==
  ASSUME NEW u, NEW d, NEW t \in Tables
  PROVE  View(u, d)[t] = Over(u, d, t) \o u.new[t]
BY ZenonT(40) DEF View, Over

\* Under the updates the rows are as many, and of their type.
LEMMA OverRows ==
  ASSUME NEW u, NEW d, NEW n, Typed(d), Fit(u, d, n), NEW t \in Tables
  PROVE  Over(u, d, t) \in Seq(Row[t]) /\ Len(Over(u, d, t)) = Len(d[t]) /\ Len(d[t]) \in Nat
<1>1. d[t] \in Seq(Row[t])
  BY DEF Typed
<1>2. PICK m, c : m \in Nat /\ c = d[t] /\ m = Len(c) /\ c \in Seq(Row[t])
  BY <1>1
<1>3. ASSUME NEW i \in 1..m
      PROVE  (IF <<t, i>> \in DOMAIN u.set THEN u.set[<<t, i>>] ELSE c[i]) \in Row[t]
  <2>1. c[i] \in Row[t]
    BY <1>2
  <2>2. <<t, i>> \in DOMAIN u.set => u.set[<<t, i>>] \in Row[<<t, i>>[1]]
    BY DEF Fit
  <2> QED BY <2>1, <2>2
<1>4. PICK o : o = [i \in 1..m |-> IF <<t, i>> \in DOMAIN u.set THEN u.set[<<t, i>>] ELSE c[i]]
  OBVIOUS
<1>5. o \in Seq(Row[t]) /\ Len(o) = m
  <2>1. o \in [1..m -> Row[t]]
    BY <1>3, <1>4
  <2>2. m \in Nat
    BY <1>2
  <2> QED BY ONLY <2>1, <2>2
<1>6. o = Over(u, d, t)
  BY <1>2, <1>4 DEF Over
<1> QED BY <1>2, <1>5, <1>6

\* The items of one list after another.
LEMMA Joined ==
  \A S, r : \A o, w \in Seq(S) : r = o \o w =>
    /\ r \in Seq(S) /\ Len(r) = Len(o) + Len(w) /\ Len(w) \in Nat
    /\ \A i \in 1..Len(o) : i \in 1..Len(r) /\ r[i] = o[i]
    /\ \A i \in 1..Len(w) : r[Len(o) + i] = w[i]
<1> SUFFICES
      ASSUME NEW S, NEW r, NEW o \in Seq(S), NEW w \in Seq(S), r = o \o w
      PROVE  /\ r \in Seq(S) /\ Len(r) = Len(o) + Len(w) /\ Len(w) \in Nat
             /\ \A i \in 1..Len(o) : i \in 1..Len(r) /\ r[i] = o[i]
             /\ \A i \in 1..Len(w) : r[Len(o) + i] = w[i]
  OBVIOUS
<1>1. r \in Seq(S) /\ Len(r) = Len(o) + Len(w) /\ Len(w) \in Nat /\ Len(o) \in Nat
  OBVIOUS
<1>2. \A i \in 1..Len(o) : i \in 1..Len(r) /\ r[i] = o[i]
  BY <1>1
<1>3. \A i \in 1..Len(w) : r[Len(o) + i] = w[i]
  BY <1>1
<1> QED BY <1>1, <1>2, <1>3

\* r is table t of d as unit u reads it.
Reads(r, u, d, t) ==
  /\ r \in Seq(Row[t]) /\ Len(r) = Len(d[t]) + Len(u.new[t])
  /\ Len(d[t]) \in Nat /\ Len(u.new[t]) \in Nat
  /\ \A i \in 1..Len(d[t]) :
       i \in 1..Len(r) /\ r[i] = IF <<t, i>> \in DOMAIN u.set THEN u.set[<<t, i>>] ELSE d[t][i]
  /\ \A i \in 1..Len(u.new[t]) : r[Len(d[t]) + i] = u.new[t][i]

\* What a unit reads of a table, row by row.
LEMMA ViewRows ==
  ASSUME NEW u, NEW d, NEW n, Typed(d), Fit(u, d, n), NEW t \in Tables
  PROVE  Reads(View(u, d)[t], u, d, t)
<1>0. PICK r : r = View(u, d)[t]
  OBVIOUS
<1>1. PICK o, w : o = Over(u, d, t) /\ w = u.new[t] /\ r = o \o w
  BY ZenonT(40), <1>0, ViewIs
<1>2. o \in Seq(Row[t]) /\ Len(o) = Len(d[t]) /\ Len(d[t]) \in Nat
  BY <1>1, OverRows
<1>3. w \in Seq(Row[t])
  BY <1>1 DEF Fit
<1>4. /\ r \in Seq(Row[t]) /\ Len(r) = Len(o) + Len(w) /\ Len(w) \in Nat
      /\ \A i \in 1..Len(o) : i \in 1..Len(r) /\ r[i] = o[i]
      /\ \A i \in 1..Len(w) : r[Len(o) + i] = w[i]
  <2>1. PICK S : S = Row[t]
    OBVIOUS
  <2>2. o \in Seq(S) /\ w \in Seq(S)
    BY <1>2, <1>3, <2>1
  <2>3. r = o \o w
    BY <1>1
  <2>4. /\ r \in Seq(S) /\ Len(r) = Len(o) + Len(w) /\ Len(w) \in Nat
        /\ \A i \in 1..Len(o) : i \in 1..Len(r) /\ r[i] = o[i]
        /\ \A i \in 1..Len(w) : r[Len(o) + i] = w[i]
    BY ONLY <2>2, <2>3, Joined
  <2> QED BY <2>1, <2>4
<1>5. \A i \in 1..Len(d[t]) : o[i] = IF <<t, i>> \in DOMAIN u.set THEN u.set[<<t, i>>] ELSE d[t][i]
  BY <1>1 DEF Over
<1> QED BY ZenonT(40), <1>0, <1>1, <1>2, <1>4, <1>5 DEF Reads

\* The same updates give the same rows,
LEMMA OverSame ==
  ASSUME NEW u, NEW v, NEW d, NEW t \in Tables, Len(d[t]) \in Nat, Agree(u, v, t)
  PROVE  Over(v, d, t) = Over(u, d, t)
<1>1. \A i \in 1..Len(d[t]) :
        (IF <<t, i>> \in DOMAIN v.set THEN v.set[<<t, i>>] ELSE d[t][i])
          = (IF <<t, i>> \in DOMAIN u.set THEN u.set[<<t, i>>] ELSE d[t][i])
  BY DEF Agree
<1> QED BY <1>1 DEF Over

\* the same updates and insertions the same view,
LEMMA ViewSame ==
  ASSUME NEW u, NEW v, NEW d, NEW t \in Tables, Len(d[t]) \in Nat, Agree(u, v, t)
  PROVE  View(v, d)[t] = View(u, d)[t]
<1>1. Over(v, d, t) = Over(u, d, t) /\ v.new[t] = u.new[t]
  BY OverSame DEF Agree
<1> QED BY ZenonT(40), <1>1 DEF View, Over

\* v has inserted more rows into t than u, and updated the same.
Grows(u, v, t, more) ==
  /\ more \in Seq(Row[t]) /\ v.new[t] = u.new[t] \o more
  /\ \A i \in Nat : <<t, i>> \in DOMAIN v.set <=> <<t, i>> \in DOMAIN u.set
  /\ \A i \in Nat : <<t, i>> \in DOMAIN u.set => v.set[<<t, i>>] = u.set[<<t, i>>]

\* more insertions a longer one,
LEMMA ViewMore ==
  ASSUME NEW u, NEW v, NEW d, NEW n, Typed(d), Fit(u, d, n), NEW t \in Tables, NEW more,
         Grows(u, v, t, more)
  PROVE  View(v, d)[t] = View(u, d)[t] \o more
<1>1. PICK o, w : o = Over(u, d, t) /\ w = u.new[t] /\ View(u, d)[t] = o \o w
  BY ZenonT(40) DEF View, Over
<1>2. o \in Seq(Row[t]) /\ w \in Seq(Row[t]) /\ Len(d[t]) \in Nat
  BY ZenonT(40), <1>1, OverRows DEF Fit, Grows
<1>3. Over(v, d, t) = o
  <2>1. \A i \in 1..Len(d[t]) :
          (IF <<t, i>> \in DOMAIN v.set THEN v.set[<<t, i>>] ELSE d[t][i])
            = (IF <<t, i>> \in DOMAIN u.set THEN u.set[<<t, i>>] ELSE d[t][i])
    BY SMTT(40), <1>2 DEF Grows
  <2> QED BY <1>1, <2>1 DEF Over
<1>4. View(v, d)[t] = o \o (w \o more)
  BY ZenonT(40), <1>1, <1>3 DEF View, Over, Grows
<1>5. o \o (w \o more) = (o \o w) \o more
  BY SMTT(40), <1>2 DEF Grows
<1> QED BY <1>1, <1>4, <1>5

\* v has the rows of u inserted into t and updated, but row i of t updated to row.
Sets(u, v, t, i, row) ==
  /\ v.new[t] = u.new[t]
  /\ <<t, i>> \in DOMAIN v.set /\ v.set[<<t, i>>] = row
  /\ \A j \in Nat : j # i => (<<t, j>> \in DOMAIN v.set <=> <<t, j>> \in DOMAIN u.set)
  /\ \A j \in Nat : j # i /\ <<t, j>> \in DOMAIN u.set => v.set[<<t, j>>] = u.set[<<t, j>>]

\* another row set a view that differs in that row,
LEMMA ViewChanged ==
  ASSUME NEW u, NEW v, NEW d, NEW n, Typed(d), Fit(u, d, n), Fit(v, d, n), NEW t \in Tables,
         NEW i \in 1..Len(d[t]), NEW row, Sets(u, v, t, i, row),
         NEW r, r = View(u, d)[t], NEW s, s = View(v, d)[t]
  PROVE  Len(s) = Len(r) /\ i \in 1..Len(r) /\ \A j \in 1..Len(r) : s[j] = IF j = i THEN row ELSE r[j]
<1>0. Reads(r, u, d, t) /\ Reads(s, v, d, t)
  BY ViewRows
<1>1. PICK m \in Nat, l \in Nat : m = Len(d[t]) /\ l = Len(u.new[t]) /\ Len(r) = m + l /\ Len(s) = m + l
  <2>1. v.new[t] = u.new[t]
    BY DEF Sets
  <2> QED BY ONLY ZenonT(40), <1>0, <2>1 DEF Reads
<1>2. /\ \A j \in 1..m : r[j] = IF <<t, j>> \in DOMAIN u.set THEN u.set[<<t, j>>] ELSE d[t][j]
      /\ \A j \in 1..m : s[j] = IF <<t, j>> \in DOMAIN v.set THEN v.set[<<t, j>>] ELSE d[t][j]
  BY ZenonT(40), <1>0, <1>1 DEF Reads
<1>3. /\ \A j \in 1..l : r[m + j] = u.new[t][j]
      /\ \A j \in 1..l : s[m + j] = v.new[t][j]
  BY ZenonT(40), <1>0, <1>1 DEF Reads, Sets
<1>4. ASSUME NEW j \in 1..(m + l) PROVE s[j] = IF j = i THEN row ELSE r[j]
  <2>1. CASE j \in 1..m
    <3>1. j \in Nat
      OBVIOUS
    <3> QED BY ZenonT(40), <1>2, <2>1, <3>1 DEF Sets
  <2>2. CASE j \notin 1..m
    <3>1. PICK x \in 1..l : j = m + x
      <4>1. j - m \in 1..l /\ j = m + (j - m)
        BY <2>2
      <4> QED BY <4>1
    <3>2. j # i
      BY <1>1, <2>2
    <3> QED BY ZenonT(40), <1>3, <3>1, <3>2 DEF Sets
  <2> QED BY <2>1, <2>2
<1>5. i \in 1..(m + l)
  <2>1. i \in 1..m
    BY <1>1
  <2> QED BY ONLY <2>1, m \in Nat, l \in Nat
<1>6. Len(s) = Len(r) /\ Len(r) = m + l
  BY <1>1
<1>7. \A j \in 1..Len(r) : s[j] = IF j = i THEN row ELSE r[j]
  BY ONLY <1>4, <1>6
<1>8. i \in 1..Len(r)
  BY ONLY <1>5, <1>6
<1> QED BY <1>6, <1>7, <1>8

\* and nothing written what is committed.
LEMMA ViewClean ==
  ASSUME NEW u, NEW d, Typed(d), u.new = NoRows, DOMAIN u.set = {}
  PROVE  \A t \in Tables : View(u, d)[t] = d[t]
<1> SUFFICES ASSUME NEW t \in Tables PROVE View(u, d)[t] = d[t]
  OBVIOUS
<1>1. d[t] \in Seq(Row[t]) /\ u.new[t] = <<>>
  BY DEF Typed, NoRows
<1>2. Over(u, d, t) = d[t]
  BY <1>1 DEF Over
<1>3. d[t] \o <<>> = d[t]
  BY <1>1
<1> QED BY ZenonT(40), <1>1, <1>2, <1>3, ViewIs

-----------------------------------------------------------------------------
\* Stock, ledger by ledger.

\* The stock of a product is a number.
LEMMA OnHandType ==
  ASSUME NEW ledger \in Seq(Row.ledger), NEW x
  PROVE  OnHand(ledger, x) \in Int
<1>1. PICK R, w : R = Row.ledger /\ w = Brings(x) /\ w \in [R -> Int] /\ OnHand(ledger, x) = Weigh(ledger, w)
  BY OnHandWeighs
<1>2. ledger \in Seq(R)
  BY <1>1
<1>3. Weigh(ledger, w) \in Int
  BY <1>1, <1>2, WeighType
<1> QED BY <1>1, <1>3

\* One more movement of x changes its stock by its quantity, of another product not.
LEMMA OnHandMore ==
  ASSUME NEW ledger \in Seq(Row.ledger), NEW more \in Seq(Row.ledger),
         Longer(more, ledger), NEW x, more[Len(more)].prod # x
  PROVE  OnHand(more, x) = OnHand(ledger, x)
<1>1. PICK R, w : R = Row.ledger /\ w = Brings(x) /\ w \in [R -> Int]
  BY OnHandWeighs
<1>2. ledger \in Seq(R) /\ more \in Seq(R)
  BY <1>1
<1>3. OnHand(ledger, x) = Weigh(ledger, w) /\ OnHand(more, x) = Weigh(more, w)
  BY <1>1, OnHandWeighs
<1>4. Weigh(more, w) = Weigh(ledger, w) + w[more[Len(more)]]
  <2>1. Longer(more, ledger) /\ w \in [R -> Int]
    BY <1>1
  <2> QED BY ONLY ZenonT(40), <1>2, <2>1, WeighMore
<1>5. Len(more) \in 1..Len(more)
  BY <1>2 DEF Longer
<1>6. more[Len(more)] \in Row.ledger
  BY <1>5
<1>7. w[more[Len(more)]] = 0
  BY <1>1, <1>6 DEF Brings
<1>8. Weigh(ledger, w) \in Int
  BY <1>1, <1>2, WeighType
<1> QED BY <1>3, <1>4, <1>7, <1>8

\* The first m of some movements.
LEMMA Cut ==
  ASSUME NEW S, NEW s \in Seq(S), NEW m \in Nat, m <= Len(s)
  PROVE  /\ SubSeq(s, 1, m) \in Seq(S) /\ Len(SubSeq(s, 1, m)) = m
         /\ \A i \in 1..m : SubSeq(s, 1, m)[i] = s[i]
<1>1. SubSeq(s, 1, m) = [i \in 1..m |-> s[i]]
  BY DEF SubSeq
<1>2. \A i \in 1..m : s[i] \in S
  OBVIOUS
<1> QED BY <1>1, <1>2

\* Nothing may leave that is not there, one movement after the other.
Covering(ledger, moves) ==
  \A i \in 1..Len(moves) : OnHand(ledger \o SubSeq(moves, 1, i), moves[i].prod) >= 0

\* A ledger that covers every product still does after movements that were covered
\* one by one.
LEMMA CoveredCovers ==
  ASSUME NEW ledger \in Seq(Row.ledger), NEW moves \in Seq(Row.ledger), Covering(ledger, moves),
         NEW x, OnHand(ledger, x) >= 0
  PROVE  OnHand(ledger \o moves, x) >= 0
<1>1. PICK n \in Nat : n = Len(moves)
  OBVIOUS
<1> DEFINE upto(i) == ledger \o SubSeq(moves, 1, i)
           T == {i \in 0..n : ~(OnHand(upto(i), x) >= 0)}
<1>2. ASSUME NEW i \in 0..n
      PROVE  /\ upto(i) \in Seq(Row.ledger) /\ Len(upto(i)) = Len(ledger) + i
             /\ \A j \in 1..Len(ledger) : upto(i)[j] = ledger[j]
             /\ \A j \in 1..i : upto(i)[Len(ledger) + j] = moves[j]
  <2>1. PICK S, s : S = Row.ledger /\ s = SubSeq(moves, 1, i)
    OBVIOUS
  <2>2. moves \in Seq(S) /\ i \in Nat /\ i <= Len(moves)
    BY <1>1, <2>1
  <2>3. s \in Seq(S) /\ Len(s) = i /\ \A j \in 1..i : s[j] = moves[j]
    <3>1. SubSeq(moves, 1, i) \in Seq(S) /\ Len(SubSeq(moves, 1, i)) = i
          /\ \A j \in 1..i : SubSeq(moves, 1, i)[j] = moves[j]
      BY ONLY <2>2, Cut
    <3> QED BY <2>1, <3>1
  <2>4. ledger \in Seq(S) /\ upto(i) = ledger \o s
    BY <2>1
  <2>5. PICK y : y = upto(i) /\ y = ledger \o s
    BY ZenonT(40), <2>4
  <2> HIDE DEF upto
  <2>6. /\ y \in Seq(S) /\ Len(y) = Len(ledger) + Len(s)
        /\ \A j \in 1..Len(ledger) : j \in 1..Len(y) /\ y[j] = ledger[j]
        /\ \A j \in 1..Len(s) : y[Len(ledger) + j] = s[j]
    <3>1. s \in Seq(S) /\ ledger \in Seq(S) /\ y = ledger \o s
      BY <2>3, <2>4, <2>5
    <3> QED BY ONLY <3>1, Joined
  <2> QED BY <2>1, <2>3, <2>5, <2>6
<1>3. T = {}
  <2>1. SUFFICES ASSUME T # {} PROVE FALSE
    OBVIOUS
  <2>2. PICK m \in T : \A j \in T : m <= j
    <3>1. T \subseteq Nat
      BY <1>1
    <3> HIDE DEF T
    <3> QED BY ZenonT(40), <2>1, <3>1, Least
  <2>3. m \in 0..n /\ ~(OnHand(upto(m), x) >= 0)
    BY <2>2
  <2>4. m # 0
    <3>1. SubSeq(moves, 1, 0) = <<>>
      BY SubSeqEmpty
    <3>2. ledger \o <<>> = ledger
      OBVIOUS
    <3> QED BY ZenonT(40), <2>3, <3>1, <3>2
  <2>5. m - 1 \in 0..n /\ ~(m <= m - 1) /\ m \in 1..n /\ m \in Nat
    BY <1>1, <2>3, <2>4
  <2>6. OnHand(upto(m - 1), x) >= 0
    BY <2>2, <2>5
  <2>7. moves[m].prod # x
    <3>1. m \in 1..Len(moves)
      BY <1>1, <2>5
    <3>2. OnHand(upto(m), moves[m].prod) >= 0
      BY <3>1 DEF Covering
    <3> QED BY <2>3, <3>2
  <2>8. /\ upto(m) \in Seq(Row.ledger) /\ upto(m - 1) \in Seq(Row.ledger)
        /\ Len(upto(m)) = Len(ledger) + m /\ Len(upto(m - 1)) = Len(ledger) + (m - 1)
        /\ Len(ledger) \in Nat /\ upto(m)[Len(ledger) + m] = moves[m]
    BY SMTT(40), <1>2, <2>3, <2>5
  <2> HIDE DEF upto
  <2>9. Longer(upto(m), upto(m - 1))
    <3>1. Len(upto(m)) = Len(upto(m - 1)) + 1
      BY SMTT(40), <2>5, <2>8
    <3>2. ASSUME NEW j \in 1..Len(upto(m - 1)) PROVE upto(m)[j] = upto(m - 1)[j]
      <4>1. CASE j \in 1..Len(ledger)
        BY <1>2, <2>3, <2>5, <4>1
      <4>2. CASE j \notin 1..Len(ledger)
        <5>1. PICK k \in 1..(m - 1) : j = Len(ledger) + k
          <6>1. j - Len(ledger) \in 1..(m - 1) /\ j = Len(ledger) + (j - Len(ledger))
            BY <2>5, <2>8, <4>2
          <6> QED BY ZenonT(40), <6>1
        <5>2. k \in 1..m
          BY <2>5
        <5>3. upto(m)[Len(ledger) + k] = moves[k] /\ upto(m - 1)[Len(ledger) + k] = moves[k]
          BY ZenonT(40), <1>2, <2>3, <2>5, <5>1, <5>2
        <5> QED BY ONLY <5>1, <5>3
      <4> QED BY <4>1, <4>2
    <3> QED BY <3>1, <3>2 DEF Longer
  <2>10. PICK a, b : a = upto(m - 1) /\ b = upto(m)
    OBVIOUS
  <2>11. a \in Seq(Row.ledger) /\ b \in Seq(Row.ledger) /\ Longer(b, a) /\ b[Len(b)].prod # x
    BY ZenonT(40), <2>7, <2>8, <2>9, <2>10
  <2>12. OnHand(b, x) = OnHand(a, x)
    BY ONLY <2>11, OnHandMore
  <2> QED BY <2>3, <2>6, <2>10, <2>12
<1>4. OnHand(upto(n), x) >= 0
  BY <1>1, <1>3
<1>5. SubSeq(moves, 1, n) = moves
  <2>1. PICK s : s = SubSeq(moves, 1, n)
    OBVIOUS
  <2>2. PICK S : S = Row.ledger /\ moves \in Seq(S) /\ n \in Nat /\ n <= Len(moves)
    BY <1>1
  <2>3. /\ SubSeq(moves, 1, n) \in Seq(S) /\ Len(SubSeq(moves, 1, n)) = n
        /\ \A j \in 1..n : SubSeq(moves, 1, n)[j] = moves[j]
    BY ONLY ZenonT(40), <2>2, Cut
  <2>4. s \in Seq(S) /\ Len(s) = n /\ \A j \in 1..n : s[j] = moves[j]
    BY <2>1, <2>3
  <2> QED BY <1>1, <2>1, <2>2, <2>4
<1> QED BY ZenonT(40), <1>4, <1>5

\* What a ledger began with stays as it goes on.
LEMMA Prefix ==
  ASSUME NEW S, NEW l \in Seq(S), NEW m \in Seq(S), NEW k \in Nat, k <= Len(l)
  PROVE  SubSeq(l \o m, 1, k) = SubSeq(l, 1, k)
<1>1. PICK y : y = l \o m
  OBVIOUS
<1>2. y \in Seq(S) /\ Len(y) = Len(l) + Len(m) /\ \A i \in 1..Len(l) : y[i] = l[i]
  BY <1>1, Joined
<1>3. Len(l) \in Nat /\ Len(m) \in Nat /\ k <= Len(y)
  BY <1>2
<1>4. PICK a, b : a = SubSeq(y, 1, k) /\ b = SubSeq(l, 1, k)
  OBVIOUS
<1>5. a \in Seq(S) /\ Len(a) = k /\ \A i \in 1..k : a[i] = y[i]
  BY <1>2, <1>3, <1>4, Cut
<1>6. b \in Seq(S) /\ Len(b) = k /\ \A i \in 1..k : b[i] = l[i]
  BY <1>4, Cut
<1>7. \A i \in 1..k : a[i] = b[i]
  <2>1. ASSUME NEW i \in 1..k PROVE a[i] = b[i]
    <3>1. i \in 1..Len(l)
      BY <1>3
    <3> QED BY ONLY <1>2, <1>5, <1>6, <3>1, i \in 1..k
  <2> QED BY ONLY <2>1
<1>8. a = b
  BY ONLY <1>5, <1>6, <1>7
<1> QED BY <1>1, <1>4, <1>8

\* The three tables a stock is made of.
StockTyped(d) ==
  d.ledger \in Seq(Row.ledger) /\ d.counts \in Seq(Row.counts) /\ d.fence[1].ver \in Nat

\* Nothing that concerns the stock changed.
LEMMA StockedSame ==
  ASSUME NEW d, NEW e, e.ledger = d.ledger, e.counts = d.counts, e.fence[1].ver = d.fence[1].ver,
         Stocked(d)
  PROVE  Stocked(e)
BY DEF Stocked, Covers, Stood, Fresh, Named

\* The ledgers before each old movement are the same.
LEMMA PrefixStands ==
  ASSUME NEW ledger \in Seq(Row.ledger), NEW moves \in Seq(Row.ledger),
         NEW all, all = ledger \o moves
  PROVE  /\ all \in Seq(Row.ledger) /\ Len(all) = Len(ledger) + Len(moves)
         /\ Len(ledger) \in Nat /\ Len(moves) \in Nat
         /\ \A k \in 1..Len(ledger) :
              all[k] = ledger[k] /\ SubSeq(all, 1, k - 1) = SubSeq(ledger, 1, k - 1)
         /\ \A i \in 1..Len(moves) : all[Len(ledger) + i] = moves[i]
<1>1. PICK S : S = Row.ledger /\ ledger \in Seq(S) /\ moves \in Seq(S)
  OBVIOUS
<1>2. /\ all \in Seq(S) /\ Len(all) = Len(ledger) + Len(moves) /\ Len(moves) \in Nat
      /\ \A i \in 1..Len(ledger) : i \in 1..Len(all) /\ all[i] = ledger[i]
      /\ \A i \in 1..Len(moves) : all[Len(ledger) + i] = moves[i]
  <2>1. all = ledger \o moves
    OBVIOUS
  <2> QED BY ONLY <1>1, <2>1, Joined
<1>3. \A k \in 1..Len(ledger) : SubSeq(all, 1, k - 1) = SubSeq(ledger, 1, k - 1)
  <2> SUFFICES ASSUME NEW k \in 1..Len(ledger) PROVE SubSeq(all, 1, k - 1) = SubSeq(ledger, 1, k - 1)
    OBVIOUS
  <2>1. PICK j \in Nat : j = k - 1 /\ j <= Len(ledger)
    OBVIOUS
  <2>2. SubSeq(ledger \o moves, 1, j) = SubSeq(ledger, 1, j)
    BY ONLY <1>1, <2>1, Prefix
  <2> QED BY <2>1, <2>2
<1> QED BY <1>1, <1>2, <1>3

\* Movements that are covered and are no count's keep a stock sound.
LEMMA StockedPost ==
  ASSUME NEW d, NEW e, StockTyped(d), NEW moves \in Seq(Row.ledger), Stocked(d),
         e.ledger = d.ledger \o moves, e.counts = d.counts,
         e.fence[1].ver = d.fence[1].ver + Len(moves),
         Covering(d.ledger, moves),
         \A i \in 1..Len(moves) : moves[i].on[1] # "counts"
  PROVE  Stocked(e)
<1>1. PICK l, a : l = d.ledger /\ a = e.ledger /\ a = l \o moves
  OBVIOUS
<1>2. l \in Seq(Row.ledger) /\ Len(moves) \in Nat /\ d.fence[1].ver \in Nat
  BY <1>1 DEF StockTyped
<1>3. /\ a \in Seq(Row.ledger) /\ Len(a) = Len(l) + Len(moves) /\ Len(l) \in Nat
      /\ \A k \in 1..Len(l) : a[k] = l[k] /\ SubSeq(a, 1, k - 1) = SubSeq(l, 1, k - 1)
      /\ \A i \in 1..Len(moves) : a[Len(l) + i] = moves[i]
  <2>1. l \in Seq(Row.ledger) /\ moves \in Seq(Row.ledger) /\ a = l \o moves
    BY <1>1, <1>2
  <2> QED BY ONLY <2>1, PrefixStands
<1>4. \A k \in 1..Len(a) : k \in 1..Len(l) \/ (k - Len(l) \in 1..Len(moves) /\ a[k] = moves[k - Len(l)])
  <2> SUFFICES ASSUME NEW k \in 1..Len(a), k \notin 1..Len(l)
               PROVE  k - Len(l) \in 1..Len(moves) /\ a[k] = moves[k - Len(l)]
    OBVIOUS
  <2>1. k - Len(l) \in 1..Len(moves) /\ Len(l) + (k - Len(l)) = k
    BY <1>2, <1>3
  <2> QED BY ZenonT(40), <1>3, <2>1
<1>5. \A k \in 1..Len(a) : a[k].on[1] = "counts" => k \in 1..Len(l)
  BY ZenonT(40), <1>4
<1>6. Covers(e)
  <2> SUFFICES ASSUME NEW x \in {"A", "F"} PROVE OnHand(e.ledger, x) >= 0
    BY DEF Covers
  <2>1. OnHand(l, x) >= 0 /\ Covering(l, moves)
    BY <1>1 DEF Stocked, Covers
  <2>2. OnHand(l \o moves, x) >= 0
    BY ONLY <1>2, <2>1, moves \in Seq(Row.ledger), CoveredCovers
  <2> QED BY <1>1, <2>2
<1>7. Stood(e)
  <2> SUFFICES ASSUME NEW i \in 1..Len(e.counts), NEW k \in 1..Len(e.ledger), e.ledger[k].on = <<"counts", i>>
               PROVE  OnHand(SubSeq(e.ledger, 1, k - 1), "A") = e.counts[i].expected
    BY ZenonT(40) DEF Stood
  <2>1. k \in 1..Len(l) /\ l[k].on = <<"counts", i>> /\ i \in 1..Len(d.counts)
    <3>1. a[k].on[1] = "counts" /\ k \in 1..Len(a)
      BY SMTT(40), <1>1
    <3>2. k \in 1..Len(l)
      BY <1>5, <3>1
    <3> QED BY <1>1, <1>3, <3>2
  <2>2. OnHand(SubSeq(l, 1, k - 1), "A") = d.counts[i].expected
    BY ZenonT(40), <1>1, <2>1 DEF Stocked, Stood
  <2> QED BY ZenonT(40), <1>1, <1>3, <2>1, <2>2
<1>8. Fresh(e)
  <2>1. CASE Len(moves) = 0
    <3>1. a = l
      BY <1>1, <1>2, <2>1
    <3>2. e.fence[1].ver = d.fence[1].ver
      BY <1>2, <2>1
    <3> QED BY <1>1, <3>1, <3>2 DEF Stocked, Fresh
  <2>2. CASE Len(moves) # 0
    <3>1. \A i \in 1..Len(d.counts) : d.counts[i].rev <= d.fence[1].ver /\ d.counts[i].rev \in Nat
      <4>1. \A i \in 1..Len(d.counts) : d.counts[i] \in Row.counts
        BY DEF StockTyped
      <4>2. \A c \in Row.counts : c.rev \in Nat
        BY DEF Row
      <4> QED BY <4>1, <4>2 DEF Stocked, Fresh
    <3>2. \A i \in 1..Len(e.counts) : e.counts[i].rev < e.fence[1].ver /\ e.counts[i].rev \in Nat
      BY SMTT(40), <1>2, <2>2, <3>1
    <3>3. PICK g : g = e.fence[1].ver /\ g \in Nat
      BY <1>2
    <3>4. \A j \in 1..Len(e.counts) :
            /\ e.counts[j].rev <= e.fence[1].ver
            /\ e.counts[j].rev = e.fence[1].ver => e.counts[j].expected = OnHand(e.ledger, "A")
      <4> SUFFICES ASSUME NEW j \in 1..Len(e.counts)
                   PROVE  e.counts[j].rev <= e.fence[1].ver /\ e.counts[j].rev # e.fence[1].ver
        OBVIOUS
      <4>1. PICK r : r = e.counts[j].rev
        OBVIOUS
      <4>2. r \in Nat /\ r < g
        BY <3>2, <3>3, <4>1
      <4>3. r <= g /\ r # g
        BY ONLY <3>3, <4>2
      <4> QED BY <3>3, <4>1, <4>3
    <3> QED BY ONLY <3>4 DEF Fresh
  <2> QED BY <2>1, <2>2
<1>9. Named(e)
  <2> SUFFICES ASSUME NEW k \in 1..Len(e.ledger), e.ledger[k].on[1] = "counts"
               PROVE  e.ledger[k].on[2] \in 1..Len(e.counts)
    BY DEF Named
  <2>1. k \in 1..Len(l) /\ l[k] = e.ledger[k]
    BY <1>1, <1>3, <1>5
  <2> QED BY <1>1, <2>1 DEF Stocked, Named
<1> QED BY <1>6, <1>7, <1>8, <1>9 DEF Stocked

\* A preview expects the present stock of the present revision.
LEMMA StockedPreview ==
  ASSUME NEW d, NEW e, StockTyped(d), NEW c, Stocked(d),
         e.ledger = d.ledger, e.counts = Append(d.counts, c), e.fence[1].ver = d.fence[1].ver,
         c.rev = d.fence[1].ver, c.expected = OnHand(d.ledger, "A")
  PROVE  Stocked(e)
<1>1. PICK o, w : o = d.counts /\ w = e.counts /\ w = Append(o, c)
  OBVIOUS
<1>2. PICK n \in Nat : n = Len(o)
  BY <1>1 DEF StockTyped
<1>3. Len(w) = n + 1 /\ (\A i \in 1..n : w[i] = o[i]) /\ w[n + 1] = c
  <2>1. o \in Seq(Row.counts)
    BY <1>1 DEF StockTyped
  <2> QED BY <1>1, <1>2, <2>1
<1>4. \A i \in 1..(n + 1) : i \in 1..n \/ i = n + 1
  OBVIOUS
<1>5. Covers(e)
  BY DEF Stocked, Covers
<1>6. Stood(e)
  <2> SUFFICES ASSUME NEW i \in 1..Len(e.counts), NEW k \in 1..Len(e.ledger), e.ledger[k].on = <<"counts", i>>
               PROVE  OnHand(SubSeq(e.ledger, 1, k - 1), "A") = e.counts[i].expected
    BY ZenonT(40) DEF Stood
  <2>1. d.ledger[k].on[1] = "counts" /\ d.ledger[k].on[2] = i /\ k \in 1..Len(d.ledger)
    OBVIOUS
  <2>2. i \in 1..n
    BY ZenonT(40), <1>1, <1>2, <2>1 DEF Stocked, Named
  <2>3. OnHand(SubSeq(d.ledger, 1, k - 1), "A") = d.counts[i].expected
    BY <1>1, <1>2, <2>1, <2>2 DEF Stocked, Stood
  <2> QED BY <1>1, <1>3, <2>2, <2>3
<1>7. Fresh(e)
  <2> SUFFICES ASSUME NEW i \in 1..Len(e.counts)
               PROVE  /\ e.counts[i].rev <= e.fence[1].ver
                      /\ e.counts[i].rev = e.fence[1].ver => e.counts[i].expected = OnHand(e.ledger, "A")
    BY DEF Fresh
  <2>1. CASE i \in 1..n
    <3>1. i \in 1..Len(d.counts) /\ e.counts[i] = d.counts[i]
      BY <1>1, <1>2, <1>3, <2>1
    <3> QED BY <3>1 DEF Stocked, Fresh
  <2>2. CASE i = n + 1
    <3>1. e.counts[i] = c
      BY <1>1, <1>3, <2>2
    <3> QED BY <3>1 DEF StockTyped
  <2> QED BY <1>1, <1>3, <1>4, <2>1, <2>2
<1>8. Named(e)
  <2> SUFFICES ASSUME NEW k \in 1..Len(e.ledger), e.ledger[k].on[1] = "counts"
               PROVE  e.ledger[k].on[2] \in 1..Len(e.counts)
    BY DEF Named
  <2>1. d.ledger[k].on[2] \in 1..n
    BY <1>1, <1>2 DEF Stocked, Named
  <2>2. \A i \in 1..n : i \in 1..(n + 1)
    OBVIOUS
  <2> QED BY <1>1, <1>3, <2>1, <2>2
<1> QED BY <1>5, <1>6, <1>7, <1>8 DEF Stocked

\* A settled count corrects the stock its preview expected.
LEMMA StockedSettle ==
  ASSUME NEW d, NEW e, StockTyped(d), NEW moves \in Seq(Row.ledger), NEW i \in 1..Len(d.counts),
         Stocked(d), e.ledger = d.ledger \o moves, Covering(d.ledger, moves),
         Len(moves) <= 1, \A j \in 1..Len(moves) : moves[j].on = <<"counts", i>>,
         e.fence[1].ver = d.fence[1].ver + Len(moves),
         Len(e.counts) = Len(d.counts),
         \A j \in 1..Len(d.counts) :
           e.counts[j].rev = d.counts[j].rev /\ e.counts[j].expected = d.counts[j].expected,
         d.counts[i].rev = d.fence[1].ver
  PROVE  Stocked(e)
<1>1. PICK l, a : l = d.ledger /\ a = e.ledger /\ a = l \o moves
  OBVIOUS
<1>2. l \in Seq(Row.ledger) /\ Len(moves) \in Nat /\ d.fence[1].ver \in Nat
  BY <1>1 DEF StockTyped
<1>3. /\ a \in Seq(Row.ledger) /\ Len(a) = Len(l) + Len(moves) /\ Len(l) \in Nat
      /\ \A k \in 1..Len(l) : a[k] = l[k] /\ SubSeq(a, 1, k - 1) = SubSeq(l, 1, k - 1)
      /\ \A j \in 1..Len(moves) : a[Len(l) + j] = moves[j]
  <2>1. l \in Seq(Row.ledger) /\ moves \in Seq(Row.ledger) /\ a = l \o moves
    BY <1>1, <1>2
  <2> QED BY ONLY <2>1, PrefixStands
<1>4. \A k \in 1..Len(a) : k \in 1..Len(l) \/ (k = Len(l) + 1 /\ Len(moves) = 1 /\ a[k] = moves[1])
  <2> SUFFICES ASSUME NEW k \in 1..Len(a), k \notin 1..Len(l)
               PROVE  k = Len(l) + 1 /\ Len(moves) = 1 /\ a[k] = moves[1]
    OBVIOUS
  <2>1. PICK n \in Nat, m \in Nat : n = Len(l) /\ m = Len(moves) /\ m <= 1 /\ Len(a) = n + m
    BY <1>2, <1>3
  <2>2. k \in 1..(n + m) /\ k \notin 1..n
    BY <2>1
  <2>3. k = n + 1 /\ m = 1
    BY ONLY <2>1, <2>2
  <2>4. 1 \in 1..Len(moves) /\ k = Len(l) + 1
    BY <2>1, <2>3
  <2> QED BY <1>3, <2>1, <2>3, <2>4
<1>5. Covers(e)
  <2> SUFFICES ASSUME NEW x \in {"A", "F"} PROVE OnHand(e.ledger, x) >= 0
    BY DEF Covers
  <2>1. OnHand(l, x) >= 0 /\ Covering(l, moves)
    BY <1>1 DEF Stocked, Covers
  <2>2. OnHand(l \o moves, x) >= 0
    BY ONLY <1>2, <2>1, moves \in Seq(Row.ledger), CoveredCovers
  <2> QED BY <1>1, <2>2
<1>6. SubSeq(a, 1, Len(l)) = l
  <2>1. PICK S : S = Row.ledger /\ l \in Seq(S) /\ moves \in Seq(S) /\ Len(l) \in Nat /\ Len(l) <= Len(l)
    BY <1>2, <1>3
  <2>2. SubSeq(l \o moves, 1, Len(l)) = SubSeq(l, 1, Len(l))
    BY ONLY <2>1, Prefix
  <2>3. SubSeq(l, 1, Len(l)) = l
    <3>1. /\ SubSeq(l, 1, Len(l)) \in Seq(S) /\ Len(SubSeq(l, 1, Len(l))) = Len(l)
          /\ \A j \in 1..Len(l) : SubSeq(l, 1, Len(l))[j] = l[j]
      BY ONLY ZenonT(40), <2>1, Cut
    <3>2. PICK s : s = SubSeq(l, 1, Len(l))
      OBVIOUS
    <3>3. s \in Seq(S) /\ Len(s) = Len(l) /\ \A j \in 1..Len(l) : s[j] = l[j]
      BY <3>1, <3>2
    <3>4. s = l
      BY ONLY <2>1, <3>3
    <3> QED BY <3>2, <3>4
  <2> QED BY <1>1, <2>2, <2>3
<1>7. d.counts[i].expected = OnHand(l, "A")
  BY <1>1 DEF Stocked, Fresh
<1>8. Stood(e)
  <2> SUFFICES ASSUME NEW j \in 1..Len(e.counts), NEW k \in 1..Len(e.ledger), e.ledger[k].on = <<"counts", j>>
               PROVE  OnHand(SubSeq(e.ledger, 1, k - 1), "A") = e.counts[j].expected
    BY ZenonT(40) DEF Stood
  <2>1. j \in 1..Len(d.counts) /\ e.counts[j].expected = d.counts[j].expected
    OBVIOUS
  <2>2. CASE k \in 1..Len(l)
    <3>1. OnHand(SubSeq(l, 1, k - 1), "A") = d.counts[j].expected
      BY SMTT(40), <1>1, <1>3, <2>1, <2>2 DEF Stocked, Stood
    <3> QED BY ZenonT(40), <1>1, <1>3, <2>1, <2>2, <3>1
  <2>3. CASE k = Len(l) + 1 /\ Len(moves) = 1 /\ a[k] = moves[1]
    <3>1. moves[1].on = <<"counts", i>>
      BY <2>3
    <3>2. j = i
      BY <1>1, <2>3, <3>1
    <3>3. k - 1 = Len(l)
      BY <1>3, <2>3
    <3> QED BY ZenonT(40), <1>1, <1>6, <1>7, <2>1, <3>2, <3>3
  <2> QED BY <1>1, <1>4, <2>2, <2>3
<1>9. Fresh(e)
  <2>1. CASE Len(moves) = 0
    <3>1. a = l
      BY <1>1, <1>2, <2>1
    <3>2. e.fence[1].ver = d.fence[1].ver
      BY <1>2, <2>1
    <3> QED BY <1>1, <3>1, <3>2 DEF Stocked, Fresh
  <2>2. CASE Len(moves) # 0
    <3>1. \A j \in 1..Len(d.counts) : d.counts[j].rev <= d.fence[1].ver /\ d.counts[j].rev \in Nat
      <4>1. \A j \in 1..Len(d.counts) : d.counts[j] \in Row.counts
        BY DEF StockTyped
      <4>2. \A c \in Row.counts : c.rev \in Nat
        BY DEF Row
      <4> QED BY ZenonT(40), <4>1, <4>2 DEF Stocked, Fresh
    <3>2. PICK f \in Nat, g \in Nat : f = d.fence[1].ver /\ g = e.fence[1].ver /\ f < g
      <4>1. d.fence[1].ver + Len(moves) \in Nat /\ d.fence[1].ver < d.fence[1].ver + Len(moves)
        BY ONLY SMTT(40), <1>2, <2>2
      <4> QED BY <1>2, <4>1
    <3>3. \A j \in 1..Len(e.counts) : e.counts[j].rev < g /\ e.counts[j].rev \in Nat
      <4> SUFFICES ASSUME NEW j \in 1..Len(e.counts) PROVE e.counts[j].rev < g /\ e.counts[j].rev \in Nat
        OBVIOUS
      <4>1. PICK r \in Nat : r = e.counts[j].rev /\ r <= f
        BY ZenonT(40), <3>1, <3>2
      <4>2. r < g
        BY ONLY SMTT(40), <3>2, <4>1
      <4> QED BY <4>1, <4>2
    <3>4. \A j \in 1..Len(e.counts) :
            /\ e.counts[j].rev <= e.fence[1].ver
            /\ e.counts[j].rev = e.fence[1].ver => e.counts[j].expected = OnHand(e.ledger, "A")
      <4> SUFFICES ASSUME NEW j \in 1..Len(e.counts)
                   PROVE  e.counts[j].rev <= e.fence[1].ver /\ e.counts[j].rev # e.fence[1].ver
        OBVIOUS
      <4>1. PICK r : r = e.counts[j].rev
        OBVIOUS
      <4>2. r \in Nat /\ r < g
        BY <3>3, <4>1
      <4>3. r <= g /\ r # g
        BY ONLY g \in Nat, <4>2
      <4> QED BY <3>2, <4>1, <4>3
    <3> QED BY ONLY <3>4 DEF Fresh
  <2> QED BY <2>1, <2>2
<1>10. Named(e)
  <2> SUFFICES ASSUME NEW k \in 1..Len(e.ledger), e.ledger[k].on[1] = "counts"
               PROVE  e.ledger[k].on[2] \in 1..Len(e.counts)
    BY ZenonT(40) DEF Named
  <2>1. CASE k \in 1..Len(l)
    <3>1. l[k] = e.ledger[k]
      BY <1>1, <1>3, <2>1
    <3> QED BY <1>1, <2>1, <3>1 DEF Stocked, Named
  <2>2. CASE k = Len(l) + 1 /\ Len(moves) = 1 /\ a[k] = moves[1]
    <3>1. moves[1].on = <<"counts", i>>
      BY <2>2
    <3> QED BY <1>1, <2>2, <3>1
  <2> QED BY <1>1, <1>4, <2>1, <2>2
<1> QED BY <1>5, <1>8, <1>9, <1>10 DEF Stocked

-----------------------------------------------------------------------------
\* Which statements insert into which table.

Fills(s, t) ==
  \/ t = "ledger" /\ s \in {"move", "issueOrder", "issueSale", "settleCount", "stockReceipt", "moveWork"}
  \/ t = "orders" /\ s = "insertSale"
  \/ t = "pays" /\ s \in {"paySale", "recordPayment"}
  \/ t = "holds" /\ s \in {"placeHold", "placeCommitted"}
  \/ t = "grns" /\ s = "insertReceipt"

\* A statement that fills a table stands at the table's slot, and a command whose slot
\* is another statement may leave the table as it is.
LEMMA Slots ==
  ASSUME NEW op \in DOMAIN Program, NEW k \in 1..Len(Program[op]), NEW t \in Keyed,
         NEW q, q.op = op
  PROVE  /\ Fills(Program[op][k], t) => k = Slot(op, t)
         /\ k = Slot(op, t) => Fills(Program[op][k], t) \/ 0 \in Rights(q)[t]
<1>1. CASE op = "move"
  BY <1>1 DEF Program, Keyed, Fills, Slot, Rights
<1>2. CASE op = "confirm"
  BY <1>2 DEF Program, Keyed, Fills, Slot, Rights
<1>3. CASE op = "complete"
  BY <1>3 DEF Program, Keyed, Fills, Slot, Rights
<1>4. CASE op = "cancel"
  BY <1>4 DEF Program, Keyed, Fills, Slot, Rights
<1>5. CASE op = "sale"
  BY <1>5 DEF Program, Keyed, Fills, Slot, Rights
<1>6. CASE op = "pay"
  BY <1>6 DEF Program, Keyed, Fills, Slot, Rights
<1>7. CASE op = "refund"
  BY <1>7 DEF Program, Keyed, Fills, Slot, Rights
<1>8. CASE op = "verify"
  BY <1>8 DEF Program, Keyed, Fills, Slot, Rights
<1>9. CASE op = "reject"
  BY <1>9 DEF Program, Keyed, Fills, Slot, Rights
<1>10. CASE op = "hold"
  BY <1>10 DEF Program, Keyed, Fills, Slot, Rights
<1>11. CASE op = "release"
  BY <1>11 DEF Program, Keyed, Fills, Slot, Rights
<1>12. CASE op = "convert"
  BY <1>12 DEF Program, Keyed, Fills, Slot, Rights
<1>13. CASE op = "expire"
  BY <1>13 DEF Program, Keyed, Fills, Slot, Rights
<1>14. CASE op = "preview"
  BY <1>14 DEF Program, Keyed, Fills, Slot, Rights
<1>15. CASE op = "count"
  BY <1>15 DEF Program, Keyed, Fills, Slot, Rights
<1>16. CASE op = "receive"
  BY <1>16 DEF Program, Keyed, Fills, Slot, Rights
<1>17. CASE op = "withdraw"
  BY <1>17 DEF Program, Keyed, Fills, Slot, Rights
<1>18. CASE op = "short"
  BY <1>18 DEF Program, Keyed, Fills, Slot, Rights
<1>19. CASE op = "stageWork"
  BY <1>19 DEF Program, Keyed, Fills, Slot, Rights
<1>20. CASE op = "finishWork"
  BY <1>20 DEF Program, Keyed, Fills, Slot, Rights
<1>21. CASE op = "cancelWork"
  BY <1>21 DEF Program, Keyed, Fills, Slot, Rights
<1>22. CASE op = "completeOnly"
  BY <1>22 DEF Program, Keyed, Fills, Slot, Rights
<1> QED
  BY <1>1, <1>2, <1>3, <1>4, <1>5, <1>6, <1>7, <1>8, <1>9, <1>10, <1>11, <1>12, <1>13, <1>14, <1>15, <1>16, <1>17, <1>18, <1>19, <1>20, <1>21, <1>22 DEF Program

\* Past its last statement a command is past every slot, or has none for the table.
\* A slot past the last statement is none.
LEMMA LastNone ==
  ASSUME NEW op \in DOMAIN Program, NEW t \in Keyed, NEW q, q.op = op
  PROVE  Len(Program[op]) < Slot(op, t) => Rights(q)[t] = {0}
<1>1. CASE op = "move"
  BY <1>1 DEF Program, Keyed, Slot, Rights
<1>2. CASE op = "confirm"
  BY <1>2 DEF Program, Keyed, Slot, Rights
<1>3. CASE op = "complete"
  BY <1>3 DEF Program, Keyed, Slot, Rights
<1>4. CASE op = "cancel"
  BY <1>4 DEF Program, Keyed, Slot, Rights
<1>5. CASE op = "sale"
  BY <1>5 DEF Program, Keyed, Slot, Rights
<1>6. CASE op = "pay"
  BY <1>6 DEF Program, Keyed, Slot, Rights
<1>7. CASE op = "refund"
  BY <1>7 DEF Program, Keyed, Slot, Rights
<1>8. CASE op = "verify"
  BY <1>8 DEF Program, Keyed, Slot, Rights
<1>9. CASE op = "reject"
  BY <1>9 DEF Program, Keyed, Slot, Rights
<1>10. CASE op = "hold"
  BY <1>10 DEF Program, Keyed, Slot, Rights
<1>11. CASE op = "release"
  BY <1>11 DEF Program, Keyed, Slot, Rights
<1>12. CASE op = "convert"
  BY <1>12 DEF Program, Keyed, Slot, Rights
<1>13. CASE op = "expire"
  BY <1>13 DEF Program, Keyed, Slot, Rights
<1>14. CASE op = "preview"
  BY <1>14 DEF Program, Keyed, Slot, Rights
<1>15. CASE op = "count"
  BY <1>15 DEF Program, Keyed, Slot, Rights
<1>16. CASE op = "receive"
  BY <1>16 DEF Program, Keyed, Slot, Rights
<1>17. CASE op = "withdraw"
  BY <1>17 DEF Program, Keyed, Slot, Rights
<1>18. CASE op = "short"
  BY <1>18 DEF Program, Keyed, Slot, Rights
<1>19. CASE op = "stageWork"
  BY <1>19 DEF Program, Keyed, Slot, Rights
<1>20. CASE op = "finishWork"
  BY <1>20 DEF Program, Keyed, Slot, Rights
<1>21. CASE op = "cancelWork"
  BY <1>21 DEF Program, Keyed, Slot, Rights
<1>22. CASE op = "completeOnly"
  BY <1>22 DEF Program, Keyed, Slot, Rights
<1> QED
  BY <1>1, <1>2, <1>3, <1>4, <1>5, <1>6, <1>7, <1>8, <1>9, <1>10, <1>11, <1>12, <1>13, <1>14, <1>15, <1>16, <1>17, <1>18, <1>19, <1>20, <1>21, <1>22 DEF Program

\* v is u after one statement: the same request, run and time.
After(u, v) ==
  /\ Shaped(v) /\ v.pc = u.pc + 1
  /\ v.calls = u.calls /\ v.run = u.run /\ v.at = u.at

\* u is about to run a statement of its command.
Ready(u, d, n) ==
  /\ Shaped(u) /\ Sound(d) /\ Local(u, d, n)
  /\ u.calls \in Request /\ u.run > 0 /\ u.pc \in 1..Len(Program[u.calls.op])

\* What a unit that is about to run a statement may rely on.
LEMMA ReadyFacts ==
  ASSUME NEW u, NEW d, NEW n, Ready(u, d, n)
  PROVE  /\ Typed(d) /\ Fit(u, d, n) /\ Written(u) /\ u.calls.op \in DOMAIN Program
         /\ u.pc \in Nat /\ u.pc > 0 /\ u.calls.key \in STRING
         /\ Place(u.calls.op, u.pc, Program[u.calls.op][u.pc])
<1>1. u.calls.op \in DOMAIN Program /\ u.calls.key \in STRING
  BY DEF Ready, Request
<1>2. Place(u.calls.op, u.pc, Program[u.calls.op][u.pc])
  BY <1>1, Places DEF Ready
<1> QED BY <1>1, <1>2 DEF Ready, Sound, Local, Fit

-----------------------------------------------------------------------------
\* What a statement must have inserted.

\* v is u after its statement: each table the statement fills has its rows, every
\* other is as it was.
Inserts(u, v) ==
  \A t \in Keyed :
    IF Fills(Program[u.calls.op][u.pc], t)
    THEN /\ Len(v.new[t]) \in Rights(u.calls)[t]
         /\ \A i \in 1..Len(v.new[t]) : v.new[t][i].by = u.calls.key
    ELSE v.new[t] = u.new[t]

\* A unit has inserted what its statements so far insert.
LEMMA WrittenStep ==
  ASSUME NEW u, NEW v, NEW d, NEW n, Ready(u, d, n), After(u, v), Inserts(u, v),
         v.new.fence = <<>>, v.new.pos = <<>>, v.new.works = <<>>,
         v.new.counts # <<>> => u.calls.op = "preview"
  PROVE  Written(v)
<1>0. /\ u.calls.op \in DOMAIN Program /\ Written(u) /\ u.pc \in Nat /\ u.pc > 0
      /\ u.pc \in 1..Len(Program[u.calls.op])
  BY ReadyFacts DEF Ready
<1>1. v.calls = u.calls /\ v.pc = u.pc + 1
  BY DEF After
<1>2. ASSUME NEW t \in Keyed
      PROVE  IF v.pc > 0 /\ v.pc > Slot(v.calls.op, t) THEN Len(v.new[t]) \in Rights(v.calls)[t]
             ELSE v.new[t] = <<>>
  <2>0. Slot(u.calls.op, t) \in Nat
    BY DEF Slot
  <2>1. CASE u.pc > Slot(u.calls.op, t)
    <3>1. ~Fills(Program[u.calls.op][u.pc], t)
      BY <1>0, <2>0, <2>1, Slots
    <3>2. v.new[t] = u.new[t] /\ Len(u.new[t]) \in Rights(u.calls)[t]
      BY <1>0, <2>1, <3>1 DEF Inserts, Written
    <3>3. v.pc > Slot(v.calls.op, t) /\ v.pc > 0
      BY <1>0, <1>1, <2>0, <2>1
    <3> QED BY <1>1, <3>2, <3>3
  <2>2. CASE u.pc = Slot(u.calls.op, t)
    <3>1. v.pc > Slot(v.calls.op, t) /\ v.pc > 0
      BY <1>0, <1>1, <2>0, <2>2
    <3>2. Len(v.new[t]) \in Rights(u.calls)[t]
      <4>1. CASE Fills(Program[u.calls.op][u.pc], t)
        BY <4>1 DEF Inserts
      <4>2. CASE ~Fills(Program[u.calls.op][u.pc], t)
        <5>1. 0 \in Rights(u.calls)[t]
          BY <1>0, <2>2, <4>2, Slots
        <5>2. v.new[t] = u.new[t]
          BY <4>2 DEF Inserts
        <5>3. u.new[t] = <<>>
          BY <1>0, <2>0, <2>2 DEF Written
        <5>4. Len(v.new[t]) = 0
          BY <5>2, <5>3
        <5> QED BY <5>1, <5>4
      <4> QED BY <4>1, <4>2
    <3> QED BY <1>1, <3>1, <3>2
  <2>3. CASE u.pc < Slot(u.calls.op, t)
    <3>1. ~(v.pc > Slot(v.calls.op, t))
      BY <1>0, <1>1, <2>0, <2>3
    <3>2. ~Fills(Program[u.calls.op][u.pc], t)
      BY <1>0, <2>0, <2>3, Slots
    <3>3. u.new[t] = <<>>
      BY <1>0, <2>0, <2>3 DEF Written
    <3> QED BY <3>1, <3>2, <3>3 DEF Inserts
  <2> QED BY <1>0, <2>0, <2>1, <2>2, <2>3
<1>3. \A t \in Keyed : \A i \in 1..Len(v.new[t]) : v.new[t][i].by = v.calls.key
  BY <1>0, <1>1 DEF Inserts, Written
<1>4. v.new.counts # <<>> => v.calls.op = "preview"
  BY <1>1
<1> QED BY <1>2, <1>3, <1>4 DEF Written

\* A statement that fills nothing inserts nothing.
LEMMA WrittenPass ==
  ASSUME NEW u, NEW v, NEW d, NEW n, Ready(u, d, n), After(u, v), v.new = u.new,
         \A t \in Keyed : ~Fills(Program[u.calls.op][u.pc], t)
  PROVE  Written(v)
<1>1. Inserts(u, v)
  BY DEF Inserts
<1>2. Written(u)
  BY ReadyFacts
<1>3. /\ v.new.fence = <<>> /\ v.new.pos = <<>> /\ v.new.works = <<>>
      /\ v.new.counts # <<>> => u.calls.op = "preview"
  BY <1>2 DEF Written
<1> QED BY <1>1, <1>3, WrittenStep

\* A unit at the end of its command has inserted what its request has a right to.
LEMMA EndWritten ==
  ASSUME NEW u, Written(u), u.pc \in Nat, u.calls.op \in DOMAIN Program,
         u.pc > Len(Program[u.calls.op]), NEW t \in Keyed
  PROVE  Len(u.new[t]) \in Rights(u.calls)[t]
<1>0. Slot(u.calls.op, t) \in Nat /\ Len(Program[u.calls.op]) \in Nat
  BY DEF Slot, Program
<1>1. CASE u.pc > Slot(u.calls.op, t)
  BY <1>0, <1>1 DEF Written
<1>2. CASE ~(u.pc > Slot(u.calls.op, t))
  <2>1. Len(Program[u.calls.op]) < Slot(u.calls.op, t)
    BY <1>0, <1>2
  <2>2. Rights(u.calls)[t] = {0}
    BY <2>1, LastNone
  <2>3. u.new[t] = <<>>
    BY <1>2 DEF Written
  <2>4. Len(u.new[t]) = 0
    BY <2>3
  <2> QED BY <2>2, <2>4
<1> QED BY <1>1, <1>2

-----------------------------------------------------------------------------
\* What a unit has noted stays noted.

\* What was read is as it was noted.
LEMMA NotedStep ==
  ASSUME NEW u, NEW v, NEW d, Noted(u, d), u.pc \in Nat, u.pc > 1, After(u, v),
         v.seen = u.seen, v.due = u.due
  PROVE  Noted(v, d)
<1>1. v.calls = u.calls /\ v.pc > 1
  BY DEF After
<1>2. \A ops : Past(v, ops, 1) => Past(u, ops, 1)
  BY <1>1 DEF Past
<1>3. \A rows : (Saw(u, rows) => Saw(v, rows)) /\ (SawOpen(u, rows) => SawOpen(v, rows))
  BY <1>1 DEF Saw, SawOpen
<1> QED BY <1>1, <1>2, <1>3 DEF Noted

\* The commands that read nothing first have nothing to note.
LEMMA NotedNone ==
  ASSUME NEW v, NEW d, v.calls.op \in {"move", "sale", "hold", "preview", "count"}
  PROVE  Noted(v, d)
BY DEF Noted, Past

-----------------------------------------------------------------------------
\* What a unit has changed.

\* What a unit ends it ends whatever else it does.
LEMMA EndsSame ==
  ASSUME NEW u, NEW v, v.calls = u.calls, v.seen = u.seen
  PROVE  \A a, b, i : EndsHold(u, a, b, i) => EndsHold(v, a, b, i)
BY ZenonT(40) DEF EndsHold

\* What a unit ends, its request and what it has read tell.
LEMMA MarksSame ==
  ASSUME NEW u, NEW v, v.calls = u.calls, v.seen = u.seen
  PROVE  \A a, b, t, i : Marks(u, a, b, t, i) => Marks(v, a, b, t, i)
<1>1. PurchaseEnd(v) = PurchaseEnd(u)
  BY ZenonT(40) DEF PurchaseEnd
<1> SUFFICES ASSUME NEW a, NEW b, NEW t, NEW i, Marks(u, a, b, t, i) PROVE Marks(v, a, b, t, i)
  OBVIOUS
<1> QED BY <1>1 DEF Marks

\* What was updated stays updated,
LEMMA ChangedStep ==
  ASSUME NEW u, NEW v, NEW d, Changed(u, d), u.pc \in Nat, After(u, v),
         v.set = u.set, DOMAIN u.set = {} \/ v.seen = u.seen
  PROVE  Changed(v, d)
<1>1. v.calls = u.calls /\ v.pc = u.pc + 1
  BY DEF After
<1>2. CASE DOMAIN u.set = {}
  BY <1>2 DEF Changed
<1>3. CASE v.seen = u.seen
  <2>1. \A ops : \A k \in {2, 3} : Past(u, ops, k) => Past(v, ops, k)
    BY <1>1 DEF Past
  <2>2. u.pc > 3 => v.pc > 3
    BY <1>1
  <2>3. \A a, b, i : EndsHold(u, a, b, i) => EndsHold(v, a, b, i)
    BY <1>1, <1>3, EndsSame
  <2>4. \A a, b, t, i : Marks(u, a, b, t, i) => Marks(v, a, b, t, i)
    BY <1>1, <1>3, MarksSame
  <2> QED BY <1>1, <1>3, <2>1, <2>2, <2>3, <2>4 DEF Changed
<1> QED BY <1>2, <1>3

\* The row is an update of row i of t that v may have made.
Updates(v, d, t, i, row) ==
  /\ t \in Keyed => row.by = d[t][i].by
  /\ t \in {"orders", "pos", "works"} => Marks(v, d[t][i], row, t, i)
  /\ t = "works" => v.pc > 3 /\ row.ver > d.works[i].ver
  /\ t = "pays" =>
       /\ Past(v, {"verify"}, 3) \/ Past(v, {"reject"}, 2)
       /\ i = v.calls.on /\ d.pays[i] = v.seen
       /\ row = [v.seen EXCEPT !.ver = @ + 1,
                   !.status = IF v.calls.op = "verify" THEN "VERIFIED" ELSE "REJECTED"]
  /\ t = "holds" => EndsHold(v, d.holds[i], row, i)

\* and one more update is in order.
LEMMA ChangedMore ==
  ASSUME NEW u, NEW v, NEW d, Changed(u, d), u.pc \in Nat, v.pc \in {u.pc, u.pc + 1},
         v.calls = u.calls, v.seen = u.seen,
         NEW t, NEW i, NEW row, Updates(v, d, t, i, row),
         DOMAIN v.set = DOMAIN u.set \cup {<<t, i>>}, v.set[<<t, i>>] = row,
         \A k \in DOMAIN u.set : k # <<t, i>> => v.set[k] = u.set[k]
  PROVE  Changed(v, d)
<1>1. \A ops : \A k \in {2, 3} : Past(u, ops, k) => Past(v, ops, k)
  BY DEF Past
<1>2. u.pc > 3 => v.pc > 3
  OBVIOUS
<1>0. \A a, b, j : EndsHold(u, a, b, j) => EndsHold(v, a, b, j)
  BY EndsSame
<1>a. \A a, b, s, j : Marks(u, a, b, s, j) => Marks(v, a, b, s, j)
  BY MarksSame
<1>3. ASSUME NEW k \in DOMAIN v.set
      PROVE  /\ k[1] \in Keyed => v.set[k].by = d[k[1]][k[2]].by
             /\ k[1] \in {"orders", "pos", "works"} => Marks(v, d[k[1]][k[2]], v.set[k], k[1], k[2])
             /\ k[1] = "works" => v.pc > 3 /\ v.set[k].ver > d.works[k[2]].ver
             /\ k[1] = "pays" =>
                  /\ Past(v, {"verify"}, 3) \/ Past(v, {"reject"}, 2)
                  /\ k[2] = v.calls.on /\ d.pays[k[2]] = v.seen
                  /\ v.set[k] = [v.seen EXCEPT !.ver = @ + 1,
                       !.status = IF v.calls.op = "verify" THEN "VERIFIED" ELSE "REJECTED"]
             /\ k[1] = "holds" => EndsHold(v, d.holds[k[2]], v.set[k], k[2])
  <2>1. CASE k = <<t, i>>
    <3>1. k[1] = t /\ k[2] = i /\ v.set[k] = row
      BY <2>1
    <3> QED BY <3>1 DEF Updates
  <2>2. CASE k # <<t, i>>
    <3>1. k \in DOMAIN u.set /\ v.set[k] = u.set[k]
      BY <2>2
    <3> QED BY <1>0, <1>a, <1>1, <1>2, <3>1 DEF Changed
  <2> QED BY <2>1, <2>2
<1> QED BY <1>3 DEF Changed

\* What a unit may say of the committed documents' totals, once it is past what it said.
LEMMA BackedStep ==
  ASSUME NEW u, NEW v, NEW d, Backed(u, d), u.pc \in Nat, u.pc > 2, After(u, v),
         v.seen = u.seen, v.new.pays = u.new.pays, DOMAIN u.set \subseteq DOMAIN v.set,
         Len(View(v, d).orders) = Len(View(u, d).orders)
  PROVE  Backed(v, d)
<1>1. v.calls = u.calls
  BY DEF After
<1>2. Past(v, {"verify"}, 2) => Past(u, {"verify"}, 2)
  BY <1>1 DEF Past
<1> QED BY <1>1, <1>2 DEF Backed

\* An inserted code is what its request has a right to.
LEMMA CodedRights ==
  ASSUME NEW op \in DOMAIN Program, NEW k \in 1..Len(Program[op]), NEW t \in Coded,
         NEW q, q.op = op, Fills(Program[op][k], t)
  PROVE  1 \in Rights(q)[t]
<1>1. CASE op = "move"
  BY <1>1 DEF Program, Keyed, Coded, Fills, Rights
<1>2. CASE op = "confirm"
  BY <1>2 DEF Program, Keyed, Coded, Fills, Rights
<1>3. CASE op = "complete"
  BY <1>3 DEF Program, Keyed, Coded, Fills, Rights
<1>4. CASE op = "cancel"
  BY <1>4 DEF Program, Keyed, Coded, Fills, Rights
<1>5. CASE op = "sale"
  BY <1>5 DEF Program, Keyed, Coded, Fills, Rights
<1>6. CASE op = "pay"
  BY <1>6 DEF Program, Keyed, Coded, Fills, Rights
<1>7. CASE op = "refund"
  BY <1>7 DEF Program, Keyed, Coded, Fills, Rights
<1>8. CASE op = "verify"
  BY <1>8 DEF Program, Keyed, Coded, Fills, Rights
<1>9. CASE op = "reject"
  BY <1>9 DEF Program, Keyed, Coded, Fills, Rights
<1>10. CASE op = "hold"
  BY <1>10 DEF Program, Keyed, Coded, Fills, Rights
<1>11. CASE op = "release"
  BY <1>11 DEF Program, Keyed, Coded, Fills, Rights
<1>12. CASE op = "convert"
  BY <1>12 DEF Program, Keyed, Coded, Fills, Rights
<1>13. CASE op = "expire"
  BY <1>13 DEF Program, Keyed, Coded, Fills, Rights
<1>14. CASE op = "preview"
  BY <1>14 DEF Program, Keyed, Coded, Fills, Rights
<1>15. CASE op = "count"
  BY <1>15 DEF Program, Keyed, Coded, Fills, Rights
<1>16. CASE op = "receive"
  BY <1>16 DEF Program, Keyed, Coded, Fills, Rights
<1>17. CASE op = "withdraw"
  BY <1>17 DEF Program, Keyed, Coded, Fills, Rights
<1>18. CASE op = "short"
  BY <1>18 DEF Program, Keyed, Coded, Fills, Rights
<1>19. CASE op = "stageWork"
  BY <1>19 DEF Program, Keyed, Coded, Fills, Rights
<1>20. CASE op = "finishWork"
  BY <1>20 DEF Program, Keyed, Coded, Fills, Rights
<1>21. CASE op = "cancelWork"
  BY <1>21 DEF Program, Keyed, Coded, Fills, Rights
<1>22. CASE op = "completeOnly"
  BY <1>22 DEF Program, Keyed, Coded, Fills, Rights
<1> QED
  BY <1>1, <1>2, <1>3, <1>4, <1>5, <1>6, <1>7, <1>8, <1>9, <1>10, <1>11, <1>12, <1>13, <1>14, <1>15, <1>16, <1>17, <1>18, <1>19, <1>20, <1>21, <1>22 DEF Program

-----------------------------------------------------------------------------
\* The stock a unit reads, when it has touched none of its tables.

\* The stock a unit reads stays as it is when it writes none of its tables.
LEMMA StockKept ==
  ASSUME NEW u, NEW v, NEW d, Typed(d), Stocked(View(u, d)),
         Agree(u, v, "ledger"), Agree(u, v, "counts"), Agree(u, v, "fence")
  PROVE  Stocked(View(v, d))
<1>1. \A t \in {"ledger", "counts", "fence"} : t \in Tables /\ Len(d[t]) \in Nat
  <2>1. \A t \in Tables : d[t] \in Seq(Row[t])
    BY DEF Typed
  <2>2. \A t \in Tables : Len(d[t]) \in Nat
    BY <2>1
  <2> QED BY ZenonT(40), <2>2 DEF Tables
<1>2. PICK e, f : e = View(v, d) /\ f = View(u, d)
  OBVIOUS
<1>3. e.ledger = f.ledger /\ e.counts = f.counts /\ e.fence = f.fence
  <2>1. \A t \in {"ledger", "counts", "fence"} : View(v, d)[t] = View(u, d)[t]
    <3> SUFFICES ASSUME NEW t \in {"ledger", "counts", "fence"} PROVE View(v, d)[t] = View(u, d)[t]
      OBVIOUS
    <3>1. t \in Tables /\ Len(d[t]) \in Nat /\ Agree(u, v, t)
      BY <1>1
    <3> QED BY ONLY <3>1, ViewSame
  <2> QED BY <1>2, <2>1
<1>4. Stocked(f) /\ e.fence[1].ver = f.fence[1].ver
  BY <1>2, <1>3
<1>5. Stocked(e)
  BY ONLY <1>3, <1>4, StockedSame
<1> QED BY <1>2, <1>5

\* The fence is one row, and a unit reads it as it took it.
LEMMA FenceRow ==
  ASSUME NEW u, NEW d, NEW n, Typed(d), Fit(u, d, n), Written(u)
  PROVE  /\ Len(View(u, d).fence) = 1 /\ View(u, d).fence[1].ver \in Nat
         /\ View(u, d).fence[1] =
              IF <<"fence", 1>> \in DOMAIN u.set THEN u.set[<<"fence", 1>>] ELSE d.fence[1]
<1>1. "fence" \in Tables /\ Len(d.fence) = 1 /\ u.new.fence = <<>>
  BY DEF Tables, Typed, Written
<1>2. PICK r : r = View(u, d).fence
  OBVIOUS
<1>3. Reads(r, u, d, "fence")
  BY <1>1, <1>2, ViewRows
<1>4. Len(r) = 1 /\ r \in Seq(Row.fence)
  <2>1. r \in Seq(Row.fence) /\ Len(r) = Len(d.fence) + Len(u.new.fence)
    BY <1>3 DEF Reads
  <2>2. Len(u.new.fence) = 0
    BY <1>1
  <2> QED BY <1>1, <2>1, <2>2
<1>5. r[1] = IF <<"fence", 1>> \in DOMAIN u.set THEN u.set[<<"fence", 1>>] ELSE d.fence[1]
  <2>1. 1 \in 1..Len(d.fence)
    BY <1>1
  <2> QED BY ZenonT(40), <1>3, <2>1 DEF Reads
<1>6. r[1] \in Row.fence
  BY SMTT(40), <1>4
<1>7. r[1].ver \in Nat
  BY <1>6 DEF Row
<1> QED BY <1>2, <1>4, <1>5, <1>7

\* The stock a unit reads is of its type.
LEMMA ViewStockTyped ==
  ASSUME NEW u, NEW d, NEW n, Typed(d), Fit(u, d, n), Written(u)
  PROVE  StockTyped(View(u, d))
<1>1. "ledger" \in Tables /\ "counts" \in Tables
  BY DEF Tables
<1>2. PICK r, s : r = View(u, d).ledger /\ s = View(u, d).counts
  OBVIOUS
<1>3. Reads(r, u, d, "ledger") /\ Reads(s, u, d, "counts")
  BY <1>1, <1>2, ViewRows
<1>4. r \in Seq(Row.ledger) /\ s \in Seq(Row.counts)
  BY <1>3 DEF Reads
<1> QED BY <1>2, <1>4, FenceRow DEF StockTyped

\* One row is a table.
LEMMA OneRow == \A R : \A x \in R : <<x>> \in Seq(R)
<1> SUFFICES ASSUME NEW R, NEW x \in R PROVE <<x>> \in Seq(R)
  OBVIOUS
<1>0. <<>> \in Seq(R)
  BY EmptySeq
<1>1. PICK w : w = <<>> /\ w \in Seq(R)
  BY ZenonT(40), <1>0
<1>2. Append(w, x) \in Seq(R)
  BY <1>1
<1>3. Append(w, x) = <<x>>
  BY <1>1
<1> QED BY <1>2, <1>3

-----------------------------------------------------------------------------
\* A statement that writes nothing.

\* A unit in order that writes nothing stays in order.
LEMMA PassLocal ==
  ASSUME NEW u, NEW v, NEW d, NEW n, Ready(u, d, n), After(u, v),
         v.new = u.new, v.set = u.set, DOMAIN u.set = {} \/ v.seen = u.seen,
         Written(v), Noted(v, d), Backed(v, d)
  PROVE  Local(v, d, n)
<1>0. /\ Fit(u, d, n) /\ Changed(u, d) /\ Guarded(u) /\ Stocked(View(u, d))
      /\ u.pc \in Nat /\ u.pc > 0 /\ u.run > 0
  BY ReadyFacts DEF Ready, Local
<1>1. v.pc = u.pc + 1 /\ v.run = u.run /\ v.at = u.at
  BY DEF After
<1>2. Fit(v, d, n)
  BY <1>0, <1>1 DEF Fit
<1>3. Clean(v)
  BY <1>0, <1>1 DEF Clean
<1>5. Changed(v, d)
  BY <1>0, ChangedStep
<1>6. Guarded(v)
  BY <1>0 DEF Guarded
<1>7. View(v, d) = View(u, d)
  BY DEF View
<1> QED BY <1>0, <1>2, <1>3, <1>5, <1>6, <1>7 DEF Local

-----------------------------------------------------------------------------
\* An insertion under a human code.

\* v is u with the row inserted into t.
Inserted(u, v, t, row) ==
  /\ After(u, v) /\ v.set = u.set /\ v.seen = u.seen /\ v.due = u.due
  /\ DOMAIN v.new = DOMAIN u.new /\ v.new[t] = Append(u.new[t], row)
  /\ \A s \in DOMAIN u.new : s # t => v.new[s] = u.new[s]

\* A unit in order that inserts a coded row stays in order.
LEMMA InsertLocal ==
  ASSUME NEW u, NEW v, NEW d, NEW n, Ready(u, d, n), NEW t \in Coded, NEW row \in Row[t],
         Inserted(u, v, t, row), row.by = u.calls.key, Fills(Program[u.calls.op][u.pc], t),
         Noted(v, d), Backed(v, d)
  PROVE  Local(v, d, n) /\ v.new[t] = <<row>>
<1>0. /\ Fit(u, d, n) /\ Changed(u, d) /\ Guarded(u) /\ Stocked(View(u, d)) /\ Written(u)
      /\ u.pc \in Nat /\ u.pc > 0 /\ u.run > 0 /\ Typed(d)
      /\ u.calls.op \in DOMAIN Program /\ u.pc \in 1..Len(Program[u.calls.op])
  BY ReadyFacts DEF Ready, Local
<1>1. v.pc = u.pc + 1 /\ v.run = u.run /\ v.at = u.at /\ v.set = u.set /\ After(u, v) /\ v.seen = u.seen
  BY DEF Inserted, After
<1>2. t \in Tables /\ t \in Keyed /\ t \notin {"ledger", "counts", "fence", "pos", "works"}
  BY DEF Coded, Tables, Keyed
<1>3. DOMAIN u.new = Tables /\ DOMAIN v.new = Tables
  BY <1>0 DEF Fit, Inserted
<1>4. u.new[t] = <<>>
  <2>1. u.pc = Slot(u.calls.op, t)
    BY <1>0, <1>2, Slots
  <2> QED BY <1>0, <1>2, <2>1 DEF Written
<1>5. v.new[t] = <<row>>
  BY <1>4 DEF Inserted
<1>6. \A s \in Tables : s # t => v.new[s] = u.new[s]
  BY <1>3 DEF Inserted
<1>7. Fit(v, d, n)
  <2>1. v.new[t] \in Seq(Row[t])
    <3>1. PICK R : R = Row[t] /\ row \in R
      OBVIOUS
    <3>2. <<row>> \in Seq(R)
      BY ONLY ZenonT(40), <3>1, OneRow
    <3> QED BY <1>5, <3>1, <3>2
  <2>2. \A s \in Tables : v.new[s] \in Seq(Row[s])
    BY ZenonT(40), <1>0, <1>6, <2>1 DEF Fit
  <2> QED BY <1>0, <1>1, <1>3, <2>2 DEF Fit
<1>8. Clean(v)
  BY <1>0, <1>1 DEF Clean
<1>9. Written(v)
  <2>1. Inserts(u, v)
    <3> SUFFICES ASSUME NEW s \in Keyed
                 PROVE  IF Fills(Program[u.calls.op][u.pc], s)
                        THEN /\ Len(v.new[s]) \in Rights(u.calls)[s]
                             /\ \A i \in 1..Len(v.new[s]) : v.new[s][i].by = u.calls.key
                        ELSE v.new[s] = u.new[s]
      BY DEF Inserts
    <3>1. CASE s = t
      <4>1. 1 \in Rights(u.calls)[t]
        BY <1>0, CodedRights
      <4>2. Len(v.new[t]) = 1 /\ v.new[t][1] = row
        BY <1>5
      <4>3. \A i \in 1..Len(v.new[t]) : v.new[t][i].by = u.calls.key
        BY <4>2
      <4> QED BY <3>1, <4>1, <4>2, <4>3
    <3>2. CASE s # t
      <4>1. ~Fills(Program[u.calls.op][u.pc], s)
        BY <1>2, <3>2 DEF Fills
      <4>2. s \in Tables
        BY DEF Keyed, Tables
      <4> QED BY <1>6, <3>2, <4>1, <4>2
    <3> QED BY <3>1, <3>2
  <2>2. /\ v.new.fence = u.new.fence /\ v.new.pos = u.new.pos /\ v.new.works = u.new.works
        /\ v.new.counts = u.new.counts
    BY <1>2, <1>6 DEF Tables
  <2>3. /\ v.new.fence = <<>> /\ v.new.pos = <<>> /\ v.new.works = <<>>
        /\ v.new.counts # <<>> => u.calls.op = "preview"
    BY <1>0, <2>2 DEF Written
  <2> QED BY <1>1, <2>1, <2>3, WrittenStep
<1>10. Changed(v, d)
  BY <1>0, <1>1, ChangedStep
<1>11. v.new.ledger = u.new.ledger /\ v.new.counts = u.new.counts /\ v.new.fence = u.new.fence
  BY <1>2, <1>6 DEF Tables
<1>12. Guarded(v)
  BY <1>0, <1>1, <1>11 DEF Guarded
<1>13. Stocked(View(v, d))
  <2>1. Agree(u, v, "ledger") /\ Agree(u, v, "counts") /\ Agree(u, v, "fence")
    BY <1>1, <1>11 DEF Agree
  <2> QED BY <1>0, <2>1, StockKept
<1> QED BY <1>5, <1>7, <1>8, <1>9, <1>10, <1>12, <1>13 DEF Local

-----------------------------------------------------------------------------
\* An update of one row.

\* v is u with row i of t set to row.
Rewrites(u, v, t, i, row) ==
  /\ v.pc \in {u.pc, u.pc + 1}
  /\ v.calls = u.calls /\ v.run = u.run /\ v.at = u.at /\ v.seen = u.seen /\ v.new = u.new
  /\ DOMAIN v.set = DOMAIN u.set \cup {<<t, i>>} /\ v.set[<<t, i>>] = row
  /\ \A k \in DOMAIN u.set : k # <<t, i>> => v.set[k] = u.set[k]

\* An updated row is of its type.
LEMMA RewriteFit ==
  ASSUME NEW u, NEW v, NEW d, NEW n, Typed(d), Fit(u, d, n), NEW t \in Kept, NEW i \in 1..Len(d[t]),
         NEW row \in Row[t], Rewrites(u, v, t, i, row)
  PROVE  Fit(v, d, n)
<1>1. Len(d[t]) \in Nat
  <2>1. t \in Tables
    BY DEF Kept, Tables
  <2>2. d[t] \in Seq(Row[t])
    BY <2>1 DEF Typed
  <2> QED BY <2>2
<1>2. i \in Nat
  BY <1>1
<1>3. v.pc \in Nat /\ v.at \in 0..n
  BY DEF Fit, Rewrites
<1>4. DOMAIN v.new = Tables /\ \A s \in Tables : v.new[s] \in Seq(Row[s])
  BY DEF Fit, Rewrites
<1>5. ASSUME NEW k \in DOMAIN v.set
      PROVE  k \in Kept \X Nat /\ k[2] \in 1..Len(d[k[1]]) /\ v.set[k] \in Row[k[1]]
  <2>1. CASE k = <<t, i>>
    BY <1>2, <2>1 DEF Rewrites
  <2>2. CASE k # <<t, i>>
    BY <2>2 DEF Fit, Rewrites
  <2> QED BY <2>1, <2>2
<1> QED BY <1>3, <1>4, <1>5 DEF Fit

\* An update of another table leaves a table as it is read.
LEMMA RewriteAgree ==
  ASSUME NEW u, NEW v, NEW t, NEW i, NEW row, Rewrites(u, v, t, i, row), NEW s, s # t
  PROVE  Agree(u, v, s)
BY DEF Rewrites, Agree

\* A unit in order that updates a document stays in order.
LEMMA RewriteLocal ==
  ASSUME NEW u, NEW v, NEW d, NEW n, Ready(u, d, n),
         NEW t \in {"orders", "pays", "holds", "pos", "works"}, NEW i \in 1..Len(d[t]),
         NEW row \in Row[t], Rewrites(u, v, t, i, row), Updates(v, d, t, i, row),
         v.pc > 1, Written(v), Noted(v, d), Backed(v, d)
  PROVE  Local(v, d, n)
<1>0. /\ Fit(u, d, n) /\ Changed(u, d) /\ Guarded(u) /\ Stocked(View(u, d)) /\ Clean(u)
      /\ u.pc \in Nat /\ u.pc > 0 /\ u.run > 0 /\ Typed(d)
  BY ReadyFacts DEF Ready, Local
<1>1. t \in Kept
  BY DEF Kept
<1>2. Fit(v, d, n)
  BY <1>0, <1>1, RewriteFit
<1>3. Changed(v, d)
  BY <1>0, ChangedMore DEF Rewrites
<1>4. Guarded(v)
  BY <1>0 DEF Guarded, Rewrites
<1>5. Stocked(View(v, d))
  <2>1. t \notin {"ledger", "counts", "fence"}
    OBVIOUS
  <2>2. Agree(u, v, "ledger") /\ Agree(u, v, "counts") /\ Agree(u, v, "fence")
    BY <2>1, RewriteAgree
  <2> QED BY <1>0, <2>2, StockKept
<1>6. Clean(v)
  BY <1>0 DEF Clean, Rewrites
<1> QED BY <1>2, <1>3, <1>4, <1>5, <1>6 DEF Local

-----------------------------------------------------------------------------
\* Taking the fence.

\* The fence is taken by an update of its row.
LEMMA FenceTaken ==
  ASSUME NEW u, NEW v, NEW d, NEW n, Typed(d), Fit(u, d, n), Changed(u, d), u.pc \in Nat,
         NEW ver \in Nat, Rewrites(u, v, "fence", 1, [ver |-> ver])
  PROVE  Fit(v, d, n) /\ Changed(v, d) /\ Guarded(v)
<1>1. 1 \in 1..Len(d["fence"]) /\ "fence" \in Kept
  BY DEF Typed, Kept
<1>2. [ver |-> ver] \in Row["fence"]
  BY DEF Row
<1>3. Fit(v, d, n)
  BY <1>1, <1>2, RewriteFit
<1>4. Updates(v, d, "fence", 1, [ver |-> ver])
  BY DEF Updates, Keyed
<1>5. Changed(v, d)
  BY <1>4, ChangedMore DEF Rewrites
<1>6. Guarded(v)
  BY DEF Guarded, Rewrites
<1> QED BY <1>3, <1>5, <1>6

\* A statement that takes the fence and writes nothing beside it.
LEMMA TouchLocal ==
  ASSUME NEW u, NEW v, NEW d, NEW n, Ready(u, d, n), After(u, v),
         Rewrites(u, v, "fence", 1, [ver |-> View(u, d).fence[1].ver]),
         \A t \in Keyed : ~Fills(Program[u.calls.op][u.pc], t),
         Noted(v, d), Backed(v, d)
  PROVE  Local(v, d, n)
<1>0. /\ Fit(u, d, n) /\ Changed(u, d) /\ Stocked(View(u, d)) /\ Written(u)
      /\ u.pc \in Nat /\ u.pc > 0 /\ u.run > 0 /\ Typed(d)
  BY ReadyFacts DEF Ready, Local
<1>1. PICK ver \in Nat : ver = View(u, d).fence[1].ver
  BY <1>0, FenceRow
<1>2. Fit(v, d, n) /\ Changed(v, d) /\ Guarded(v)
  BY ZenonT(40), <1>0, <1>1, FenceTaken
<1>3. Written(v)
  BY WrittenPass DEF Rewrites
<1>4. Clean(v)
  BY <1>0 DEF Clean, After
<1>5. PICK e, f : e = View(v, d) /\ f = View(u, d)
  OBVIOUS
<1>6. e.ledger = f.ledger /\ e.counts = f.counts
  <2>1. ASSUME NEW t \in {"ledger", "counts"} PROVE View(v, d)[t] = View(u, d)[t]
    <3>1. t \in Tables /\ t # "fence"
      BY DEF Tables
    <3>2. d[t] \in Seq(Row[t])
      BY <1>0, <3>1 DEF Typed
    <3>3. Len(d[t]) \in Nat
      BY <3>2
    <3>4. Agree(u, v, t)
      BY <3>1, RewriteAgree
    <3> QED BY ONLY <3>1, <3>3, <3>4, ViewSame
  <2> QED BY <1>5, <2>1
<1>7. e.fence[1].ver = f.fence[1].ver
  <2>1. e.fence[1] = [ver |-> ver]
    BY <1>0, <1>1, <1>2, <1>3, <1>5, FenceRow DEF Rewrites
  <2> QED BY <1>1, <1>5, <2>1
<1>8. Stocked(f)
  BY <1>0, <1>5
<1>9. Stocked(e)
  BY ONLY <1>6, <1>7, <1>8, StockedSame
<1> QED BY <1>2, <1>3, <1>4, <1>5, <1>9 DEF Local

-----------------------------------------------------------------------------
\* Movements.

\* v is u with the movements posted and the fence moved on to ver.
Posted(u, v, moves, ver) ==
  /\ After(u, v) /\ v.seen = u.seen /\ v.due = u.due
  /\ DOMAIN v.new = DOMAIN u.new /\ v.new.ledger = u.new.ledger \o moves
  /\ \A s \in DOMAIN u.new : s # "ledger" => v.new[s] = u.new[s]
  /\ <<"fence", 1>> \in DOMAIN v.set /\ v.set[<<"fence", 1>>] = [ver |-> ver]
  /\ \A k \in DOMAIN v.set :
       k = <<"fence", 1>> \/ k[1] = "counts" \/ (k \in DOMAIN u.set /\ v.set[k] = u.set[k])
  /\ \A k \in DOMAIN u.set : k[1] \notin {"fence", "counts"} => k \in DOMAIN v.set /\ v.set[k] = u.set[k]

\* What posting does to the tables a unit inserts into.
LEMMA PostInserts ==
  ASSUME NEW u, NEW v, NEW d, NEW n, Ready(u, d, n), NEW moves \in Seq(Row.ledger), NEW ver,
         Posted(u, v, moves, ver), Fills(Program[u.calls.op][u.pc], "ledger"),
         Len(moves) \in Rights(u.calls)["ledger"],
         \A i \in 1..Len(moves) : moves[i].by = u.calls.key
  PROVE  /\ u.new.ledger = <<>> /\ v.new.ledger = moves /\ Written(v)
         /\ DOMAIN v.new = Tables /\ \A t \in Tables : v.new[t] \in Seq(Row[t])
<1>0. /\ Fit(u, d, n) /\ Written(u) /\ u.pc \in Nat /\ u.pc > 0
      /\ u.calls.op \in DOMAIN Program /\ u.pc \in 1..Len(Program[u.calls.op])
  BY ReadyFacts DEF Ready, Local
<1>1. "ledger" \in Keyed /\ "ledger" \in Tables /\ Keyed \subseteq Tables
  BY DEF Keyed, Tables
<1>2. u.new.ledger = <<>>
  <2>1. u.pc = Slot(u.calls.op, "ledger")
    BY <1>0, <1>1, Slots
  <2> QED BY <1>0, <1>1, <2>1 DEF Written
<1>3. v.new.ledger = moves
  BY <1>2 DEF Posted
<1>4. DOMAIN v.new = Tables /\ \A t \in Tables : t # "ledger" => v.new[t] = u.new[t]
  BY <1>0 DEF Fit, Posted
<1>5. \A t \in Tables : v.new[t] \in Seq(Row[t])
  <2> SUFFICES ASSUME NEW t \in Tables PROVE v.new[t] \in Seq(Row[t])
    OBVIOUS
  <2>1. CASE t = "ledger"
    BY <1>3, <2>1
  <2>2. CASE t # "ledger"
    BY <1>0, <1>4, <2>2 DEF Fit
  <2> QED BY <2>1, <2>2
<1>6. Inserts(u, v)
  <2> SUFFICES ASSUME NEW s \in Keyed
               PROVE  IF Fills(Program[u.calls.op][u.pc], s)
                      THEN /\ Len(v.new[s]) \in Rights(u.calls)[s]
                           /\ \A i \in 1..Len(v.new[s]) : v.new[s][i].by = u.calls.key
                      ELSE v.new[s] = u.new[s]
    BY DEF Inserts
  <2>1. CASE s = "ledger"
    BY <1>3, <2>1
  <2>2. CASE s # "ledger"
    <3>1. ~Fills(Program[u.calls.op][u.pc], s)
      BY <2>2 DEF Fills
    <3> QED BY <1>1, <1>4, <2>2, <3>1
  <2> QED BY <2>1, <2>2
<1>7. /\ v.new.fence = u.new.fence /\ v.new.pos = u.new.pos /\ v.new.works = u.new.works
      /\ v.new.counts = u.new.counts
  BY <1>4 DEF Tables
<1>8. /\ v.new.fence = <<>> /\ v.new.pos = <<>> /\ v.new.works = <<>>
      /\ v.new.counts # <<>> => u.calls.op = "preview"
  BY <1>0, <1>7 DEF Written
<1>9. Written(v)
  BY <1>6, <1>8, WrittenStep DEF Posted
<1> QED BY <1>2, <1>3, <1>4, <1>5, <1>9

\* The ledger a unit reads after it has posted.
LEMMA PostLedger ==
  ASSUME NEW u, NEW v, NEW d, NEW n, Typed(d), Fit(u, d, n), NEW moves \in Seq(Row.ledger),
         NEW ver, Posted(u, v, moves, ver), \A k \in DOMAIN u.set : k[1] # "ledger"
  PROVE  View(v, d).ledger = View(u, d).ledger \o moves
<1>1. \A k \in DOMAIN v.set : k[1] # "ledger"
  BY DEF Posted
<1>2. \A i \in Nat : <<"ledger", i>> \notin DOMAIN v.set /\ <<"ledger", i>> \notin DOMAIN u.set
  <2>1. \A i \in Nat : <<"ledger", i>>[1] = "ledger"
    OBVIOUS
  <2> QED BY <1>1, <2>1
<1>3. v.new["ledger"] = u.new["ledger"] \o moves
  BY DEF Posted
<1>4. "ledger" \in Tables /\ moves \in Seq(Row["ledger"])
  BY DEF Tables
<1>5. View(v, d)["ledger"] = View(u, d)["ledger"] \o moves
  <2>1. Grows(u, v, "ledger", moves)
    BY <1>2, <1>3, <1>4 DEF Grows
  <2> QED BY <1>4, <2>1, ViewMore
<1> QED BY <1>5

\* What a unit that has posted holds, if the rows of counts it has set are in order.
LEMMA PostParts ==
  ASSUME NEW u, NEW v, NEW d, NEW n, Ready(u, d, n), NEW moves \in Seq(Row.ledger),
         NEW ver \in Nat, Posted(u, v, moves, ver), Fills(Program[u.calls.op][u.pc], "ledger"),
         Len(moves) \in Rights(u.calls)["ledger"],
         \A i \in 1..Len(moves) : moves[i].by = u.calls.key,
         \A k \in DOMAIN v.set : k[1] = "counts" =>
           k \in Kept \X Nat /\ k[2] \in 1..Len(d.counts) /\ v.set[k] \in Row.counts
  PROVE  Fit(v, d, n) /\ Clean(v) /\ Written(v) /\ Changed(v, d) /\ Guarded(v)
<1>0. /\ Fit(u, d, n) /\ Changed(u, d) /\ Written(u) /\ u.pc \in Nat /\ u.pc > 0 /\ u.run > 0 /\ Typed(d)
  BY ReadyFacts DEF Ready, Local
<1>1. After(u, v) /\ v.pc = u.pc + 1 /\ v.run = u.run /\ v.at = u.at /\ v.calls = u.calls /\ v.seen = u.seen
  BY DEF Posted, After
<1>2. /\ Written(v) /\ DOMAIN v.new = Tables /\ \A t \in Tables : v.new[t] \in Seq(Row[t])
  BY ZenonT(40), PostInserts
<1>3. Fit(v, d, n)
  <2>1. ASSUME NEW k \in DOMAIN v.set
        PROVE  k \in Kept \X Nat /\ k[2] \in 1..Len(d[k[1]]) /\ v.set[k] \in Row[k[1]]
    <3>1. CASE k = <<"fence", 1>>
      <4>1. v.set[k] = [ver |-> ver] /\ k[1] = "fence" /\ k[2] = 1
        BY <3>1 DEF Posted
      <4>2. 1 \in 1..Len(d.fence) /\ [ver |-> ver] \in Row.fence
        BY <1>0 DEF Typed, Row
      <4>3. <<"fence", 1>> \in Kept \X Nat
        BY DEF Kept
      <4> QED BY <3>1, <4>1, <4>2, <4>3
    <3>2. CASE k[1] = "counts"
      BY <3>2
    <3>3. CASE k \in DOMAIN u.set /\ v.set[k] = u.set[k]
      BY <1>0, <3>3 DEF Fit
    <3> QED BY <3>1, <3>2, <3>3 DEF Posted
  <2> QED BY <1>0, <1>1, <1>2, <2>1 DEF Fit
<1>4. Clean(v)
  BY <1>0, <1>1 DEF Clean
<1>5. Guarded(v)
  BY DEF Guarded, Posted
<1>6. Changed(v, d)
  <2>1. \A ops : \A k \in {2, 3} : Past(u, ops, k) => Past(v, ops, k)
    BY <1>0, <1>1 DEF Past
  <2>2. u.pc > 3 => v.pc > 3
    BY <1>0, <1>1
  <2>3. ASSUME NEW k \in DOMAIN v.set, k[1] \in {"fence", "counts"} \/ (k \in DOMAIN u.set /\ v.set[k] = u.set[k])
        PROVE  /\ k[1] \in Keyed => v.set[k].by = d[k[1]][k[2]].by
               /\ k[1] \in {"orders", "pos", "works"} => Marks(v, d[k[1]][k[2]], v.set[k], k[1], k[2])
               /\ k[1] = "works" => v.pc > 3 /\ v.set[k].ver > d.works[k[2]].ver
               /\ k[1] = "pays" =>
                    /\ Past(v, {"verify"}, 3) \/ Past(v, {"reject"}, 2)
                    /\ k[2] = v.calls.on /\ d.pays[k[2]] = v.seen
                    /\ v.set[k] = [v.seen EXCEPT !.ver = @ + 1,
                         !.status = IF v.calls.op = "verify" THEN "VERIFIED" ELSE "REJECTED"]
               /\ k[1] = "holds" => EndsHold(v, d.holds[k[2]], v.set[k], k[2])
    <3>1. CASE k[1] \in {"fence", "counts"}
      BY <3>1 DEF Keyed
    <3>2. CASE k \in DOMAIN u.set /\ v.set[k] = u.set[k]
      <4>1. \A a, b, i : EndsHold(u, a, b, i) => EndsHold(v, a, b, i)
        BY <1>1, EndsSame DEF Posted, After
      <4>2. \A a, b, t, i : Marks(u, a, b, t, i) => Marks(v, a, b, t, i)
        BY <1>1, MarksSame DEF Posted, After
      <4> QED BY <1>0, <1>1, <2>1, <2>2, <3>2, <4>1, <4>2 DEF Changed
    <3> QED BY <2>3, <3>1, <3>2
  <2>4. \A k \in DOMAIN v.set : k[1] \in {"fence", "counts"} \/ (k \in DOMAIN u.set /\ v.set[k] = u.set[k])
    BY DEF Posted
  <2> QED BY <2>3, <2>4 DEF Changed
<1> QED BY <1>2, <1>3, <1>4, <1>5, <1>6

\* The tables the stock is made of, before and after.
LEMMA PostViews ==
  ASSUME NEW u, NEW v, NEW d, NEW n, Ready(u, d, n), NEW moves \in Seq(Row.ledger),
         NEW ver, Posted(u, v, moves, ver), Fit(v, d, n), Written(v)
  PROVE  /\ View(v, d).ledger = View(u, d).ledger \o moves
         /\ View(v, d).fence[1].ver = ver
         /\ StockTyped(View(u, d)) /\ Stocked(View(u, d))
<1>0. Fit(u, d, n) /\ Typed(d) /\ Written(u) /\ Stocked(View(u, d))
  BY ReadyFacts DEF Ready, Local
<1>1. \A k \in DOMAIN u.set : k[1] # "ledger"
  BY ZenonT(40), <1>0 DEF Fit, Kept
<1>2. View(v, d).ledger = View(u, d).ledger \o moves
  BY <1>0, <1>1, PostLedger
<1>3. View(v, d).fence[1] = [ver |-> ver]
  BY <1>0, FenceRow DEF Posted
<1>4. StockTyped(View(u, d))
  BY <1>0, ViewStockTyped
<1> QED BY <1>0, <1>2, <1>3, <1>4

\* Movements of documents.
LEMMA PostLocal ==
  ASSUME NEW u, NEW v, NEW d, NEW n, Ready(u, d, n), NEW moves \in Seq(Row.ledger),
         Posted(u, v, moves, View(u, d).fence[1].ver + Len(moves)),
         \A k \in DOMAIN v.set : k[1] = "counts" => k \in DOMAIN u.set /\ v.set[k] = u.set[k],
         DOMAIN u.set \subseteq DOMAIN v.set,
         Fills(Program[u.calls.op][u.pc], "ledger"),
         Len(moves) \in Rights(u.calls)["ledger"],
         \A i \in 1..Len(moves) : moves[i].by = u.calls.key /\ moves[i].on[1] # "counts",
         Covering(View(u, d).ledger, moves),
         Noted(v, d), Backed(v, d)
  PROVE  Local(v, d, n)
<1>0. Fit(u, d, n) /\ Typed(d) /\ Written(u)
  BY ReadyFacts DEF Ready, Local
<1>1. PICK ver \in Nat : ver = View(u, d).fence[1].ver + Len(moves)
  <2>1. View(u, d).fence[1].ver \in Nat
    BY <1>0, FenceRow
  <2>2. Len(moves) \in Nat
    OBVIOUS
  <2> QED BY ONLY <2>1, <2>2
<1>2. Posted(u, v, moves, ver)
  BY <1>1
<1>3. \A k \in DOMAIN v.set : k[1] = "counts" =>
        k \in Kept \X Nat /\ k[2] \in 1..Len(d.counts) /\ v.set[k] \in Row.counts
  BY <1>0 DEF Fit
<1>4. Fit(v, d, n) /\ Clean(v) /\ Written(v) /\ Changed(v, d) /\ Guarded(v)
  BY ZenonT(40), <1>2, <1>3, PostParts
<1>5. PICK e, f : e = View(v, d) /\ f = View(u, d)
  OBVIOUS
<1>6. e.ledger = f.ledger \o moves /\ e.fence[1].ver = ver /\ StockTyped(f) /\ Stocked(f)
  <2>1. /\ View(v, d).ledger = View(u, d).ledger \o moves /\ View(v, d).fence[1].ver = ver
        /\ StockTyped(View(u, d)) /\ Stocked(View(u, d))
    BY ONLY Ready(u, d, n), moves \in Seq(Row.ledger), <1>2, <1>4, PostViews
  <2> QED BY ONLY <1>5, <2>1
<1>7. e.counts = f.counts
  <2>1. "counts" \in Tables
    BY DEF Tables
  <2>2. d["counts"] \in Seq(Row["counts"])
    BY <1>0, <2>1 DEF Typed
  <2>3. Len(d["counts"]) \in Nat
    BY <2>2
  <2>4. Agree(u, v, "counts")
    <3>1. v.new["counts"] = u.new["counts"]
      BY <1>0, <1>2, <2>1 DEF Posted, Fit
    <3>2. \A i \in Nat : <<"counts", i>>[1] = "counts"
      OBVIOUS
    <3> QED BY <3>1, <3>2 DEF Agree
  <2>5. View(v, d)["counts"] = View(u, d)["counts"]
    BY ONLY <2>1, <2>3, <2>4, ViewSame
  <2> QED BY <1>5, <2>5
<1>8. Covering(f.ledger, moves) /\ ver = f.fence[1].ver + Len(moves)
  BY <1>1, <1>5
<1>9. Stocked(e)
  <2>1. \A i \in 1..Len(moves) : moves[i].on[1] # "counts"
    OBVIOUS
  <2>2. e.fence[1].ver = f.fence[1].ver + Len(moves) /\ moves \in Seq(Row.ledger)
    BY <1>6, <1>8
  <2> QED BY ONLY ZenonT(40), <1>6, <1>7, <1>8, <2>1, <2>2, StockedPost
<1> QED BY <1>4, <1>5, <1>9 DEF Local

\* The adjustment of a count, and the preview it settles.
LEMMA SettleLocal ==
  ASSUME NEW u, NEW v, NEW d, NEW n, Ready(u, d, n), NEW moves \in Seq(Row.ledger),
         Posted(u, v, moves, View(u, d).fence[1].ver + Len(moves)),
         NEW i \in 1..Len(d.counts), NEW row \in Row.counts,
         DOMAIN v.set = DOMAIN u.set \cup {<<"fence", 1>>, <<"counts", i>>},
         v.set[<<"counts", i>>] = row,
         \A k \in DOMAIN u.set : k \notin {<<"fence", 1>>, <<"counts", i>>} => v.set[k] = u.set[k],
         u.calls.op = "count", u.pc = 1, Len(moves) <= 1,
         \A j \in 1..Len(moves) : moves[j].by = u.calls.key /\ moves[j].on = <<"counts", i>>,
         Covering(View(u, d).ledger, moves),
         row.rev = View(u, d).fence[1].ver, row.rev = View(u, d).counts[i].rev,
         row.expected = View(u, d).counts[i].expected,
         Noted(v, d), Backed(v, d)
  PROVE  Local(v, d, n)
<1>0. Fit(u, d, n) /\ Typed(d) /\ Written(u) /\ "counts" \in Tables /\ "counts" \in Kept
  BY ReadyFacts DEF Ready, Local, Tables, Kept
<1>1. PICK ver \in Nat : ver = View(u, d).fence[1].ver + Len(moves)
  <2>1. View(u, d).fence[1].ver \in Nat
    BY ZenonT(40), <1>0, FenceRow
  <2>2. Len(moves) \in Nat
    OBVIOUS
  <2> QED BY ONLY <2>1, <2>2
<1>2. Posted(u, v, moves, ver)
  BY ZenonT(40), <1>1
<1>3. d.counts \in Seq(Row.counts)
  BY <1>0 DEF Typed
<1>4. \A k \in DOMAIN v.set : k[1] = "counts" =>
        k \in Kept \X Nat /\ k[2] \in 1..Len(d.counts) /\ v.set[k] \in Row.counts
  <2> SUFFICES ASSUME NEW k \in DOMAIN v.set, k[1] = "counts"
               PROVE  k \in Kept \X Nat /\ k[2] \in 1..Len(d.counts) /\ v.set[k] \in Row.counts
    OBVIOUS
  <2>1. CASE k = <<"counts", i>>
    <3>1. i \in Nat
      BY <1>3
    <3> QED BY <1>0, <2>1, <3>1
  <2>2. CASE k # <<"counts", i>>
    <3>1. k # <<"fence", 1>>
      OBVIOUS
    <3>2. k \in DOMAIN u.set /\ v.set[k] = u.set[k]
      BY <2>2, <3>1
    <3> QED BY <1>0, <3>2 DEF Fit
  <2> QED BY <2>1, <2>2
<1>5. Fills(Program[u.calls.op][u.pc], "ledger") /\ Len(moves) \in Rights(u.calls)["ledger"]
  <2>1. Len(moves) \in {0, 1}
    <3>1. PICK m \in Nat : m = Len(moves) /\ m <= 1
      OBVIOUS
    <3>2. m \in {0, 1}
      BY ONLY <3>1
    <3> QED BY <3>1, <3>2
  <2> QED BY <2>1 DEF Program, Fills, Rights, Keyed
<1>6. \A j \in 1..Len(moves) : moves[j].by = u.calls.key
  OBVIOUS
<1>7. Fit(v, d, n) /\ Clean(v) /\ Written(v) /\ Changed(v, d) /\ Guarded(v)
  BY ONLY ZenonT(40), Ready(u, d, n), moves \in Seq(Row.ledger), <1>1, <1>2, <1>4, <1>5, <1>6, PostParts
<1>8. PICK e, f : e = View(v, d) /\ f = View(u, d)
  OBVIOUS
<1>9. e.ledger = f.ledger \o moves /\ e.fence[1].ver = ver /\ StockTyped(f) /\ Stocked(f)
  <2>1. /\ View(v, d).ledger = View(u, d).ledger \o moves /\ View(v, d).fence[1].ver = ver
        /\ StockTyped(View(u, d)) /\ Stocked(View(u, d))
    BY ONLY Ready(u, d, n), moves \in Seq(Row.ledger), <1>2, <1>7, PostViews
  <2> QED BY ONLY <1>8, <2>1
<1>10. PICK r, s : r = View(u, d)["counts"] /\ s = View(v, d)["counts"]
  OBVIOUS
<1>11. Len(s) = Len(r) /\ i \in 1..Len(r) /\ \A j \in 1..Len(r) : s[j] = IF j = i THEN row ELSE r[j]
  <2>1. Sets(u, v, "counts", i, row)
    <3>1. v.new["counts"] = u.new["counts"]
      BY <1>0, <1>2 DEF Posted, Fit
    <3>2. \A j \in Nat : <<"counts", j>> # <<"fence", 1>>
      OBVIOUS
    <3>3. \A j \in Nat : j # i => <<"counts", j>> # <<"counts", i>>
      OBVIOUS
    <3> QED BY <3>1, <3>2, <3>3 DEF Sets
  <2>2. i \in 1..Len(d["counts"])
    OBVIOUS
  <2> QED BY ONLY <1>0, <1>7, <1>10, <2>1, <2>2, ViewChanged
<1>12. f.counts = r /\ e.counts = s
  BY <1>8, <1>10
<1>13. Covering(f.ledger, moves) /\ e.fence[1].ver = f.fence[1].ver + Len(moves)
  BY <1>1, <1>8, <1>9
<1>14. f.counts[i].rev = f.fence[1].ver
  BY ZenonT(40), <1>8
<1>15. /\ Len(e.counts) = Len(f.counts) /\ i \in 1..Len(f.counts)
       /\ \A j \in 1..Len(f.counts) :
            e.counts[j].rev = f.counts[j].rev /\ e.counts[j].expected = f.counts[j].expected
  <2>1. row.rev = f.counts[i].rev /\ row.expected = f.counts[i].expected
    BY <1>8
  <2>2. \A j \in 1..Len(r) : s[j].rev = r[j].rev /\ s[j].expected = r[j].expected
    BY <1>11, <1>12, <2>1
  <2> QED BY <1>11, <1>12, <2>2
<1>16. \A j \in 1..Len(moves) : moves[j].on = <<"counts", i>>
  OBVIOUS
<1>17. Stocked(e)
  BY ONLY ZenonT(40), <1>9, <1>13, <1>14, <1>15, <1>16, moves \in Seq(Row.ledger), Len(moves) <= 1, StockedSettle
<1> QED BY <1>7, <1>8, <1>17 DEF Local

\* A unit at its first statement reads what is committed.
LEMMA FirstReads ==
  ASSUME NEW u, NEW d, NEW n, Typed(d), Fit(u, d, n), Clean(u), u.pc <= 1
  PROVE  /\ DOMAIN u.set = {} /\ u.new = NoRows
         /\ \A t \in Tables : View(u, d)[t] = d[t] /\ u.new[t] = <<>>
<1>1. DOMAIN u.set = {} /\ u.new = NoRows
  BY DEF Clean
<1> QED BY <1>1, ViewClean DEF NoRows

\* A preview records the stock under the fence.
LEMMA PreviewLocal ==
  ASSUME NEW u, NEW v, NEW d, NEW n, Ready(u, d, n), After(u, v), u.calls.op = "preview", u.pc = 1,
         NEW c \in Row.counts, c.rev = View(u, d).fence[1].ver, c.expected = OnHand(View(u, d).ledger, "A"),
         v.seen = u.seen, DOMAIN v.new = DOMAIN u.new, v.new["counts"] = Append(u.new["counts"], c),
         \A s \in DOMAIN u.new : s # "counts" => v.new[s] = u.new[s],
         DOMAIN v.set = DOMAIN u.set \cup {<<"fence", 1>>},
         v.set[<<"fence", 1>>] = [ver |-> View(u, d).fence[1].ver]
  PROVE  Local(v, d, n)
<1>0. /\ Fit(u, d, n) /\ Typed(d) /\ Written(u) /\ Clean(u) /\ Stocked(View(u, d)) /\ u.run > 0
      /\ "counts" \in Tables /\ "ledger" \in Tables /\ "fence" \in Tables /\ "pays" \in Tables
  BY ReadyFacts DEF Ready, Local, Tables
<1>1. DOMAIN u.set = {} /\ u.new = NoRows /\ \A t \in Tables : u.new[t] = <<>>
  BY <1>0, FirstReads
<1>2. PICK ver \in Nat : ver = View(u, d).fence[1].ver
  BY <1>0, FenceRow
<1>3. DOMAIN v.set = {<<"fence", 1>>} /\ v.set[<<"fence", 1>>] = [ver |-> ver]
  BY <1>1, <1>2
<1>4. DOMAIN v.new = Tables /\ v.new["counts"] = <<c>> /\ \A s \in Tables : s # "counts" => v.new[s] = <<>>
  BY <1>0, <1>1 DEF NoRows
<1>5. v.pc = 2 /\ v.run = u.run /\ v.at = u.at /\ v.calls = u.calls
  BY DEF After
<1>6. Fit(v, d, n)
  <2>1. v.new["counts"] \in Seq(Row["counts"])
    <3>1. PICK R : R = Row.counts /\ c \in R
      OBVIOUS
    <3>2. <<c>> \in Seq(R)
      BY ONLY ZenonT(40), <3>1, OneRow
    <3> QED BY <1>4, <3>1, <3>2
  <2>2. \A s \in Tables : v.new[s] \in Seq(Row[s])
    <3> SUFFICES ASSUME NEW s \in Tables PROVE v.new[s] \in Seq(Row[s])
      OBVIOUS
    <3>1. CASE s = "counts"
      BY ZenonT(40), <2>1, <3>1
    <3>2. CASE s # "counts"
      <4>1. <<>> \in Seq(Row[s])
        BY EmptySeq
      <4> QED BY ZenonT(40), <1>4, <3>2, <4>1
    <3> QED BY <3>1, <3>2
  <2>3. 1 \in 1..Len(d.fence) /\ [ver |-> ver] \in Row.fence
    BY <1>0 DEF Typed, Row
  <2>4. <<"fence", 1>> \in Kept \X Nat
    BY DEF Kept
  <2> QED BY SMTT(40), <1>0, <1>3, <1>4, <1>5, <2>2, <2>3, <2>4 DEF Fit
<1>7. Clean(v)
  BY <1>0, <1>5 DEF Clean
<1>8. Written(v)
  <2>1. Inserts(u, v)
    <3> SUFFICES ASSUME NEW s \in Keyed
                 PROVE  ~Fills(Program[u.calls.op][u.pc], s) /\ v.new[s] = u.new[s]
      BY DEF Inserts
    <3>1. ~Fills(Program[u.calls.op][u.pc], s)
      BY DEF Fills, Program
    <3>2. s \in Tables /\ s # "counts"
      BY DEF Keyed, Tables
    <3> QED BY <1>1, <1>4, <3>1, <3>2
  <2>2. v.new.fence = <<>> /\ v.new.pos = <<>> /\ v.new.works = <<>>
    BY <1>4 DEF Tables
  <2> QED BY <2>1, <2>2, WrittenStep
<1>9. Noted(v, d)
  BY <1>5, NotedNone
<1>10. Changed(v, d)
  BY <1>3 DEF Changed, Keyed
<1>11. Guarded(v)
  BY <1>3 DEF Guarded
<1>12. Backed(v, d)
  BY <1>0, <1>4, <1>5 DEF Backed, Past
<1>13. PICK e, f : e = View(v, d) /\ f = View(u, d)
  OBVIOUS
<1>14. e.ledger = f.ledger
  <2>1. d["ledger"] \in Seq(Row["ledger"])
    BY <1>0 DEF Typed
  <2>2. Len(d["ledger"]) \in Nat
    BY <2>1
  <2>3. Agree(u, v, "ledger")
    <3>1. \A i \in Nat : <<"ledger", i>> # <<"fence", 1>>
      OBVIOUS
    <3> QED BY <1>0, <1>1, <1>3, <1>4, <3>1 DEF Agree
  <2>4. View(v, d)["ledger"] = View(u, d)["ledger"]
    BY ONLY <1>0, <2>2, <2>3, ViewSame
  <2> QED BY <1>13, <2>4
<1>15. e.counts = Append(f.counts, c)
  <2>1. PICK R, more : R = Row.counts /\ c \in R /\ more = <<c>>
    OBVIOUS
  <2>2. more \in Seq(Row["counts"])
    <3>1. <<c>> \in Seq(R)
      BY ONLY ZenonT(40), <2>1, OneRow
    <3> QED BY <2>1, <3>1
  <2>3. v.new["counts"] = u.new["counts"] \o more
    <3>1. PICK w : w = u.new["counts"] /\ w \in Seq(R) /\ w = <<>>
      <4>1. <<>> \in Seq(R)
        BY EmptySeq
      <4> QED BY ZenonT(40), <1>0, <1>1, <4>1
    <3>2. w \o more = more
      BY <3>1, <2>2
    <3> QED BY <1>4, <2>1, <3>1, <3>2
  <2>4. /\ \A i \in Nat : <<"counts", i>> \in DOMAIN v.set <=> <<"counts", i>> \in DOMAIN u.set
        /\ \A i \in Nat : <<"counts", i>> \in DOMAIN u.set => v.set[<<"counts", i>>] = u.set[<<"counts", i>>]
    <3>1. \A i \in Nat : <<"counts", i>> # <<"fence", 1>>
      OBVIOUS
    <3> QED BY <1>1, <1>3, <3>1
  <2>5. View(v, d)["counts"] = View(u, d)["counts"] \o more
    <3>1. Grows(u, v, "counts", more)
      BY <2>2, <2>3, <2>4 DEF Grows
    <3> QED BY ONLY <1>0, <3>1, ViewMore
  <2>6. PICK r : r = f.counts /\ r \in Seq(R)
    <3>1. StockTyped(f)
      BY <1>0, <1>13, ViewStockTyped
    <3> QED BY <2>1, <3>1 DEF StockTyped
  <2>7. r \o more = Append(r, c)
    BY <2>1, <2>6
  <2> QED BY ZenonT(40), <1>13, <2>5, <2>6, <2>7
<1>16. e.fence[1].ver = f.fence[1].ver
  <2>1. View(v, d).fence[1] = [ver |-> ver]
    BY <1>0, <1>3, <1>6, <1>8, FenceRow
  <2> QED BY <1>2, <1>13, <2>1
<1>17. StockTyped(f) /\ Stocked(f)
  BY <1>0, <1>13, ViewStockTyped
<1>18. c.rev = f.fence[1].ver /\ c.expected = OnHand(f.ledger, "A")
  BY <1>13
<1>19. Stocked(e)
  BY ONLY <1>14, <1>15, <1>16, <1>17, <1>18, StockedPreview
<1> QED BY <1>6, <1>7, <1>8, <1>9, <1>10, <1>11, <1>12, <1>13, <1>19 DEF Local

\* p is about to run a statement, apart from its peers.
Context(p) ==
  /\ UnitsShaped /\ p \in Processes /\ now \in Nat /\ Ready(unit[p], db, now)
  /\ \A o \in Processes \ {p} : Apart(unit[p], unit[o])
  /\ \A o \in Processes \ {p} : Guarded(unit[o])

\* v goes on where the unit of p stands.
Follows(p, v) ==
  /\ Becomes(p, v) /\ Shaped(v) /\ Keeps(unit[p], v) /\ Local(v, db, now)
  /\ \A o \in Processes \ {p} : Apart(v, unit[o])

\* The statement is refused, given up, re-run, or the unit goes on in order.
Progress(p) == Refuse(p) \/ GiveUp(p) \/ Rerun(p) \/ \E v : Follows(p, v)

\* The rows a statement reads are its unit's view.
LEMMA RowsView ==
  ASSUME NEW p, NEW t \in Tables
  PROVE  Rows(p, t) = View(unit[p], db)[t]
BY ZenonT(40) DEF Rows, Overlay, View

\* What the context of a statement says.
LEMMA ContextFacts ==
  ASSUME NEW p, Context(p)
  PROVE  /\ p \in Processes /\ now \in Nat /\ Shaped(unit[p]) /\ UnitsShaped /\ Ready(unit[p], db, now)
         /\ Typed(db) /\ Fit(unit[p], db, now) /\ Written(unit[p]) /\ Noted(unit[p], db)
         /\ Changed(unit[p], db) /\ Backed(unit[p], db) /\ Clean(unit[p])
         /\ unit[p].calls \in Request /\ unit[p].calls.op \in DOMAIN Program
         /\ unit[p].pc \in Nat /\ unit[p].pc > 0 /\ unit[p].run > 0
BY ReadyFacts DEF Context, Ready, Local

\* Writing no more than it has keeps a unit apart,
LEMMA ApartSame ==
  ASSUME NEW u, NEW v, NEW w, Apart(u, w), v.set = u.set, \A t \in Coded : v.new[t] = u.new[t]
  PROVE  Apart(v, w)
BY DEF Apart

\* so does an update of rows no peer has locked,
LEMMA ApartRewrite ==
  ASSUME NEW u, NEW v, NEW w, Apart(u, w), NEW K, DOMAIN v.set \subseteq DOMAIN u.set \cup K,
         K \cap DOMAIN w.set = {}, \A t \in Coded : v.new[t] = u.new[t]
  PROVE  Apart(v, w)
BY DEF Apart

\* and an insertion under a code no peer holds.
LEMMA ApartInsert ==
  ASSUME NEW u, NEW v, NEW w, Apart(u, w), NEW s, v.set = u.set, w.new[s] = <<>>,
         \A t \in Coded : t # s => v.new[t] = u.new[t]
  PROVE  Apart(v, w)
BY DEF Apart

-----------------------------------------------------------------------------
\* The kinds of statement.

\* Passing on, with something noted.
LEMMA PassProgress ==
  ASSUME NEW p, Context(p), NEW v, Becomes(p, v), After(unit[p], v), v.new = unit[p].new,
         v.set = unit[p].set, DOMAIN unit[p].set = {} \/ v.seen = unit[p].seen,
         \A t \in Keyed : ~Fills(Program[unit[p].calls.op][unit[p].pc], t),
         Noted(v, db), Backed(v, db)
  PROVE  Progress(p)
<1>1. Ready(unit[p], db, now) /\ Shaped(unit[p])
  BY ContextFacts
<1>2. Local(v, db, now)
  <2>1. Written(v)
    BY <1>1, WrittenPass
  <2> QED BY <1>1, <2>1, PassLocal
<1>3. Shaped(v) /\ Keeps(unit[p], v)
  BY <1>1 DEF After, Keeps, Shaped
<1>4. \A o \in Processes \ {p} : Apart(v, unit[o])
  BY ApartSame DEF Context
<1> QED BY <1>2, <1>3, <1>4 DEF Progress, Follows

\* Waiting for a code changes nothing that counts.
LEMMA WantProgress ==
  ASSUME NEW p, Context(p), NEW w, Becomes(p, [unit[p] EXCEPT !.want = w])
  PROVE  Progress(p)
<1>0. Shaped(unit[p]) /\ Local(unit[p], db, now)
  BY ContextFacts DEF Ready
<1>1. PICK u, v : u = unit[p] /\ v = [unit[p] EXCEPT !.want = w]
  OBVIOUS
<1>2. /\ Shaped(v) /\ v.pc = u.pc /\ v.calls = u.calls /\ v.run = u.run /\ v.at = u.at
      /\ v.seen = u.seen /\ v.due = u.due /\ v.new = u.new /\ v.set = u.set
  BY <1>0, <1>1, Fields DEF Shaped
<1>3. \A ops, k : Past(v, ops, k) <=> Past(u, ops, k)
  BY <1>2 DEF Past
<1>4. View(v, db) = View(u, db)
  BY <1>2 DEF View
<1>5. Fit(u, db, now) /\ Clean(u) /\ Written(u) /\ Noted(u, db) /\ Changed(u, db)
      /\ Guarded(u) /\ Stocked(View(u, db)) /\ Backed(u, db)
  BY <1>0, <1>1 DEF Local
<1>6. Fit(v, db, now) /\ Clean(v) /\ Written(v) /\ Guarded(v)
  BY <1>2, <1>5 DEF Fit, Clean, Written, Guarded
<1>7. Noted(v, db)
  BY <1>2, <1>3, <1>5 DEF Noted, Saw, SawOpen
<1>8. Changed(v, db)
  <2>1. \A a, b, i : EndsHold(u, a, b, i) => EndsHold(v, a, b, i)
    BY <1>2, EndsSame
  <2>2. \A a, b, t, i : Marks(u, a, b, t, i) => Marks(v, a, b, t, i)
    BY <1>2, MarksSame
  <2> QED BY <1>2, <1>3, <1>5, <2>1, <2>2 DEF Changed
<1>9. Stocked(View(v, db)) /\ Backed(v, db)
  BY <1>2, <1>3, <1>4, <1>5 DEF Backed
<1>10. Local(v, db, now)
  BY <1>6, <1>7, <1>8, <1>9 DEF Local
<1>11. \A o \in Processes \ {p} : Apart(v, unit[o])
  <2> SUFFICES ASSUME NEW o \in Processes \ {p} PROVE Apart(v, unit[o])
    OBVIOUS
  <2>1. Apart(u, unit[o])
    BY <1>1 DEF Context
  <2> QED BY <1>2, <2>1, ApartSame
<1>12. Keeps(unit[p], v) /\ Becomes(p, v)
  BY <1>0, <1>1, <1>2 DEF Keeps, Shaped
<1> QED BY <1>2, <1>10, <1>11, <1>12 DEF Progress, Follows

\* An insertion under a human code.
LEMMA InsertProgress ==
  ASSUME NEW p, Context(p), NEW t \in Coded, NEW row \in Row[t],
         InsertCoded(p, t, row, unit[p]),
         row.by = unit[p].calls.key, Fills(Program[unit[p].calls.op][unit[p].pc], t),
         \A v : Inserted(unit[p], v, t, row) => Noted(v, db) /\ Backed(v, db)
  PROVE  Progress(p)
<1>0. Shaped(unit[p]) /\ Ready(unit[p], db, now) /\ DOMAIN unit[p].new = Tables
  BY ContextFacts DEF Fit
<1>1. CASE ~CodeHeldByPeer(p, t) /\ Becomes(p, Then(Appended(unit[p], t, row)))
  <2>1. PICK u, w, v : u = unit[p] /\ w = Appended(u, t, row) /\ v = Then(w)
    OBVIOUS
  <2>2. t \in DOMAIN u.new
    BY SMTT(40), <1>0, <2>1 DEF Coded, Tables
  <2>3. /\ Shaped(w) /\ w.pc = u.pc /\ w.calls = u.calls /\ w.run = u.run /\ w.at = u.at
        /\ w.seen = u.seen /\ w.due = u.due /\ w.set = u.set /\ DOMAIN w.new = DOMAIN u.new
        /\ w.new[t] = Append(u.new[t], row)
        /\ \A s \in DOMAIN u.new : s # t => w.new[s] = u.new[s]
    BY SMTT(40), <1>0, <2>1, <2>2, AppendedFields
  <2>4. /\ Shaped(v) /\ v.pc = w.pc + 1 /\ v.calls = w.calls /\ v.run = w.run /\ v.at = w.at
        /\ v.seen = w.seen /\ v.due = w.due /\ v.new = w.new /\ v.set = w.set
    BY SMTT(40), <2>1, <2>3, ThenFields
  <2>5. Inserted(u, v, t, row)
    BY <2>3, <2>4 DEF Inserted, After
  <2>6. Local(v, db, now)
    <3>1. Ready(u, db, now) /\ row.by = u.calls.key /\ Fills(Program[u.calls.op][u.pc], t) /\ Noted(v, db) /\ Backed(v, db)
      BY <1>0, <2>1, <2>5
    <3> QED BY <2>5, <3>1, InsertLocal
  <2>7. ASSUME NEW o \in Processes \ {p} PROVE Apart(v, unit[o])
    <3>1. unit[o].new[t] = <<>>
      BY SMTT(40), <1>1 DEF CodeHeldByPeer
    <3>2. \A s \in Coded : s # t => v.new[s] = u.new[s]
      BY SMTT(40), <1>0, <2>1, <2>3, <2>4 DEF Coded, Tables
    <3>3. Apart(u, unit[o]) /\ v.set = u.set
      BY SMTT(40), <2>1, <2>3, <2>4 DEF Context
    <3> QED BY <3>1, <3>2, <3>3, ApartInsert
  <2>8. Keeps(unit[p], v) /\ Becomes(p, v)
    BY <1>0, <1>1, <2>1, <2>3, <2>4 DEF Keeps, Shaped
  <2> QED BY <2>4, <2>6, <2>7, <2>8 DEF Progress, Follows
<1>2. CASE Becomes(p, [unit[p] EXCEPT !.want = Len(db[t]) + 1])
  BY ZenonT(40), <1>2, WantProgress
<1>3. CASE Rerun(p)
  BY <1>3 DEF Progress
<1> QED BY <1>1, <1>2, <1>3 DEF InsertCoded

\* A compare-and-swap of a document's row.
LEMMA CasProgress ==
  ASSUME NEW p, Context(p), NEW t \in {"orders", "pays", "holds", "pos", "works"},
         NEW i \in 1..Len(db[t]), NEW row \in Row[t], NEW holds, NEW retryable,
         Cas(p, t, i, holds, row, retryable),
         \A s \in Keyed : ~Fills(Program[unit[p].calls.op][unit[p].pc], s),
         holds => \A v : Rewrites(unit[p], v, t, i, row) /\ After(unit[p], v) /\ v.due = unit[p].due =>
                    Updates(v, db, t, i, row) /\ Noted(v, db) /\ Backed(v, db)
  PROVE  Progress(p)
<1>0. /\ Shaped(unit[p]) /\ Ready(unit[p], db, now) /\ unit[p].pc \in Nat /\ unit[p].pc > 0
      /\ Written(unit[p])
  BY ContextFacts
<1>1. CASE holds
  <2>1. PICK u, w, v : u = unit[p] /\ w = Updated(u, t, i, row) /\ v = Then(w)
    OBVIOUS
  <2>2. /\ Shaped(w) /\ w.pc = u.pc /\ w.calls = u.calls /\ w.run = u.run /\ w.at = u.at
        /\ w.seen = u.seen /\ w.due = u.due /\ w.new = u.new
        /\ DOMAIN w.set = DOMAIN u.set \cup {<<t, i>>} /\ w.set[<<t, i>>] = row
        /\ \A k \in DOMAIN u.set : k # <<t, i>> => w.set[k] = u.set[k]
    BY <1>0, <2>1, UpdatedFields
  <2>3. /\ Shaped(v) /\ v.pc = w.pc + 1 /\ v.calls = w.calls /\ v.run = w.run /\ v.at = w.at
        /\ v.seen = w.seen /\ v.due = w.due /\ v.new = w.new /\ v.set = w.set
    BY SMTT(40), <2>1, <2>2, ThenFields
  <2>4. Rewrites(u, v, t, i, row) /\ After(u, v) /\ v.due = u.due /\ v.pc > 1
    BY <1>0, <2>1, <2>2, <2>3 DEF Rewrites, After
  <2>5. Updates(v, db, t, i, row) /\ Noted(v, db) /\ Backed(v, db)
    BY <1>1, <2>1, <2>4
  <2>6. Written(v)
    <3>1. Ready(u, db, now) /\ v.new = u.new /\ \A s \in Keyed : ~Fills(Program[u.calls.op][u.pc], s)
      BY <1>0, <2>1, <2>2, <2>3
    <3> QED BY SMTT(40), <2>4, <3>1, WrittenPass
  <2>7. Local(v, db, now)
    <3>1. Ready(u, db, now)
      BY <1>0, <2>1
    <3> QED BY <2>4, <2>5, <2>6, <3>1, RewriteLocal
  <2>8. ASSUME NEW o \in Processes \ {p} PROVE Apart(v, unit[o])
    <3>1. <<t, i>> \notin DOMAIN unit[o].set
      BY DEF Cas, LockedByPeer
    <3>2. Apart(u, unit[o])
      BY <2>1 DEF Context
    <3>3. v.new = u.new
      BY <2>2, <2>3
    <3>4. PICK K : K = {<<t, i>>}
      OBVIOUS
    <3>5. DOMAIN v.set \subseteq DOMAIN u.set \cup K
      BY <2>2, <2>3, <3>4
    <3>6. K \cap DOMAIN unit[o].set = {}
      BY <3>1, <3>4
    <3> QED BY ZenonT(40), <3>2, <3>3, <3>5, <3>6, ApartRewrite
  <2>9. Keeps(unit[p], v) /\ Becomes(p, v)
    BY <1>0, <1>1, <2>1, <2>2, <2>3 DEF Keeps, Shaped, Cas
  <2> QED BY <2>3, <2>7, <2>8, <2>9 DEF Progress, Follows
<1>2. CASE ~holds
  BY <1>2 DEF Cas, Progress
<1> QED BY <1>1, <1>2

-----------------------------------------------------------------------------
\* What is posted.

Item == {"A", "F"} \X Int \X Sites

\* Movements are rows of the ledger.
LEMMA MovementRows ==
  ASSUME NEW q, q.key \in STRING, NEW on \in Origins \X Nat, NEW list \in Seq(Item),
         NEW moves, moves = Movements(q, on, list)
  PROVE  /\ moves \in Seq(Row.ledger) /\ Len(moves) = Len(list)
         /\ \A i \in 1..Len(moves) : moves[i].by = q.key /\ moves[i].on = on
<1>1. PICK n \in Nat : n = Len(list)
  OBVIOUS
<1>2. ASSUME NEW i \in 1..n
      PROVE  [by |-> q.key, on |-> on, prod |-> list[i][1], qty |-> list[i][2], at |-> list[i][3]] \in Row.ledger
  <2>1. list[i] \in Item
    BY <1>1
  <2>2. list[i][1] \in {"A", "F"} /\ list[i][2] \in Int /\ list[i][3] \in Sites
    BY <2>1 DEF Item
  <2> QED BY <2>2 DEF Row
<1>3. PICK R : R = Row.ledger
  OBVIOUS
<1>4. moves = [i \in 1..n |-> [by |-> q.key, on |-> on, prod |-> list[i][1], qty |-> list[i][2], at |-> list[i][3]]]
  BY <1>1 DEF Movements
<1>5. moves \in [1..n -> R]
  BY <1>2, <1>3, <1>4
<1>6. moves \in Seq(R) /\ Len(moves) = n
  BY <1>5
<1>7. \A i \in 1..Len(moves) : moves[i].by = q.key /\ moves[i].on = on
  BY <1>4, <1>6
<1> QED BY <1>1, <1>3, <1>6, <1>7

\* w is u with the movements inserted and the fence at ver.
Ledgered(w, u, moves, ver) ==
  /\ Shaped(w) /\ w.pc = u.pc
  /\ w.calls = u.calls /\ w.run = u.run /\ w.at = u.at /\ w.seen = u.seen
  /\ w.due = u.due /\ DOMAIN w.new = DOMAIN u.new
  /\ w.new["ledger"] = u.new["ledger"] \o moves
  /\ \A s \in DOMAIN u.new : s # "ledger" => w.new[s] = u.new[s]
  /\ DOMAIN w.set = DOMAIN u.set \cup {<<"fence", 1>>}
  /\ w.set[<<"fence", 1>>] = [ver |-> ver]
  /\ \A k \in DOMAIN u.set : k # <<"fence", 1>> => w.set[k] = u.set[k]

\* What writing movements changes of a unit.
LEMMA LedgerFields ==
  ASSUME NEW p, Shaped(unit[p]), DOMAIN unit[p].new = Tables, NEW moves
  PROVE  Ledgered(Append2Ledger(p, moves), unit[p], moves, Fence(p).ver + Len(moves))
<1>0. PICK w : w = Append2Ledger(p, moves)
  OBVIOUS
<1>1. PICK u, f, row : u = unit[p] /\ row = [ver |-> Fence(p).ver + Len(moves)] /\ f = Updated(u, "fence", 1, row)
  OBVIOUS
<1>2. /\ Shaped(f) /\ f.pc = u.pc /\ f.want = u.want
      /\ f.calls = u.calls /\ f.run = u.run /\ f.at = u.at /\ f.seen = u.seen
      /\ f.due = u.due /\ f.new = u.new
      /\ DOMAIN f.set = DOMAIN u.set \cup {<<"fence", 1>>}
      /\ f.set[<<"fence", 1>>] = row
      /\ \A k \in DOMAIN u.set : k # <<"fence", 1>> => f.set[k] = u.set[k]
  BY <1>1, UpdatedFields
<1>3. w = [f EXCEPT !.new["ledger"] = @ \o moves]
  BY <1>0, <1>1 DEF Append2Ledger, Fenced
<1>4. "ledger" \in DOMAIN f.new
  BY <1>1, <1>2 DEF Tables
<1>5. /\ Shaped(w) /\ w.pc = f.pc
      /\ w.calls = f.calls /\ w.run = f.run /\ w.at = f.at /\ w.seen = f.seen
      /\ w.due = f.due /\ w.set = f.set /\ DOMAIN w.new = DOMAIN f.new
      /\ w.new["ledger"] = f.new["ledger"] \o moves
      /\ \A s \in DOMAIN f.new : s # "ledger" => w.new[s] = f.new[s]
  BY SMTT(40), <1>2, <1>3, <1>4, Fields DEF Shaped
<1>6. w.set[<<"fence", 1>>] = [ver |-> Fence(p).ver + Len(moves)]
  BY <1>1, <1>2, <1>5
<1>7. Ledgered(w, u, moves, Fence(p).ver + Len(moves))
  BY ONLY <1>2, <1>5, <1>6 DEF Ledgered
<1> QED BY <1>0, <1>1, <1>7

\* What v adds to the unit of p, p's fence being free, its peers have not.
LEMMA FenceApart ==
  ASSUME NEW p, Context(p), FenceFree(p), NEW v, NEW o \in Processes \ {p},
         DOMAIN v.set \subseteq DOMAIN unit[p].set \cup {<<"fence", 1>>},
         \A t \in Coded : v.new[t] = unit[p].new[t]
  PROVE  Apart(v, unit[o])
<1>1. <<"fence", 1>> \notin DOMAIN unit[o].set
  BY DEF FenceFree, LockedByPeer
<1>2. PICK K : K = {<<"fence", 1>>}
  OBVIOUS
<1>3. K \cap DOMAIN unit[o].set = {} /\ DOMAIN v.set \subseteq DOMAIN unit[p].set \cup K
  BY <1>1, <1>2
<1>4. PICK u : u = unit[p] /\ Apart(u, unit[o])
  BY DEF Context
<1>5. DOMAIN v.set \subseteq DOMAIN u.set \cup K /\ \A t \in Coded : v.new[t] = u.new[t]
  BY <1>3, <1>4
<1> QED BY <1>3, <1>4, <1>5, ApartRewrite

\* Movements of documents.
LEMMA MoveProgress ==
  ASSUME NEW p, Context(p), NEW on \in Origins \X Nat, on[1] # "counts", NEW list \in Seq(Item),
         Move(p, on, list), Fills(Program[unit[p].calls.op][unit[p].pc], "ledger"),
         Len(list) \in Rights(unit[p].calls)["ledger"],
         \A v : /\ After(unit[p], v) /\ v.seen = unit[p].seen /\ v.due = unit[p].due
                /\ v.new["pays"] = unit[p].new["pays"]
                => Noted(v, db) /\ Backed(v, db)
  PROVE  Progress(p)
<1>0. /\ Shaped(unit[p]) /\ Ready(unit[p], db, now) /\ DOMAIN unit[p].new = Tables
      /\ unit[p].calls.key \in STRING /\ Typed(db) /\ Fit(unit[p], db, now) /\ Written(unit[p])
  BY ContextFacts, ReadyFacts DEF Fit
<1>1. PICK u, moves, w, v : /\ u = unit[p] /\ moves = Movements(Call(p), on, list)
                            /\ w = Append2Ledger(p, moves) /\ v = Then(w)
  OBVIOUS
<1>2. /\ moves \in Seq(Row.ledger) /\ Len(moves) = Len(list)
      /\ \A i \in 1..Len(moves) : moves[i].by = u.calls.key /\ moves[i].on = on
  <2>1. moves = Movements(u.calls, on, list) /\ u.calls.key \in STRING
    BY <1>0, <1>1 DEF Call
  <2> QED BY <2>1, MovementRows
<1>3. Refuse(p) \/ (Covered(p, moves) /\ Becomes(p, v) /\ FenceFree(p))
  BY <1>1 DEF Move
<1>4. CASE Covered(p, moves) /\ Becomes(p, v) /\ FenceFree(p)
  <2>1. /\ Shaped(w) /\ w.pc = u.pc
        /\ w.calls = u.calls /\ w.run = u.run /\ w.at = u.at /\ w.seen = u.seen
        /\ w.due = u.due /\ DOMAIN w.new = DOMAIN u.new
        /\ w.new["ledger"] = u.new["ledger"] \o moves
        /\ \A s \in DOMAIN u.new : s # "ledger" => w.new[s] = u.new[s]
        /\ DOMAIN w.set = DOMAIN u.set \cup {<<"fence", 1>>}
        /\ w.set[<<"fence", 1>>] = [ver |-> Fence(p).ver + Len(moves)]
        /\ \A k \in DOMAIN u.set : k # <<"fence", 1>> => w.set[k] = u.set[k]
    <3>1. Ledgered(w, u, moves, Fence(p).ver + Len(moves))
      BY <1>0, <1>1, LedgerFields
    <3> QED BY <3>1 DEF Ledgered
  <2>2. /\ Shaped(v) /\ v.pc = w.pc + 1 /\ v.calls = w.calls /\ v.run = w.run /\ v.at = w.at
        /\ v.seen = w.seen /\ v.due = w.due /\ v.new = w.new /\ v.set = w.set
    <3>1. v = Then(w) /\ Shaped(w)
      BY SMTT(40), <1>1, <2>1
    <3> QED BY ONLY SMTT(40), <3>1, ThenFields
  <2>3. After(u, v) /\ v.seen = u.seen /\ v.due = u.due /\ DOMAIN u.set \subseteq DOMAIN v.set
    BY <2>1, <2>2 DEF After
  <2>4. Fence(p).ver = View(u, db).fence[1].ver
    <3>1. "fence" \in Tables
      BY DEF Tables
    <3>2. Rows(p, "fence") = View(u, db)["fence"]
      BY <1>1, <3>1, RowsView
    <3> QED BY <3>2 DEF Fence
  <2>5. Posted(u, v, moves, View(u, db).fence[1].ver + Len(moves))
    <3>1. PICK m : m = View(u, db).fence[1].ver + Len(moves) /\ m = Fence(p).ver + Len(moves)
      BY <2>4
    <3>2. /\ DOMAIN v.new = DOMAIN u.new /\ v.new.ledger = u.new.ledger \o moves
          /\ \A s \in DOMAIN u.new : s # "ledger" => v.new[s] = u.new[s]
      BY ONLY <2>1, <2>2
    <3>3. /\ <<"fence", 1>> \in DOMAIN v.set /\ v.set[<<"fence", 1>>] = [ver |-> m]
          /\ \A k \in DOMAIN v.set : k = <<"fence", 1>> \/ (k \in DOMAIN u.set /\ v.set[k] = u.set[k])
      BY ONLY <2>1, <2>2, <3>1
    <3>4. \A k \in DOMAIN u.set : k[1] \notin {"fence", "counts"} => k \in DOMAIN v.set /\ v.set[k] = u.set[k]
      BY ONLY <2>1, <2>2
    <3>5. Posted(u, v, moves, m)
      BY ONLY SMTT(40), <2>3, <3>2, <3>3, <3>4 DEF Posted
    <3> QED BY <3>1, <3>5
  <2>6. \A k \in DOMAIN v.set : k[1] = "counts" => k \in DOMAIN u.set /\ v.set[k] = u.set[k]
    BY <2>1, <2>2
  <2>7. Covering(View(u, db).ledger, moves)
    <3>1. "ledger" \in Tables
      BY DEF Tables
    <3>2. Rows(p, "ledger") = View(u, db)["ledger"]
      BY <1>1, <3>1, RowsView
    <3> QED BY <1>4, <3>2 DEF Covered, Covering
  <2>8. Noted(v, db) /\ Backed(v, db)
    <3>1. v.new["pays"] = u.new["pays"]
      <4>1. "pays" \in DOMAIN u.new
        BY SMTT(40), <1>0, <1>1 DEF Tables
      <4>2. w.new["pays"] = u.new["pays"]
        BY SMTT(40), <2>1, <4>1
      <4> QED BY <2>2, <4>2
    <3> QED BY <1>1, <2>3, <3>1
  <2>9. /\ Ready(u, db, now) /\ Fills(Program[u.calls.op][u.pc], "ledger")
        /\ Len(moves) \in Rights(u.calls)["ledger"]
        /\ \A i \in 1..Len(moves) : moves[i].by = u.calls.key /\ moves[i].on[1] # "counts"
    BY <1>0, <1>1, <1>2
  <2>10. Local(v, db, now)
    BY ONLY ZenonT(40), <1>2, <2>3, <2>5, <2>6, <2>7, <2>8, <2>9, PostLocal
  <2>11. \A o \in Processes \ {p} : Apart(v, unit[o])
    <3>1. \A t \in Coded : v.new[t] = unit[p].new[t]
      <4>1. \A t \in Coded : t \in DOMAIN u.new /\ t # "ledger"
        BY SMTT(40), <1>0, <1>1 DEF Coded, Tables
      <4>2. \A t \in Coded : w.new[t] = u.new[t]
        BY SMTT(40), <2>1, <4>1
      <4> QED BY <1>1, <2>2, <4>2
    <3>2. DOMAIN v.set \subseteq DOMAIN unit[p].set \cup {<<"fence", 1>>}
      BY SMTT(40), <1>1, <2>1, <2>2
    <3> QED BY ZenonT(40), <1>4, <3>1, <3>2, FenceApart
  <2>12. Keeps(unit[p], v)
    BY <1>0, <1>1, <2>2, <2>3 DEF Keeps, Shaped, After
  <2> QED BY SMTT(40), <1>4, <2>2, <2>10, <2>11, <2>12 DEF Progress, Follows
<1> QED BY <1>3, <1>4 DEF Progress

\* A committed row as a unit reads it.
RowOf(row, u, d, t, i) ==
  /\ row \in Row[t] /\ i \in 1..Len(View(u, d)[t]) /\ i \in Nat
  /\ t \in Keyed => row.by = d[t][i].by
  /\ <<t, i>> \notin DOMAIN u.set => row = d[t][i]

\* A row that is read is of its type.
LEMMA ViewRow ==
  ASSUME NEW u, NEW d, NEW n, Typed(d), Fit(u, d, n), Changed(u, d), NEW t \in Tables,
         NEW i \in 1..Len(d[t])
  PROVE  RowOf(View(u, d)[t][i], u, d, t, i)
<1> DEFINE row == View(u, d)[t][i]
<1>0. PICK r, R, l : r = View(u, d)[t] /\ R = Row[t] /\ l = Len(r)
  OBVIOUS
<1>1. r = View(u, d)[t] /\ Reads(r, u, d, t) /\ R = Row[t] /\ l = Len(r)
  BY <1>0, ViewRows
<1>2. r \in Seq(R) /\ i \in 1..l
  BY ZenonT(40), <1>1 DEF Reads
<1>3. row = IF <<t, i>> \in DOMAIN u.set THEN u.set[<<t, i>>] ELSE d[t][i]
  BY ZenonT(40), <1>1 DEF Reads
<1>4. row \in R
  BY <1>1, <1>2
<1>5. t \in Keyed => row.by = d[t][i].by
  <2>1. <<t, i>>[1] = t /\ <<t, i>>[2] = i
    OBVIOUS
  <2> QED BY <1>3, <2>1 DEF Changed
<1>6. i \in Nat
  BY <1>1 DEF Reads
<1> QED BY <1>1, <1>2, <1>3, <1>4, <1>5, <1>6 DEF RowOf

\* The statement a unit is at.
LEMMA AtPlace ==
  ASSUME NEW p, Context(p), NEW s, At(p, s)
  PROVE  /\ Program[unit[p].calls.op][unit[p].pc] = s
         /\ Place(unit[p].calls.op, unit[p].pc, s)
<1>1. Program[unit[p].calls.op][unit[p].pc] = s
  BY DEF At, Steps, Call
<1>2. Ready(unit[p], db, now)
  BY ContextFacts
<1>3. Place(unit[p].calls.op, unit[p].pc, Program[unit[p].calls.op][unit[p].pc])
  BY <1>2, ReadyFacts
<1> QED BY <1>1, <1>3

\* What a caller names and asks for.
LEMMA RequestFacts ==
  ASSUME NEW q \in Request
  PROVE  /\ q.key \in STRING /\ q.op \in DOMAIN Program /\ q.on \in Nat /\ q.qty \in Int /\ q.scrap \in Nat
         /\ q.op # "move" => q.qty \in Nat
BY DEF Request

\* The first statement of a command reads what is committed, and no unit has written by then.
LEMMA ContextFirst ==
  ASSUME NEW p, Context(p), unit[p].pc = 1
  PROVE  /\ DOMAIN unit[p].set = {} /\ unit[p].new = NoRows
         /\ \A t \in Tables : Rows(p, t) = db[t]
<1>1. Typed(db) /\ Fit(unit[p], db, now) /\ Clean(unit[p]) /\ unit[p].pc <= 1
  BY ContextFacts
<1>2. DOMAIN unit[p].set = {} /\ unit[p].new = NoRows /\ \A t \in Tables : View(unit[p], db)[t] = db[t]
  BY <1>1, FirstReads
<1> QED BY <1>2, RowsView

\* The commands that write no payment have none to back, but the verified refund's.
LEMMA NoPays ==
  ASSUME NEW u, NEW d, NEW n, Ready(u, d, n),
         u.calls.op \notin {"sale", "pay", "refund"} \/ (u.calls.op = "sale" /\ u.pc <= 3) \/ u.pc <= 2
  PROVE  u.new["pays"] = <<>>
<1>1. Written(u) /\ u.pc \in Nat /\ u.calls.op \in DOMAIN Program /\ "pays" \in Keyed /\ Fit(u, d, n)
  BY ReadyFacts DEF Keyed
<1>2. CASE u.pc > Slot(u.calls.op, "pays")
  <2>1. u.calls.op \notin {"sale", "pay", "refund"}
    BY <1>1, <1>2 DEF Slot
  <2>2. Rights(u.calls)["pays"] = {0}
    BY <1>1, <2>1 DEF Rights, Keyed
  <2>3. Len(u.new["pays"]) = 0
    BY <1>1, <1>2, <2>2 DEF Written
  <2>4. u.new["pays"] \in Seq(Row["pays"])
    BY <1>1 DEF Fit, Keyed, Tables
  <2> QED BY <2>3, <2>4
<1>3. CASE ~(u.pc > Slot(u.calls.op, "pays"))
  BY <1>1, <1>3 DEF Written
<1> QED BY <1>2, <1>3

\* A unit that has inserted no payment and verified none owes nothing to the totals.
LEMMA BackedNone ==
  ASSUME NEW v, NEW d, v.new["pays"] = <<>>, ~Past(v, {"verify"}, 2)
  PROVE  Backed(v, d)
BY DEF Backed

\* After a statement that notes nothing, what was noted is, and payments are backed.
LEMMA GoesAlong ==
  ASSUME NEW u, NEW v, NEW d, NEW n, Ready(u, d, n), After(u, v), v.seen = u.seen, v.due = u.due,
         v.new["pays"] = u.new["pays"], u.calls.op \notin {"pay", "refund", "verify"},
         u.calls.op = "sale" => u.pc <= 3,
         u.pc > 1 \/ u.calls.op \in {"move", "sale", "hold", "preview", "count"}
  PROVE  Noted(v, d) /\ Backed(v, d)
<1>1. Noted(u, d) /\ u.pc \in Nat /\ v.calls = u.calls
  BY ReadyFacts DEF Ready, Local, After
<1>2. Noted(v, d)
  <2>1. CASE u.pc > 1
    BY <1>1, <2>1, NotedStep
  <2>2. CASE u.calls.op \in {"move", "sale", "hold", "preview", "count"}
    BY <1>1, <2>2, NotedNone
  <2> QED BY <2>1, <2>2
<1>3. v.new["pays"] = <<>>
  BY NoPays
<1>4. ~Past(v, {"verify"}, 2)
  BY <1>1 DEF Past
<1> QED BY <1>2, <1>3, <1>4, BackedNone

-----------------------------------------------------------------------------
\* Inventory's statements.

\* A list of one item is a list.
LEMMA OneItem ==
  ASSUME NEW x \in Int
  PROVE  <<<<"A", x, "none">>>> \in Seq(Item) /\ Len(<<<<"A", x, "none">>>>) = 1
<1>1. PICK R, y : R = Item /\ y = <<"A", x, "none">>
  OBVIOUS
<1>2. y \in R
  <2>1. <<"A", x, "none">> \in {"A", "F"} \X Int \X Sites
    BY DEF Sites
  <2> QED BY <1>1, <2>1 DEF Item
<1>3. <<y>> \in Seq(R)
  BY ONLY <1>2, OneRow
<1> QED BY <1>1, <1>3

\* One movement of a document or of a caller's own.
LEMMA SingleProgress ==
  ASSUME NEW p, Context(p), NEW s \in {"move", "issueOrder", "issueSale", "stockReceipt"}, At(p, s),
         NEW on \in Origins \X Nat, on[1] # "counts", NEW x \in Int,
         unit[p].calls.op = "sale" => unit[p].calls.qty > 0,
         Move(p, on, <<<<"A", x, "none">>>>)
  PROVE  Progress(p)
<1>1. /\ Program[unit[p].calls.op][unit[p].pc] = s
      /\ Place(unit[p].calls.op, unit[p].pc, s)
  BY AtPlace
<1>2. \/ unit[p].calls.op = "move" \/ (unit[p].calls.op \in {"sale", "complete"} /\ unit[p].pc = 2)
      \/ (unit[p].calls.op = "receive" /\ unit[p].pc = 3)
  BY <1>1 DEF Place
<1>3. PICK list \in Seq(Item) : list = <<<<"A", x, "none">>>> /\ Len(list) = 1
  BY ZenonT(40), OneItem
<1>4. Move(p, on, list)
  BY <1>3
<1>5. Fills(Program[unit[p].calls.op][unit[p].pc], "ledger")
  BY <1>1 DEF Fills
<1>6. Len(list) \in Rights(unit[p].calls)["ledger"]
  BY <1>2, <1>3 DEF Rights, Keyed
<1>7. ASSUME NEW v, After(unit[p], v), v.seen = unit[p].seen, v.due = unit[p].due,
             v.new["pays"] = unit[p].new["pays"]
      PROVE  Noted(v, db) /\ Backed(v, db)
  <2>1. Ready(unit[p], db, now)
    BY ContextFacts
  <2>2. PICK u : u = unit[p]
    OBVIOUS
  <2>3. /\ u.calls.op \notin {"pay", "refund", "verify"} /\ (u.calls.op = "sale" => u.pc <= 3)
        /\ u.pc > 1 \/ u.calls.op \in {"move", "sale", "hold", "preview", "count"}
    BY <1>2, <2>2
  <2> QED BY <1>7, <2>1, <2>2, <2>3, GoesAlong
<1> QED BY ZenonT(40), <1>4, <1>5, <1>6, <1>7, MoveProgress

\* A statement of the ledger that finds nothing to move passes on with nothing written.
LEMMA UnmovedPasses ==
  ASSUME NEW p, Context(p), NEW s \in {"issueOrder", "issueSale", "settleCount"}, At(p, s),
         Becomes(p, Then(unit[p])), 0 \in Rights(unit[p].calls)["ledger"]
  PROVE  Progress(p)
<1>0. Shaped(unit[p]) /\ Ready(unit[p], db, now)
  BY ContextFacts
<1>1. /\ Program[unit[p].calls.op][unit[p].pc] = s
      /\ \/ unit[p].calls.op \in {"sale", "complete"} /\ unit[p].pc = 2
         \/ unit[p].calls.op = "count" /\ unit[p].pc = 1
  BY AtPlace DEF Place
<1>2. PICK u, v : u = unit[p] /\ v = Then(u)
  OBVIOUS
<1>3. /\ Shaped(v) /\ v.pc = u.pc + 1 /\ v.calls = u.calls /\ v.run = u.run /\ v.at = u.at
      /\ v.seen = u.seen /\ v.due = u.due /\ v.new = u.new /\ v.set = u.set
  <2>1. v = Then(u) /\ Shaped(u)
    BY <1>0, <1>2
  <2> QED BY ONLY <2>1, ThenFields
<1>4. After(u, v)
  BY <1>3 DEF After
<1>5. Ready(u, db, now)
  BY <1>0, <1>2
<1>6. Written(v)
  <2>1. /\ Written(u) /\ u.calls.op \in DOMAIN Program /\ u.pc \in 1..Len(Program[u.calls.op])
    BY <1>5, ReadyFacts DEF Ready
  <2>2. ASSUME NEW t \in Keyed, Fills(Program[u.calls.op][u.pc], t)
        PROVE  Len(v.new[t]) \in Rights(u.calls)[t]
    <3>1. t = "ledger"
      BY <1>1, <1>2, <2>2 DEF Fills
    <3>2. u.pc = Slot(u.calls.op, t)
      BY <2>1, <2>2, Slots
    <3>3. v.new[t] = <<>>
      BY <1>3, <2>1, <3>2 DEF Written
    <3>4. Len(v.new[t]) = 0
      BY <3>3
    <3> QED BY <1>2, <3>1, <3>4
  <2>3. Inserts(u, v)
    BY <1>3, <2>1, <2>2 DEF Inserts, Written
  <2>4. /\ v.new.fence = <<>> /\ v.new.pos = <<>> /\ v.new.works = <<>>
        /\ v.new.counts # <<>> => u.calls.op = "preview"
    BY <1>3, <2>1 DEF Written
  <2> QED BY <1>4, <1>5, <2>3, <2>4, WrittenStep
<1>7. Noted(v, db) /\ Backed(v, db)
  <2>1. /\ u.calls.op \notin {"pay", "refund", "verify"} /\ (u.calls.op = "sale" => u.pc <= 3)
        /\ u.pc > 1 \/ u.calls.op \in {"move", "sale", "hold", "preview", "count"}
    BY <1>1, <1>2
  <2> QED BY <1>3, <1>4, <1>5, <2>1, GoesAlong
<1>8. Local(v, db, now)
  BY <1>3, <1>4, <1>5, <1>6, <1>7, PassLocal
<1>9. \A o \in Processes \ {p} : Apart(v, unit[o])
  BY <1>2, <1>3, ApartSame DEF Context
<1>10. Keeps(unit[p], v) /\ Becomes(p, v)
  BY <1>0, <1>2, <1>3 DEF Keeps, Shaped
<1> QED BY <1>3, <1>8, <1>9, <1>10 DEF Progress, Follows

\* A movement is posted under the fence, or refused.
LEMMA MoveStatement ==
  ASSUME NEW p, Context(p), At(p, "move"), Move(p, <<"move", 0>>, <<<<"A", Call(p).qty, "none">>>>)
  PROVE  Progress(p)
<1>1. Call(p).qty \in Int
  BY ContextFacts, RequestFacts DEF Call
<1>2. PICK on \in Origins \X Nat : on = <<"move", 0>> /\ on[1] # "counts"
  <2>1. <<"move", 0>> \in Origins \X Nat /\ <<"move", 0>>[1] # "counts"
    BY DEF Origins
  <2> QED BY <2>1
<1>3. Move(p, on, <<<<"A", Call(p).qty, "none">>>>)
  BY <1>2
<1>4. unit[p].calls.op = "move"
  BY AtPlace DEF Place
<1> QED BY <1>1, <1>2, <1>3, <1>4, SingleProgress

\* The fence of a unit, as it reads it.
LEMMA FenceView ==
  ASSUME NEW p, Context(p)
  PROVE  Fence(p).ver = View(unit[p], db).fence[1].ver /\ Fence(p).ver \in Nat
<1>1. "fence" \in Tables
  BY DEF Tables
<1>2. Rows(p, "fence") = View(unit[p], db)["fence"]
  BY <1>1, RowsView
<1>3. View(unit[p], db).fence[1].ver \in Nat
  BY ContextFacts, FenceRow
<1> QED BY <1>2, <1>3 DEF Fence

\* What a hold has seen is nothing its unit answers for.
LEMMA HoldSees ==
  ASSUME NEW u, NEW v, NEW d, NEW n, Local(u, d, n), u.calls.op = "hold",
         v.pc = u.pc, v.calls = u.calls, v.run = u.run, v.at = u.at, v.due = u.due,
         v.new = u.new, v.set = u.set
  PROVE  Local(v, d, n)
<1>1. Fit(v, d, n) /\ Clean(v) /\ Written(v) /\ Guarded(v)
  BY DEF Local, Fit, Clean, Written, Guarded
<1>2. View(v, d) = View(u, d)
  BY DEF View
<1>3. Noted(v, d)
  BY NotedNone
<1>4. Changed(v, d)
  BY DEF Local, Changed, Past, EndsHold, Marks
<1>5. Backed(v, d)
  BY <1>2 DEF Local, Backed, Past
<1> QED BY <1>1, <1>2, <1>3, <1>4, <1>5 DEF Local

\* What asking changes: the fence is kept, and the holds read are noted.
LEMMA AskFields ==
  ASSUME NEW p, Context(p), NEW holds, NEW v,
         v = Then([Fenced(p, unit[p], 0) EXCEPT !.seen = holds])
  PROVE  \E w : /\ After(unit[p], w) /\ w.due = unit[p].due
                /\ Rewrites(unit[p], w, "fence", 1, [ver |-> View(unit[p], db).fence[1].ver])
                /\ Shaped(v) /\ v.pc = w.pc /\ v.calls = w.calls /\ v.run = w.run /\ v.at = w.at
                /\ v.due = w.due /\ v.new = w.new /\ v.set = w.set /\ v.seen = holds
<1>0. Shaped(unit[p])
  BY ContextFacts
<1>1. PICK u, f : u = unit[p] /\ f = Fenced(p, u, 0)
  OBVIOUS
<1>2. PICK row : row = [ver |-> Fence(p).ver + 0] /\ f = Updated(u, "fence", 1, row)
  BY <1>1 DEF Fenced
<1>3. row = [ver |-> View(u, db).fence[1].ver]
  <2>1. Fence(p).ver + 0 = View(u, db).fence[1].ver
    BY <1>1, FenceView
  <2> QED BY <1>2, <2>1
<1>4. /\ Shaped(f) /\ f.pc = u.pc /\ f.calls = u.calls /\ f.run = u.run /\ f.at = u.at
      /\ f.seen = u.seen /\ f.due = u.due /\ f.new = u.new
      /\ DOMAIN f.set = DOMAIN u.set \cup {<<"fence", 1>>} /\ f.set[<<"fence", 1>>] = row
      /\ \A k \in DOMAIN u.set : k # <<"fence", 1>> => f.set[k] = u.set[k]
  BY <1>0, <1>1, <1>2, UpdatedFields
<1>5. PICK w : w = Then(f)
  OBVIOUS
<1>6. /\ Shaped(w) /\ w.pc = f.pc + 1 /\ w.calls = f.calls /\ w.run = f.run /\ w.at = f.at
      /\ w.seen = f.seen /\ w.due = f.due /\ w.new = f.new /\ w.set = f.set
  BY <1>4, <1>5, ThenFields
<1>7. PICK g : g = [f EXCEPT !.seen = holds]
  OBVIOUS
<1>8. /\ Shaped(g) /\ g.pc = f.pc /\ g.calls = f.calls /\ g.run = f.run /\ g.at = f.at
      /\ g.seen = holds /\ g.due = f.due /\ g.new = f.new /\ g.set = f.set
  BY <1>4, <1>7, Fields DEF Shaped
<1>9. /\ Shaped(v) /\ v.pc = g.pc + 1 /\ v.calls = g.calls /\ v.run = g.run /\ v.at = g.at
      /\ v.seen = g.seen /\ v.due = g.due /\ v.new = g.new /\ v.set = g.set
  <2>1. v = Then(g) /\ Shaped(g)
    BY <1>1, <1>7, <1>8
  <2> QED BY ONLY <2>1, ThenFields
<1>10. After(u, w) /\ Rewrites(u, w, "fence", 1, [ver |-> View(u, db).fence[1].ver])
  BY <1>3, <1>4, <1>6 DEF After, Rewrites
<1> QED BY <1>1, <1>4, <1>6, <1>8, <1>9, <1>10

\* A hold asks for the promise under the fence.
LEMMA AskStatement ==
  ASSUME NEW p, Context(p), At(p, "askPromise"), AskPromise(p)
  PROVE  Progress(p)
<1>0. /\ Shaped(unit[p]) /\ Ready(unit[p], db, now)
  BY ContextFacts
<1>1. /\ Program[unit[p].calls.op][unit[p].pc] = "askPromise"
      /\ unit[p].calls.op = "hold" /\ unit[p].pc = 1
  BY AtPlace DEF Place
<1>2. PICK u, v : u = unit[p] /\ v = Then([Fenced(p, unit[p], 0) EXCEPT !.seen = Rows(p, "holds")])
  OBVIOUS
<1>3. CASE Becomes(p, v) /\ FenceFree(p)
  <2>1. PICK w : /\ After(u, w) /\ w.due = u.due
                 /\ Rewrites(u, w, "fence", 1, [ver |-> View(u, db).fence[1].ver])
                 /\ Shaped(v) /\ v.pc = w.pc /\ v.calls = w.calls /\ v.run = w.run /\ v.at = w.at
                 /\ v.due = w.due /\ v.new = w.new /\ v.set = w.set /\ v.seen = Rows(p, "holds")
    BY SMTT(40), <1>2, AskFields
  <2>2. /\ w.pc = u.pc + 1 /\ w.calls = u.calls /\ w.run = u.run /\ w.at = u.at
        /\ w.seen = u.seen /\ w.new = u.new /\ DOMAIN w.set = DOMAIN u.set \cup {<<"fence", 1>>}
    BY <2>1 DEF After, Rewrites
  <2>6. \A t \in Keyed : ~Fills(Program[u.calls.op][u.pc], t)
    BY <1>1, <1>2 DEF Fills
  <2>7. Noted(w, db) /\ Backed(w, db)
    <3>1. /\ u.calls.op \notin {"pay", "refund", "verify"} /\ (u.calls.op = "sale" => u.pc <= 3)
          /\ u.pc > 1 \/ u.calls.op \in {"move", "sale", "hold", "preview", "count"}
      BY <1>1, <1>2
    <3>2. w.new["pays"] = u.new["pays"] /\ w.seen = u.seen /\ w.due = u.due /\ Ready(u, db, now)
      BY <1>0, <1>2, <2>1, <2>2
    <3> QED BY <2>1, <3>1, <3>2, GoesAlong
  <2>8. Local(w, db, now)
    <3>1. Ready(u, db, now)
      BY <1>0, <1>2
    <3> QED BY <2>1, <2>6, <2>7, <3>1, TouchLocal
  <2>9. Local(v, db, now)
    <3>1. w.calls.op = "hold"
      BY <1>1, <1>2, <2>2
    <3> QED BY ONLY <2>1, <2>8, <3>1, HoldSees
  <2>10. \A o \in Processes \ {p} : Apart(v, unit[o])
    <3>1. \A t \in Coded : v.new[t] = unit[p].new[t]
      BY <1>2, <2>1, <2>2
    <3>2. DOMAIN v.set \subseteq DOMAIN unit[p].set \cup {<<"fence", 1>>}
      BY <1>2, <2>1, <2>2
    <3> QED BY <1>3, <3>1, <3>2, FenceApart
  <2>11. Keeps(unit[p], v)
    BY <1>0, <1>2, <2>1, <2>2 DEF Keeps, Shaped
  <2> QED BY <1>3, <2>1, <2>9, <2>10, <2>11 DEF Progress, Follows
<1>4. Refuse(p) \/ (Becomes(p, v) /\ FenceFree(p))
  BY SMTT(40), <1>2 DEF AskPromise
<1> QED BY <1>3, <1>4 DEF Progress

\* A hold is placed under its code.
LEMMA PlaceStatement ==
  ASSUME NEW p, Context(p), At(p, "placeHold"), PlaceHold(p)
  PROVE  Progress(p)
<1>0. /\ Ready(unit[p], db, now) /\ unit[p].calls \in Request /\ unit[p].at \in Nat
  BY ContextFacts DEF Fit
<1>1. /\ Program[unit[p].calls.op][unit[p].pc] = "placeHold"
      /\ unit[p].calls.op = "hold" /\ unit[p].pc = 2
  BY AtPlace DEF Place
<1>2. PICK row : row = Hold(Call(p), "QUOTE", Call(p).qty, unit[p].at + 1, 0)
  OBVIOUS
<1>3. row \in Row["holds"] /\ row.by = unit[p].calls.key
  <2>1. unit[p].calls.qty \in Nat /\ unit[p].calls.key \in STRING /\ unit[p].at + 1 \in Nat
    BY <1>0, <1>1, RequestFacts
  <2> QED BY <1>2, <2>1 DEF Hold, Row, Call, Never
<1>4. InsertCoded(p, "holds", row, unit[p])
  BY <1>2 DEF PlaceHold
<1>5. Fills(Program[unit[p].calls.op][unit[p].pc], "holds") /\ "holds" \in Coded
  BY <1>1 DEF Fills, Coded
<1>6. ASSUME NEW v, Inserted(unit[p], v, "holds", row) PROVE Noted(v, db) /\ Backed(v, db)
  <2>1. After(unit[p], v) /\ v.seen = unit[p].seen /\ v.due = unit[p].due
    BY <1>6 DEF Inserted
  <2>2. v.new["pays"] = unit[p].new["pays"]
    <3>1. "pays" \in DOMAIN unit[p].new
      BY ContextFacts DEF Fit, Tables
    <3> QED BY <1>6, <3>1 DEF Inserted
  <2> QED BY <1>0, <1>1, <2>1, <2>2, GoesAlong
<1> QED BY <1>3, <1>4, <1>5, <1>6, InsertProgress

\* What ending a hold changes of it,
LEMMA EndFields ==
  ASSUME NEW u, NEW a \in Row.holds, NEW b, NEW i, EndsHold(u, a, b, i)
  PROVE  /\ b.status = Ended(u.calls.op) /\ b.status # "ACTIVE" /\ b.ver = a.ver + 1
         /\ b.by = a.by /\ b.purpose = a.purpose /\ b.qty = a.qty /\ b.exp = a.exp /\ b.from = a.from
<1>1. DOMAIN a = {"by", "purpose", "qty", "status", "ver", "exp", "from"}
  BY DEF Row
<1>2. b = [a EXCEPT !.status = Ended(u.calls.op), !.ver = @ + 1]
  BY DEF EndsHold
<1>3. Ended(u.calls.op) # "ACTIVE"
  BY DEF Ended
<1> QED BY <1>1, <1>2, <1>3

\* and a hold its unit reads as live is as it is committed.
LEMMA StillActive ==
  ASSUME NEW u, NEW d, NEW n, Typed(d), Fit(u, d, n), Changed(u, d), NEW i \in 1..Len(d["holds"]),
         NEW h, h = View(u, d)["holds"][i], h.status = "ACTIVE"
  PROVE  h = d["holds"][i]
<1>0. "holds" \in Tables /\ d["holds"] \in Seq(Row.holds)
  BY DEF Tables, Typed
<1>1. Reads(View(u, d)["holds"], u, d, "holds")
  BY <1>0, ViewRows
<1>2. h = IF <<"holds", i>> \in DOMAIN u.set THEN u.set[<<"holds", i>>] ELSE d["holds"][i]
  BY ZenonT(40), <1>1 DEF Reads
<1>3. CASE <<"holds", i>> \in DOMAIN u.set
  <2>0. PICK k : k = <<"holds", i>>
    OBVIOUS
  <2>1. k = <<"holds", i>> /\ k[1] = "holds" /\ k[2] = i
    BY <2>0
  <2>2. EndsHold(u, d.holds[i], u.set[k], i)
    BY <1>3, <2>1 DEF Changed
  <2>3. d.holds[i] \in Row.holds
    BY <1>0
  <2>4. u.set[k].status # "ACTIVE"
    BY <2>2, <2>3, EndFields
  <2> QED BY <1>2, <1>3, <2>1, <2>4
<1> QED BY <1>2, <1>3

\* A reading of the hold that is to end.
LEMMA ReadHoldStatement ==
  ASSUME NEW p, Context(p), At(p, "readHold"), ReadHold(p)
  PROVE  Progress(p)
<1>0. /\ Shaped(unit[p]) /\ Ready(unit[p], db, now) /\ Typed(db)
  BY ContextFacts
<1>1. /\ Program[unit[p].calls.op][unit[p].pc] = "readHold"
      /\ unit[p].calls.op \in {"release", "convert"} /\ unit[p].pc = 1
  BY AtPlace DEF Place
<1>2. DOMAIN unit[p].set = {} /\ Rows(p, "holds") = db["holds"] /\ unit[p].new = NoRows
  <2>1. "holds" \in Tables
    BY DEF Tables
  <2> QED BY <1>1, <2>1, ContextFirst
<1>3. PICK u, h, w, v : u = unit[p] /\ h = Rows(p, "holds")[u.calls.on] /\ w = [u EXCEPT !.seen = h] /\ v = Then(w)
  OBVIOUS
<1>4. CASE Exists(p, "holds", u.calls.on) /\ Becomes(p, v)
  <2>1. u.calls.on \in 1..Len(db.holds) /\ h \in Row.holds
    <3>1. db.holds \in Seq(Row.holds)
      BY <1>0 DEF Typed, Tables
    <3> QED BY <1>2, <1>3, <1>4, <3>1 DEF Exists
  <2>2. /\ Shaped(w) /\ w.pc = u.pc /\ w.calls = u.calls /\ w.run = u.run /\ w.at = u.at
        /\ w.seen = h /\ w.due = u.due /\ w.new = u.new /\ w.set = u.set
    BY <1>0, <1>3, Fields DEF Shaped
  <2>3. /\ Shaped(v) /\ v.pc = w.pc + 1 /\ v.calls = w.calls /\ v.run = w.run /\ v.at = w.at
        /\ v.seen = w.seen /\ v.due = w.due /\ v.new = w.new /\ v.set = w.set
    <3>1. v = Then(w) /\ Shaped(w)
      BY <1>3, <2>2
    <3> QED BY ONLY <3>1, ThenFields
  <2>4. After(u, v) /\ v.new = u.new /\ v.set = u.set /\ v.seen = h
    BY SMTT(40), <2>2, <2>3 DEF After
  <2>5. \A t \in Keyed : ~Fills(Program[u.calls.op][u.pc], t)
    BY SMTT(40), <1>1, <1>3 DEF Fills
  <2>6. Noted(v, db)
    <3>1. v.calls.op \in {"release", "convert"}
      BY <1>1, <1>3, <2>4 DEF After
    <3>2. Saw(v, db.holds) /\ v.seen \in Row.holds
      <4>1. v.seen = db.holds[v.calls.on] /\ v.calls.on \in 1..Len(db.holds) /\ v.seen \in Row.holds
        BY <1>2, <1>3, <2>1, <2>4 DEF After
      <4>2. v.seen.ver \in Nat
        BY <4>1 DEF Row
      <4> QED BY <4>1, <4>2 DEF Saw
    <3> QED BY ONLY ZenonT(40), <3>1, <3>2 DEF Noted, Past
  <2>7. Backed(v, db)
    <3>1. v.new["pays"] = <<>>
      BY <1>2, <1>3, <2>4 DEF NoRows, Tables
    <3>2. ~Past(v, {"verify"}, 2)
      BY <1>1, <1>3, <2>2, <2>3 DEF Past
    <3> QED BY <3>1, <3>2, BackedNone
  <2> QED BY <1>2, <1>3, <1>4, <2>4, <2>5, <2>6, <2>7, PassProgress
<1>5. Refuse(p) \/ (Exists(p, "holds", u.calls.on) /\ Becomes(p, v))
  BY SMTT(40), <1>3 DEF ReadHold, Call
<1> QED BY <1>4, <1>5 DEF Progress

\* The end of a hold.
LEMMA EndHoldStatement ==
  ASSUME NEW p, Context(p), NEW s \in {"releaseHold", "convertHold"}, At(p, s),
         NEW status, status = (IF s = "releaseHold" THEN "RELEASED" ELSE "CONVERTED"), EndHold(p, status)
  PROVE  Progress(p)
<1>0. /\ Ready(unit[p], db, now) /\ Typed(db) /\ Fit(unit[p], db, now) /\ Changed(unit[p], db)
      /\ Noted(unit[p], db) /\ now \in Nat
  BY ContextFacts
<1>1. /\ Program[unit[p].calls.op][unit[p].pc] = s
      /\ unit[p].calls.op \in {"release", "convert"} /\ unit[p].pc > 1 /\ unit[p].pc \in Nat
  BY AtPlace DEF Place
<1>2. unit[p].calls.on \in 1..Len(db.holds) /\ Saw(unit[p], db.holds) /\ unit[p].seen \in Row.holds
  BY SMTT(40), <1>0, <1>1 DEF Noted, Past, Saw
<1>3. PICK i, h, row : i = unit[p].calls.on /\ h = Rows(p, "holds")[i]
                       /\ row = [h EXCEPT !.status = status, !.ver = @ + 1]
  OBVIOUS
<1>10. h = View(unit[p], db)["holds"][i]
  <2>1. "holds" \in Tables
    BY DEF Tables
  <2> QED BY <1>3, <2>1, RowsView
<1>11. HoldIsAsRead(p) => EndsHold(unit[p], db.holds[i], row, i)
  <2> SUFFICES ASSUME HoldIsAsRead(p) PROVE EndsHold(unit[p], db.holds[i], row, i)
    OBVIOUS
  <2>1. h.ver = unit[p].seen.ver /\ h.status = "ACTIVE"
    BY <1>3 DEF HoldIsAsRead, Call
  <2>2. h = db["holds"][i]
    BY <1>0, <1>2, <1>3, <1>10, <2>1, StillActive
  <2>3. h = unit[p].seen
    BY <1>2, <1>3, <2>1, <2>2 DEF Saw
  <2>4. status = Ended(unit[p].calls.op)
    BY <1>1, AtPlace DEF Place, Ended
  <2> QED BY <1>1, <1>3, <2>1, <2>2, <2>3, <2>4 DEF EndsHold
<1>4. h \in Row["holds"] /\ h.by = db["holds"][i].by
  <2>1. "holds" \in Tables /\ "holds" \in Keyed
    BY DEF Tables, Keyed
  <2>2. h = View(unit[p], db)["holds"][i] /\ i \in 1..Len(db["holds"])
    BY <1>2, <1>3, <2>1, RowsView
  <2>3. RowOf(View(unit[p], db)["holds"][i], unit[p], db, "holds", i)
    BY ONLY SMTT(40), <1>0, <2>1, <2>2, ViewRow
  <2> QED BY <2>1, <2>2, <2>3 DEF RowOf
<1>5. row \in Row["holds"] /\ row.by = h.by
  <2>1. h \in Row.holds
    BY <1>4
  <2>2. h.ver + 1 \in Nat
    BY <2>1 DEF Row
  <2> QED BY ZenonT(40), <1>3, <2>1, <2>2 DEF Row
<1>6. Cas(p, "holds", i, HoldIsAsRead(p), row, FALSE)
  BY ZenonT(40), <1>3 DEF EndHold, Call
<1>7. \A t \in Keyed : ~Fills(Program[unit[p].calls.op][unit[p].pc], t)
  BY <1>1 DEF Fills
<1>8. ASSUME HoldIsAsRead(p), NEW v, Rewrites(unit[p], v, "holds", i, row), After(unit[p], v), v.due = unit[p].due
      PROVE  Updates(v, db, "holds", i, row) /\ Noted(v, db) /\ Backed(v, db)
  <2>1. Updates(v, db, "holds", i, row)
    <3>1. EndsHold(v, db.holds[i], row, i)
      BY <1>8, <1>11, EndsSame DEF Rewrites
    <3> QED BY <1>4, <1>5, <3>1 DEF Updates
  <2>2. v.new["pays"] = unit[p].new["pays"] /\ v.seen = unit[p].seen
    BY <1>8 DEF Rewrites
  <2> QED BY <1>0, <1>1, <1>8, <2>1, <2>2, GoesAlong
<1>9. i \in 1..Len(db["holds"])
  BY <1>2, <1>3
<1> QED BY ZenonT(40), <1>5, <1>6, <1>7, <1>8, <1>9, CasProgress

\* The committed hold that a quote becomes.
LEMMA PlaceCommittedStatement ==
  ASSUME NEW p, Context(p), At(p, "placeCommitted"), PlaceCommitted(p)
  PROVE  Progress(p)
<1>0. /\ Ready(unit[p], db, now) /\ unit[p].calls \in Request /\ Noted(unit[p], db)
  BY ContextFacts
<1>1. /\ Program[unit[p].calls.op][unit[p].pc] = "placeCommitted"
      /\ unit[p].calls.op = "convert" /\ unit[p].pc = 2
  BY AtPlace DEF Place
<1>2. PICK row : row = Hold(Call(p), "ORDER", unit[p].seen.qty, Never, Call(p).on)
  OBVIOUS
<1>3. row \in Row["holds"] /\ row.by = unit[p].calls.key
  <2>1. unit[p].seen \in Row.holds
    BY <1>0, <1>1 DEF Noted, Past
  <2>2. unit[p].seen.qty \in Nat
    BY <2>1 DEF Row
  <2>3. unit[p].calls.on \in Nat /\ unit[p].calls.key \in STRING
    BY <1>0, RequestFacts
  <2> QED BY <1>2, <2>2, <2>3 DEF Hold, Row, Call, Never
<1>4. InsertCoded(p, "holds", row, unit[p])
  BY <1>2 DEF PlaceCommitted
<1>5. Fills(Program[unit[p].calls.op][unit[p].pc], "holds") /\ "holds" \in Coded
  BY <1>1 DEF Fills, Coded
<1>6. ASSUME NEW v, Inserted(unit[p], v, "holds", row) PROVE Noted(v, db) /\ Backed(v, db)
  <2>1. After(unit[p], v) /\ v.seen = unit[p].seen /\ v.due = unit[p].due
    BY <1>6 DEF Inserted
  <2>2. v.new["pays"] = unit[p].new["pays"]
    <3>1. "pays" \in DOMAIN unit[p].new
      BY SMTT(40), ContextFacts DEF Fit, Tables
    <3> QED BY <1>6, <3>1 DEF Inserted
  <2> QED BY <1>0, <1>1, <2>1, <2>2, GoesAlong
<1> QED BY <1>3, <1>4, <1>5, <1>6, InsertProgress

\* The sweep reads which holds are due.
LEMMA ReadDueStatement ==
  ASSUME NEW p, Context(p), At(p, "readDue"), ReadDue(p)
  PROVE  Progress(p)
<1>0. /\ Shaped(unit[p]) /\ Ready(unit[p], db, now)
  BY ContextFacts
<1>1. /\ Program[unit[p].calls.op][unit[p].pc] = "readDue"
      /\ unit[p].calls.op = "expire" /\ unit[p].pc = 1
  BY AtPlace DEF Place
<1>2. DOMAIN unit[p].set = {} /\ Rows(p, "holds") = db["holds"] /\ unit[p].new = NoRows
  <2>1. "holds" \in Tables
    BY DEF Tables
  <2> QED BY <1>1, <2>1, ContextFirst
<1>3. PICK u, due, w, v :
        /\ u = unit[p] /\ w = [u EXCEPT !.due = due] /\ v = Then(w)
        /\ due = {i \in 1..Len(Rows(p, "holds")) :
                    Rows(p, "holds")[i].status = "ACTIVE" /\ Rows(p, "holds")[i].exp <= unit[p].at}
  OBVIOUS
<1>4. Becomes(p, v) /\ due \subseteq 1..Len(db.holds)
  BY <1>2, <1>3 DEF ReadDue
<1>5. /\ Shaped(w) /\ w.pc = u.pc /\ w.calls = u.calls /\ w.run = u.run /\ w.at = u.at
      /\ w.seen = u.seen /\ w.due = due /\ w.new = u.new /\ w.set = u.set
  BY <1>0, <1>3, Fields DEF Shaped
<1>6. /\ Shaped(v) /\ v.pc = w.pc + 1 /\ v.calls = w.calls /\ v.run = w.run /\ v.at = w.at
      /\ v.seen = w.seen /\ v.due = w.due /\ v.new = w.new /\ v.set = w.set
  <2>1. v = Then(w) /\ Shaped(w)
    BY <1>3, <1>5
  <2> QED BY ONLY <2>1, ThenFields
<1>7. After(u, v) /\ v.new = u.new /\ v.set = u.set /\ v.seen = u.seen
  BY SMTT(40), <1>5, <1>6 DEF After
<1>8. \A t \in Keyed : ~Fills(Program[u.calls.op][u.pc], t)
  BY SMTT(40), <1>1, <1>3 DEF Fills
<1>9. Noted(v, db)
  BY ZenonT(40), <1>1, <1>3, <1>4, <1>5, <1>6 DEF Noted, Past
<1>10. Backed(v, db)
  <2>1. v.new["pays"] = <<>>
    BY <1>2, <1>3, <1>7 DEF NoRows, Tables
  <2>2. ~Past(v, {"verify"}, 2)
    BY <1>1, <1>3, <1>5, <1>6 DEF Past
  <2> QED BY <2>1, <2>2, BackedNone
<1> QED BY <1>3, <1>4, <1>7, <1>8, <1>9, <1>10, PassProgress

\* v is the unit u after it has read the row.
Seen(v, u, row) ==
  /\ Shaped(v) /\ After(u, v) /\ v.pc = u.pc + 1 /\ v.calls = u.calls
  /\ v.new = u.new /\ v.set = u.set /\ v.seen = row /\ v.due = u.due

\* What noting a row changes of a unit.
LEMMA SeenFields ==
  ASSUME NEW u, Shaped(u), NEW row
  PROVE  Seen(Then([u EXCEPT !.seen = row]), u, row)
<1>1. PICK w, v : w = [u EXCEPT !.seen = row] /\ v = Then(w)
  OBVIOUS
<1>2. /\ Shaped(w) /\ w.pc = u.pc /\ w.calls = u.calls /\ w.run = u.run /\ w.at = u.at
      /\ w.seen = row /\ w.due = u.due /\ w.new = u.new /\ w.set = u.set
  BY <1>1, Fields DEF Shaped
<1>3. /\ Shaped(v) /\ v.pc = w.pc + 1 /\ v.calls = w.calls /\ v.run = w.run /\ v.at = w.at
      /\ v.seen = w.seen /\ v.due = w.due /\ v.new = w.new /\ v.set = w.set
  <2>1. v = Then(w) /\ Shaped(w)
    BY <1>1, <1>2
  <2> QED BY ONLY <2>1, ThenFields
<1> QED BY <1>1, <1>2, <1>3 DEF Seen, After

\* A document's first reading.
LEMMA ReadProgress ==
  ASSUME NEW p, Context(p), unit[p].pc = 1, NEW row,
         Becomes(p, Then([unit[p] EXCEPT !.seen = row])),
         \A t \in Keyed : ~Fills(Program[unit[p].calls.op][unit[p].pc], t),
         \A v : Seen(v, unit[p], row) => Noted(v, db)
  PROVE  Progress(p)
<1>0. Shaped(unit[p])
  BY ContextFacts
<1>1. PICK v : v = Then([unit[p] EXCEPT !.seen = row])
  OBVIOUS
<1>2. Seen(v, unit[p], row)
  BY <1>0, <1>1, SeenFields
<1>3. DOMAIN unit[p].set = {} /\ unit[p].new = NoRows
  BY ContextFirst
<1>4. /\ Becomes(p, v) /\ After(unit[p], v) /\ v.new = unit[p].new /\ v.set = unit[p].set
      /\ Noted(v, db)
  BY <1>1, <1>2 DEF Seen
<1>5. Backed(v, db)
  <2>1. v.new["pays"] = <<>>
    BY <1>3, <1>4 DEF NoRows, Tables
  <2>2. ~Past(v, {"verify"}, 2)
    BY <1>2 DEF Past, Seen
  <2> QED BY <2>1, <2>2, BackedNone
<1> QED BY <1>3, <1>4, <1>5, PassProgress

-----------------------------------------------------------------------------
\* The sweep.

\* A sweep with fewer holds left.
LEMMA FewerDue ==
  ASSUME NEW u, NEW v, NEW d, NEW n, Ready(u, d, n), u.calls.op = "expire", u.pc = 2,
         v.pc = u.pc, v.calls = u.calls, v.new = u.new, v.due \subseteq u.due
  PROVE  Written(v) /\ Noted(v, d) /\ Backed(v, d)
<1>1. Written(u) /\ Noted(u, d)
  BY DEF Ready, Local
<1>2. Written(v)
  BY <1>1 DEF Written
<1>3. u.due \subseteq 1..Len(d.holds)
  BY <1>1 DEF Noted, Past
<1>4. Noted(v, d)
  BY <1>3 DEF Noted, Past
<1>5. v.new["pays"] = <<>>
  BY NoPays
<1>6. ~Past(v, {"verify"}, 2)
  BY DEF Past
<1> QED BY <1>2, <1>4, <1>5, <1>6, BackedNone

\* A quote that has run out is stamped, or skipped.
LEMMA StampStatement ==
  ASSUME NEW p, Context(p), At(p, "stampDue"), StampDue(p)
  PROVE  Progress(p)
<1>0. /\ Shaped(unit[p]) /\ Ready(unit[p], db, now) /\ Typed(db) /\ Fit(unit[p], db, now)
      /\ Changed(unit[p], db) /\ Noted(unit[p], db) /\ Local(unit[p], db, now)
  BY ContextFacts DEF Ready
<1>1. /\ Program[unit[p].calls.op][unit[p].pc] = "stampDue"
      /\ unit[p].calls.op = "expire" /\ unit[p].pc = 2
  BY AtPlace DEF Place
<1>2. unit[p].due \subseteq 1..Len(db.holds)
  BY <1>0, <1>1 DEF Noted, Past
<1>3. CASE unit[p].due = {}
  <2>1. PICK v : v = Then(unit[p])
    OBVIOUS
  <2>2. /\ Shaped(v) /\ v.pc = unit[p].pc + 1 /\ v.calls = unit[p].calls /\ v.run = unit[p].run /\ v.at = unit[p].at
        /\ v.seen = unit[p].seen /\ v.due = unit[p].due /\ v.new = unit[p].new /\ v.set = unit[p].set
    <3>1. v = Then(unit[p]) /\ Shaped(unit[p])
      BY <1>0, <2>1
    <3> QED BY ONLY <3>1, ThenFields
  <2>3. After(unit[p], v) /\ Becomes(p, v)
    BY <1>3, <2>1, <2>2 DEF After, StampDue
  <2>4. \A t \in Keyed : ~Fills(Program[unit[p].calls.op][unit[p].pc], t)
    BY <1>1 DEF Fills
  <2>5. Noted(v, db) /\ Backed(v, db)
    BY <1>0, <1>1, <2>2, <2>3, GoesAlong
  <2> QED BY <2>2, <2>3, <2>4, <2>5, PassProgress
<1>4. CASE unit[p].due # {}
  <2>1. PICK i, h, u, row, v :
          /\ i = CHOOSE x \in unit[p].due : \A y \in unit[p].due : x <= y
          /\ h = Rows(p, "holds")[i]
          /\ u = [unit[p] EXCEPT !.due = @ \ {i}]
          /\ row = [h EXCEPT !.status = "EXPIRED", !.ver = @ + 1]
          /\ v = Updated(u, "holds", i, row)
    OBVIOUS
  <2>2. /\ ~LockedByPeer(p, "holds", i)
        /\ Becomes(p, u) \/ (Becomes(p, v) /\ h.status = "ACTIVE")
    <3>1. CASE h.status # "ACTIVE"
      BY SMTT(40), <1>4, <2>1, <3>1 DEF StampDue
    <3>2. CASE ~(h.status # "ACTIVE")
      BY SMTT(40), <1>4, <2>1, <3>2 DEF StampDue
    <3> QED BY SMTT(40), <3>1, <3>2
  <2>3. i \in unit[p].due /\ i \in 1..Len(db["holds"])
    <3>1. unit[p].due \in SUBSET Nat
      BY <1>2
    <3>2. \E x \in unit[p].due : \A y \in unit[p].due : x <= y
      BY SMTT(40), <1>4, <3>1, Least
    <3> QED BY <1>2, <2>1, <3>2
  <2>4. /\ Shaped(u) /\ u.pc = unit[p].pc /\ u.calls = unit[p].calls /\ u.run = unit[p].run
        /\ u.at = unit[p].at /\ u.seen = unit[p].seen /\ u.new = unit[p].new /\ u.set = unit[p].set
        /\ u.due \subseteq unit[p].due
    BY <1>0, <2>1, Fields DEF Shaped
  <2>5. CASE Becomes(p, u)
    <3>1. Written(u) /\ Noted(u, db) /\ Backed(u, db)
      BY <1>0, <1>1, <2>4, FewerDue
    <3>2. View(u, db) = View(unit[p], db)
      BY <2>4 DEF View
    <3>3. Fit(u, db, now) /\ Clean(u) /\ Guarded(u) /\ Stocked(View(u, db))
      BY <1>0, <2>4, <3>2 DEF Local, Fit, Clean, Guarded
    <3>4. \A ops, k : Past(u, ops, k) <=> Past(unit[p], ops, k)
      BY <2>4 DEF Past
    <3>5. Changed(u, db)
      <4>1. \A a, b, j : EndsHold(unit[p], a, b, j) => EndsHold(u, a, b, j)
        BY <2>4, EndsSame
      <4>2. \A a, b, t, j : Marks(unit[p], a, b, t, j) => Marks(u, a, b, t, j)
        BY <2>4, MarksSame
      <4> QED BY <1>0, <2>4, <3>4, <4>1, <4>2 DEF Changed
    <3>6. Local(u, db, now)
      BY <3>1, <3>3, <3>5 DEF Local
    <3>7. \A o \in Processes \ {p} : Apart(u, unit[o])
      BY <2>4, ApartSame DEF Context
    <3>8. Keeps(unit[p], u)
      BY <1>0, <2>4 DEF Keeps, Shaped
    <3> QED BY <2>4, <2>5, <3>6, <3>7, <3>8 DEF Progress, Follows
  <2>6. CASE Becomes(p, v) /\ h.status = "ACTIVE"
    <3>1. /\ Shaped(v) /\ v.pc = u.pc /\ v.calls = u.calls /\ v.run = u.run /\ v.at = u.at
          /\ v.seen = u.seen /\ v.due = u.due /\ v.new = u.new
          /\ DOMAIN v.set = DOMAIN u.set \cup {<<"holds", i>>} /\ v.set[<<"holds", i>>] = row
          /\ \A k \in DOMAIN u.set : k # <<"holds", i>> => v.set[k] = u.set[k]
      <4>1. Shaped(u) /\ v = Updated(u, "holds", i, row)
        BY <2>1, <2>4
      <4> QED BY ONLY SMTT(40), <4>1, UpdatedFields
    <3>2. Written(v) /\ Noted(v, db) /\ Backed(v, db)
      BY <1>0, <1>1, <2>4, <3>1, FewerDue
    <3>3. h \in Row["holds"] /\ h.by = db["holds"][i].by
      <4>1. "holds" \in Tables /\ "holds" \in Keyed
        BY DEF Tables, Keyed
      <4>2. h = View(unit[p], db)["holds"][i]
        BY <2>1, <4>1, RowsView
      <4>3. RowOf(View(unit[p], db)["holds"][i], unit[p], db, "holds", i)
        BY ONLY <1>0, <2>3, <4>1, ViewRow
      <4> QED BY <4>1, <4>2, <4>3 DEF RowOf
    <3>4. row \in Row["holds"] /\ row.by = h.by
      <4>1. h \in Row.holds
        BY <3>3
      <4>2. h.ver + 1 \in Nat
        BY <4>1 DEF Row
      <4>3. row = [h EXCEPT !.status = "EXPIRED", !.ver = @ + 1]
        BY <2>1
      <4> QED BY ONLY ZenonT(40), <4>1, <4>2, <4>3 DEF Row
    <3>5. Updates(v, db, "holds", i, row)
      <4>1. h = View(unit[p], db)["holds"][i]
        <5>1. "holds" \in Tables
          BY DEF Tables
        <5> QED BY <2>1, <5>1, RowsView
      <4>2. h = db["holds"][i] /\ h.status = "ACTIVE"
        BY <1>0, <2>3, <2>6, <4>1, StillActive
      <4>3. v.calls.op = "expire"
        BY <1>1, <2>4, <3>1
      <4>4. EndsHold(v, db.holds[i], row, i)
        BY <2>1, <4>2, <4>3 DEF EndsHold, Ended
      <4> QED BY <3>3, <3>4, <4>4 DEF Updates
    <3>6. Rewrites(unit[p], v, "holds", i, row)
      BY <2>4, <3>1 DEF Rewrites
    <3>7. Local(v, db, now)
      <4>1. v.pc > 1 /\ "holds" \in {"orders", "pays", "holds", "pos", "works"}
        BY <1>1, <2>4, <3>1
      <4> QED BY ONLY <1>0, <2>3, <3>2, <3>4, <3>5, <3>6, <4>1, RewriteLocal
    <3>8. \A o \in Processes \ {p} : Apart(v, unit[o])
      <4> SUFFICES ASSUME NEW o \in Processes \ {p} PROVE Apart(v, unit[o])
        OBVIOUS
      <4>1. PICK K : K = {<<"holds", i>>}
        OBVIOUS
      <4>2. K \cap DOMAIN unit[o].set = {}
        BY <2>2, <4>1 DEF LockedByPeer
      <4>3. DOMAIN v.set \subseteq DOMAIN unit[p].set \cup K /\ v.new = unit[p].new
        BY <2>4, <3>1, <4>1
      <4>4. Apart(unit[p], unit[o])
        BY DEF Context
      <4> QED BY <4>2, <4>3, <4>4, ApartRewrite
    <3>9. Keeps(unit[p], v)
      BY <1>0, <2>4, <3>1 DEF Keeps, Shaped
    <3> QED BY <2>6, <3>1, <3>7, <3>8, <3>9 DEF Progress, Follows
  <2> QED BY SMTT(40), <2>2, <2>5, <2>6
<1> QED BY <1>3, <1>4

-----------------------------------------------------------------------------
\* Stocktakes.

\* A preview records the stock it counts, under the fence.
LEMMA PreviewStatement ==
  ASSUME NEW p, Context(p), At(p, "preview"), Preview(p)
  PROVE  Progress(p)
<1>0. /\ Shaped(unit[p]) /\ Ready(unit[p], db, now) /\ Typed(db) /\ Fit(unit[p], db, now)
      /\ unit[p].calls \in Request
  BY ContextFacts
<1>1. unit[p].calls.op = "preview" /\ unit[p].pc = 1
  BY AtPlace DEF Place
<1>2. PICK u, c, f, w, v :
        /\ u = unit[p]
        /\ c = [by |-> Call(p).key, status |-> "PREVIEWED", ver |-> 1, rev |-> Fence(p).ver,
                expected |-> OnHand(Rows(p, "ledger"), "A"), counted |-> Call(p).qty]
        /\ f = Fenced(p, u, 0) /\ w = Appended(f, "counts", c) /\ v = Then(w)
  OBVIOUS
<1>3. FenceFree(p) /\ Becomes(p, v)
  BY <1>2 DEF Preview
<1>4. /\ Rows(p, "ledger") = View(u, db)["ledger"] /\ View(u, db)["ledger"] \in Seq(Row["ledger"])
      /\ Fence(p).ver = View(u, db).fence[1].ver /\ Fence(p).ver \in Nat
  <2>1. "ledger" \in Tables
    BY DEF Tables
  <2>2. Rows(p, "ledger") = View(u, db)["ledger"]
    BY <1>2, <2>1, RowsView
  <2>3. View(u, db)["ledger"] \in Seq(Row["ledger"])
    BY ZenonT(40), <1>0, <1>2, <2>1, ViewRows DEF Reads
  <2>4. Fence(p).ver = View(u, db).fence[1].ver /\ Fence(p).ver \in Nat
    BY <1>2, FenceView
  <2> QED BY <2>2, <2>3, <2>4
<1>5. /\ c \in Row["counts"] /\ c.rev = View(u, db).fence[1].ver
      /\ c.expected = OnHand(View(u, db).ledger, "A")
  <2>1. OnHand(View(u, db)["ledger"], "A") \in Int
    BY <1>4, OnHandType
  <2>2. Call(p).key \in STRING /\ Call(p).qty \in Nat
    BY <1>0, <1>1, RequestFacts DEF Call
  <2>3. c \in Row["counts"]
    BY <1>2, <1>4, <2>1, <2>2 DEF Row
  <2> QED BY <1>2, <1>4, <2>3
<1>6. /\ Shaped(f) /\ f.pc = u.pc /\ f.calls = u.calls /\ f.run = u.run /\ f.at = u.at
      /\ f.seen = u.seen /\ f.due = u.due /\ f.new = u.new
      /\ DOMAIN f.set = DOMAIN u.set \cup {<<"fence", 1>>}
      /\ f.set[<<"fence", 1>>] = [ver |-> View(u, db).fence[1].ver]
  <2>1. PICK row : row = [ver |-> Fence(p).ver + 0] /\ f = Updated(u, "fence", 1, row)
    BY <1>2 DEF Fenced
  <2>2. row = [ver |-> View(u, db).fence[1].ver]
    <3>1. Fence(p).ver + 0 = View(u, db).fence[1].ver
      BY <1>4
    <3> QED BY <2>1, <3>1
  <2>3. Shaped(u) /\ f = Updated(u, "fence", 1, row)
    BY <1>0, <1>2, <2>1
  <2>4. /\ Shaped(f) /\ f.pc = u.pc /\ f.calls = u.calls /\ f.run = u.run /\ f.at = u.at
        /\ f.seen = u.seen /\ f.due = u.due /\ f.new = u.new
        /\ DOMAIN f.set = DOMAIN u.set \cup {<<"fence", 1>>} /\ f.set[<<"fence", 1>>] = row
    BY ONLY <2>3, UpdatedFields
  <2> QED BY <2>2, <2>4
<1>7. DOMAIN u.new = Tables /\ "counts" \in DOMAIN f.new
  BY <1>0, <1>2, <1>6 DEF Fit, Tables
<1>8. /\ Shaped(w) /\ w.pc = f.pc /\ w.calls = f.calls /\ w.run = f.run /\ w.at = f.at
      /\ w.seen = f.seen /\ w.due = f.due /\ w.set = f.set /\ DOMAIN w.new = DOMAIN f.new
      /\ w.new["counts"] = Append(f.new["counts"], c)
      /\ \A s \in DOMAIN f.new : s # "counts" => w.new[s] = f.new[s]
  <2>1. Shaped(f) /\ w = Appended(f, "counts", c) /\ "counts" \in DOMAIN f.new
    BY <1>2, <1>6, <1>7
  <2> QED BY ONLY <2>1, AppendedFields
<1>9. /\ Shaped(v) /\ v.pc = w.pc + 1 /\ v.calls = w.calls /\ v.run = w.run /\ v.at = w.at
      /\ v.seen = w.seen /\ v.due = w.due /\ v.new = w.new /\ v.set = w.set
  <2>1. v = Then(w) /\ Shaped(w)
    BY <1>2, <1>8
  <2> QED BY ONLY SMTT(40), <2>1, ThenFields
<1>10. /\ After(u, v) /\ v.seen = u.seen /\ DOMAIN v.new = DOMAIN u.new
       /\ v.new["counts"] = Append(u.new["counts"], c)
       /\ \A s \in DOMAIN u.new : s # "counts" => v.new[s] = u.new[s]
       /\ DOMAIN v.set = DOMAIN u.set \cup {<<"fence", 1>>}
       /\ v.set[<<"fence", 1>>] = [ver |-> View(u, db).fence[1].ver]
  BY <1>6, <1>8, <1>9 DEF After
<1>11. Local(v, db, now)
  <2>1. Ready(u, db, now) /\ u.calls.op = "preview" /\ u.pc = 1
    BY <1>0, <1>1, <1>2
  <2>2. c \in Row.counts
    BY <1>5
  <2> QED BY ONLY <1>5, <1>10, <2>1, <2>2, PreviewLocal
<1>12. \A o \in Processes \ {p} : Apart(v, unit[o])
  <2>1. \A t \in Coded : v.new[t] = unit[p].new[t]
    <3>1. \A t \in Coded : t \in DOMAIN u.new /\ t # "counts"
      BY SMTT(40), <1>7 DEF Coded, Tables
    <3> QED BY <1>2, <1>10, <3>1
  <2>2. DOMAIN v.set \subseteq DOMAIN unit[p].set \cup {<<"fence", 1>>}
    BY SMTT(40), <1>2, <1>10
  <2> QED BY SMTT(40), <1>3, <2>1, <2>2, FenceApart
<1>13. Keeps(unit[p], v)
  BY <1>0, <1>2, <1>6, <1>8, <1>9 DEF Keeps, Shaped
<1> QED BY <1>3, <1>9, <1>11, <1>12, <1>13 DEF Progress, Follows

\* A copy of a count that finds it settled passes on with nothing written.
LEMMA SettledPasses ==
  ASSUME NEW p, Context(p), At(p, "settleCount"), Becomes(p, Then(unit[p]))
  PROVE  Progress(p)
<1>1. unit[p].calls.op = "count"
  BY AtPlace DEF Place
<1>2. 0 \in Rights(unit[p].calls)["ledger"]
  BY <1>1 DEF Rights, Keyed
<1> QED BY <1>2, UnmovedPasses

\* The rows of a table as a unit reads them.
LEMMA RowsTyped ==
  ASSUME NEW p, Context(p), NEW t \in Tables
  PROVE  Rows(p, t) = View(unit[p], db)[t] /\ Reads(Rows(p, t), unit[p], db, t)
BY ContextFacts, RowsView, ViewRows

\* The adjustment a count posts.
Adjustment(q, variance) ==
  IF variance = 0 THEN <<>> ELSE Movements(q, <<"counts", q.on>>, <<<<"A", variance, "none">>>>)

\* The adjustment of a count is at most one movement of the variance.
LEMMA AdjustmentRows ==
  ASSUME NEW q \in Request, NEW variance \in Int, NEW moves, moves = Adjustment(q, variance)
  PROVE  /\ moves \in Seq(Row.ledger) /\ Len(moves) <= 1
         /\ \A j \in 1..Len(moves) : moves[j].by = q.key /\ moves[j].on = <<"counts", q.on>>
<1>1. CASE variance = 0
  <2>1. moves = <<>>
    BY <1>1 DEF Adjustment
  <2>2. moves \in Seq(Row.ledger) /\ Len(moves) = 0
    BY <2>1
  <2> QED BY <2>2
<1>2. CASE variance # 0
  <2>1. PICK list \in Seq(Item) : list = <<<<"A", variance, "none">>>> /\ Len(list) = 1
    BY ZenonT(40), OneItem
  <2>2. PICK on \in Origins \X Nat : on = <<"counts", q.on>>
    <3>1. <<"counts", q.on>> \in Origins \X Nat
      BY RequestFacts DEF Origins
    <3> QED BY <3>1
  <2>3. moves = Movements(q, on, list) /\ q.key \in STRING
    BY <1>2, <2>1, <2>2, RequestFacts DEF Adjustment
  <2>4. /\ moves \in Seq(Row.ledger) /\ Len(moves) = Len(list)
        /\ \A i \in 1..Len(moves) : moves[i].by = q.key /\ moves[i].on = on
    BY ONLY <2>3, MovementRows
  <2> QED BY <2>1, <2>2, <2>4
<1> QED BY <1>1, <1>2

\* A count that is settled.
LEMMA SettleProgress ==
  ASSUME NEW p, Context(p), At(p, "settleCount"), FenceFree(p),
         NEW moves, NEW variance \in Int, moves = Adjustment(Call(p), variance),
         NEW c, c = Rows(p, "counts")[Call(p).on],
         Exists(p, "counts", Call(p).on), CountIsCurrent(p, c), Covered(p, moves),
         NEW row, row = [c EXCEPT !.status = "COMMITTED", !.ver = @ + 1, !.by = Call(p).key],
         Becomes(p, Then(Updated(Append2Ledger(p, moves), "counts", Call(p).on, row)))
  PROVE  Progress(p)
<1>0. /\ Shaped(unit[p]) /\ Ready(unit[p], db, now) /\ Typed(db) /\ Fit(unit[p], db, now)
      /\ unit[p].calls \in Request
  BY SMTT(40), ContextFacts
<1>1. unit[p].calls.op = "count" /\ unit[p].pc = 1
  BY AtPlace DEF Place
<1>2. PICK u, i, w, x, v :
        /\ u = unit[p] /\ i = u.calls.on /\ w = Append2Ledger(p, moves)
        /\ x = Updated(w, "counts", i, row) /\ v = Then(x)
  OBVIOUS
<1>3. DOMAIN u.set = {} /\ u.new = NoRows /\ \A t \in Tables : Rows(p, t) = db[t]
  BY <1>1, <1>2, ContextFirst
<1>4. \A t \in Tables : Rows(p, t) = View(u, db)[t]
  BY <1>2, RowsView
<1>5. "counts" \in Tables /\ "ledger" \in Tables /\ "fence" \in Tables
  BY DEF Tables
<1>6. i \in 1..Len(db.counts) /\ c = View(u, db).counts[i] /\ c \in Row.counts
  <2>1. Rows(p, "counts") = db["counts"] /\ Rows(p, "counts") = View(u, db)["counts"]
    BY <1>3, <1>4, <1>5
  <2>2. db["counts"] \in Seq(Row["counts"])
    BY SMTT(40), <1>0, <1>5 DEF Typed
  <2>3. i \in 1..Len(Rows(p, "counts")) /\ c = Rows(p, "counts")[i]
    BY SMTT(40), <1>2 DEF Exists, Call
  <2> QED BY <2>1, <2>2, <2>3
<1>7. row = [c EXCEPT !.status = "COMMITTED", !.ver = @ + 1, !.by = u.calls.key] /\ u.calls.key \in STRING
  BY <1>0, <1>2, RequestFacts DEF Call
<1>8. row \in Row.counts /\ row.rev = c.rev /\ row.expected = c.expected
  <2>1. c.ver + 1 \in Nat
    BY SMTT(40), <1>6 DEF Row
  <2> QED BY ONLY ZenonT(40), <1>6, <1>7, <2>1 DEF Row
<1>9. /\ moves \in Seq(Row.ledger) /\ Len(moves) <= 1
      /\ \A j \in 1..Len(moves) : moves[j].by = u.calls.key /\ moves[j].on = <<"counts", i>>
  <2>1. u.calls \in Request /\ moves = Adjustment(u.calls, variance)
    BY <1>0, <1>2 DEF Call
  <2> QED BY SMTT(40), <1>2, <2>1, AdjustmentRows
<1>10. c.rev = View(u, db).fence[1].ver /\ Fence(p).ver = View(u, db).fence[1].ver
  BY <1>2, FenceView DEF CountIsCurrent
<1>11. Covering(View(u, db).ledger, moves)
  <2>1. Rows(p, "ledger") = View(u, db)["ledger"]
    BY <1>4, <1>5
  <2> QED BY <2>1 DEF Covered, Covering
<1>12. DOMAIN u.new = Tables
  BY <1>0, <1>2 DEF Fit
<1>13. /\ Shaped(w) /\ w.pc = u.pc
       /\ w.calls = u.calls /\ w.run = u.run /\ w.at = u.at /\ w.seen = u.seen
       /\ w.due = u.due /\ DOMAIN w.new = DOMAIN u.new
       /\ w.new["ledger"] = u.new["ledger"] \o moves
       /\ \A s \in DOMAIN u.new : s # "ledger" => w.new[s] = u.new[s]
       /\ DOMAIN w.set = DOMAIN u.set \cup {<<"fence", 1>>}
       /\ w.set[<<"fence", 1>>] = [ver |-> View(u, db).fence[1].ver + Len(moves)]
  <2>1. Ledgered(w, u, moves, Fence(p).ver + Len(moves))
    BY <1>0, <1>2, <1>12, LedgerFields
  <2>2. Ledgered(w, u, moves, View(u, db).fence[1].ver + Len(moves))
    BY <1>10, <2>1
  <2> QED BY ONLY <2>2 DEF Ledgered
<1>14. /\ Shaped(x) /\ x.pc = w.pc /\ x.calls = w.calls /\ x.run = w.run /\ x.at = w.at
       /\ x.seen = w.seen /\ x.due = w.due /\ x.new = w.new
       /\ DOMAIN x.set = DOMAIN w.set \cup {<<"counts", i>>} /\ x.set[<<"counts", i>>] = row
       /\ \A k \in DOMAIN w.set : k # <<"counts", i>> => x.set[k] = w.set[k]
  <2>1. Shaped(w) /\ x = Updated(w, "counts", i, row)
    BY <1>2, <1>13
  <2> QED BY ONLY SMTT(40), <2>1, UpdatedFields
<1>15. /\ Shaped(v) /\ v.pc = x.pc + 1 /\ v.calls = x.calls /\ v.run = x.run /\ v.at = x.at
       /\ v.seen = x.seen /\ v.due = x.due /\ v.new = x.new /\ v.set = x.set
  <2>1. v = Then(x) /\ Shaped(x)
    BY ZenonT(40), <1>2, <1>14
  <2> QED BY ONLY SMTT(40), <2>1, ThenFields
<1>16. /\ DOMAIN v.set = {<<"fence", 1>>, <<"counts", i>>} /\ v.set[<<"counts", i>>] = row
       /\ v.set[<<"fence", 1>>] = [ver |-> View(u, db).fence[1].ver + Len(moves)]
  <2>1. DOMAIN v.set = {<<"fence", 1>>} \cup {<<"counts", i>>}
    BY <1>3, <1>13, <1>14, <1>15
  <2>2. v.set[<<"counts", i>>] = row
    BY <1>14, <1>15
  <2>3. v.set[<<"fence", 1>>] = w.set[<<"fence", 1>>]
    <3>1. <<"fence", 1>> # <<"counts", i>> /\ <<"fence", 1>> \in DOMAIN w.set
      BY <1>13
    <3>2. x.set[<<"fence", 1>>] = w.set[<<"fence", 1>>]
      BY ONLY <1>14, <3>1
    <3> QED BY <1>15, <3>2
  <2> QED BY <1>13, <2>1, <2>2, <2>3
<1>17. After(u, v) /\ v.seen = u.seen /\ v.due = u.due
  BY SMTT(40), <1>13, <1>14, <1>15 DEF After
<1>18. Posted(u, v, moves, View(u, db).fence[1].ver + Len(moves))
  <2>1. \A k \in DOMAIN v.set : k = <<"fence", 1>> \/ k[1] = "counts"
    BY <1>16
  <2> QED BY <1>3, <1>13, <1>14, <1>15, <1>16, <1>17, <2>1 DEF Posted
<1>19. Noted(v, db) /\ Backed(v, db)
  <2>1. v.new["pays"] = u.new["pays"]
    BY <1>12, <1>13, <1>14, <1>15 DEF Tables
  <2>2. Ready(u, db, now) /\ u.calls.op = "count" /\ u.pc = 1
    BY <1>0, <1>1, <1>2
  <2> QED BY SMTT(40), <1>17, <2>1, <2>2, GoesAlong
<1>20. Local(v, db, now)
  <2>1. Ready(u, db, now) /\ u.calls.op = "count" /\ u.pc = 1
    BY <1>0, <1>1, <1>2
  <2>2. DOMAIN v.set = DOMAIN u.set \cup {<<"fence", 1>>, <<"counts", i>>}
    BY <1>3, <1>16
  <2>3. \A k \in DOMAIN u.set : k \notin {<<"fence", 1>>, <<"counts", i>>} => v.set[k] = u.set[k]
    BY <1>3
  <2>4. /\ row.rev = View(u, db).fence[1].ver /\ row.rev = View(u, db).counts[i].rev
        /\ row.expected = View(u, db).counts[i].expected
    BY <1>6, <1>8, <1>10
  <2>5. moves \in Seq(Row.ledger) /\ i \in 1..Len(db.counts) /\ row \in Row.counts
    BY <1>6, <1>8, <1>9
  <2>6. v.set[<<"counts", i>>] = row
    BY <1>16
  <2> QED BY ONLY ZenonT(40), <1>9, <1>11, <1>18, <1>19, <2>1, <2>2, <2>3, <2>4, <2>5, <2>6, SettleLocal
<1>21. \A o \in Processes \ {p} : Apart(v, unit[o])
  <2> SUFFICES ASSUME NEW o \in Processes \ {p} PROVE Apart(v, unit[o])
    OBVIOUS
  <2>1. PICK K : K = {<<"fence", 1>>, <<"counts", i>>}
    OBVIOUS
  <2>2. <<"fence", 1>> \notin DOMAIN unit[o].set
    BY DEF FenceFree, LockedByPeer
  <2>3. <<"counts", i>> \notin DOMAIN unit[o].set
    <3>1. Guarded(unit[o])
      BY DEF Context
    <3>2. <<"counts", i>>[1] = "counts"
      OBVIOUS
    <3> QED BY <2>2, <3>1, <3>2 DEF Guarded
  <2>4. K \cap DOMAIN unit[o].set = {} /\ DOMAIN v.set \subseteq DOMAIN u.set \cup K
    BY SMTT(40), <1>16, <2>1, <2>2, <2>3
  <2>5. \A t \in Coded : v.new[t] = u.new[t]
    <3>1. \A t \in Coded : t \in DOMAIN u.new /\ t # "ledger"
      BY <1>12 DEF Coded, Tables
    <3> QED BY <1>13, <1>14, <1>15, <3>1
  <2>6. Apart(u, unit[o])
    BY SMTT(40), <1>2 DEF Context
  <2> QED BY ONLY <2>4, <2>5, <2>6, ApartRewrite
<1>22. Keeps(unit[p], v)
  BY ZenonT(40), <1>0, <1>2, <1>13, <1>14, <1>15 DEF Keeps, Shaped
<1>23. Becomes(p, v)
  BY <1>2 DEF Call
<1> QED BY <1>15, <1>20, <1>21, <1>22, <1>23 DEF Progress, Follows

\* A count is settled on the revision of its preview, or refused.
LEMMA SettleStatement ==
  ASSUME NEW p, Context(p), At(p, "settleCount"), SettleCount(p)
  PROVE  Progress(p)
<1>1. PICK c, variance, moves, row :
        /\ c = Rows(p, "counts")[Call(p).on]
        /\ variance = c.counted - OnHand(Rows(p, "ledger"), "A")
        /\ moves = Adjustment(Call(p), variance)
        /\ row = [c EXCEPT !.status = "COMMITTED", !.ver = @ + 1, !.by = Call(p).key]
  OBVIOUS
<1>2. FenceFree(p)
  BY DEF SettleCount
<1>3. CASE SettledBefore(p)
  BY <1>3, SettledPasses DEF SettleCount
<1>4. CASE ~SettledBefore(p)
  <2>1. \/ Refuse(p)
        \/ /\ Exists(p, "counts", Call(p).on) /\ CountIsCurrent(p, c) /\ Covered(p, moves)
           /\ Becomes(p, Then(Updated(Append2Ledger(p, moves), "counts", Call(p).on, row)))
    BY <1>1, <1>4 DEF SettleCount, Adjustment
  <2>2. CASE Exists(p, "counts", Call(p).on)
    <3>1. "counts" \in Tables /\ "ledger" \in Tables
      BY DEF Tables
    <3>2. PICK a, b, R, S : /\ a = Rows(p, "counts") /\ b = Rows(p, "ledger")
                            /\ R = Row["counts"] /\ S = Row["ledger"]
      OBVIOUS
    <3>3. a \in Seq(R) /\ b \in Seq(S)
      BY ZenonT(40), <3>1, <3>2, RowsTyped DEF Reads
    <3>4. Call(p).on \in 1..Len(a)
      BY <2>2, <3>2 DEF Exists
    <3>5. c \in R
      BY <1>1, <3>2, <3>3, <3>4
    <3>6. c.counted \in Nat
      BY <3>2, <3>5 DEF Row
    <3>7. OnHand(b, "A") \in Int
      BY <3>2, <3>3, OnHandType
    <3>8. variance \in Int
      BY SMTT(40), <1>1, <3>2, <3>6, <3>7
    <3>9. CASE /\ CountIsCurrent(p, c) /\ Covered(p, moves)
               /\ Becomes(p, Then(Updated(Append2Ledger(p, moves), "counts", Call(p).on, row)))
      BY ZenonT(40), <1>1, <1>2, <2>2, <3>8, <3>9, SettleProgress
    <3> QED BY <2>1, <3>9 DEF Progress
  <2> QED BY <2>1, <2>2 DEF Progress
<1> QED BY <1>3, <1>4

-----------------------------------------------------------------------------
\* Commerce's statements.

\* The document that is named is there, and read as it is committed.
LEMMA ReadDocumentProgress ==
  ASSUME NEW p, Context(p), unit[p].pc = 1, NEW t \in Tables, NEW allowed,
         ReadDocument(p, t, allowed),
         \A s \in Keyed : ~Fills(Program[unit[p].calls.op][unit[p].pc], s),
         \A v, row : /\ Seen(v, unit[p], row)
                     /\ unit[p].calls.on \in 1..Len(db[t]) /\ row = db[t][unit[p].calls.on]
                     /\ row \in Row[t] /\ row.status \in allowed
                     => Noted(v, db)
  PROVE  Progress(p)
<1>1. PICK row : row = Rows(p, t)[unit[p].calls.on]
  OBVIOUS
<1>2. \/ Refuse(p)
      \/ /\ Exists(p, t, unit[p].calls.on) /\ row.status \in allowed
         /\ Becomes(p, Then([unit[p] EXCEPT !.seen = row]))
  BY <1>1 DEF ReadDocument, Call
<1>3. CASE /\ Exists(p, t, unit[p].calls.on) /\ row.status \in allowed
           /\ Becomes(p, Then([unit[p] EXCEPT !.seen = row]))
  <2>1. Rows(p, t) = db[t]
    BY ContextFirst
  <2>2. db[t] \in Seq(Row[t])
    BY ContextFacts DEF Typed
  <2>3. unit[p].calls.on \in 1..Len(db[t]) /\ row = db[t][unit[p].calls.on]
    BY <1>1, <1>3, <2>1 DEF Exists
  <2>4. row \in Row[t]
    BY SMTT(40), <2>2, <2>3
  <2>5. \A v : Seen(v, unit[p], row) => Noted(v, db)
    BY <1>3, <2>3, <2>4
  <2>6. Becomes(p, Then([unit[p] EXCEPT !.seen = row]))
    BY <1>3
  <2> QED BY <2>5, <2>6, ReadProgress
<1> QED BY <1>2, <1>3 DEF Progress

\* An order is read, or refused.
LEMMA ReadOrderStatement ==
  ASSUME NEW p, Context(p), At(p, "readOrder"), ReadOrder(p)
  PROVE  Progress(p)
<1>1. /\ Program[unit[p].calls.op][unit[p].pc] = "readOrder"
      /\ unit[p].calls.op \in {"confirm", "complete", "completeOnly", "cancel"} /\ unit[p].pc = 1
  BY AtPlace DEF Place
<1>2. PICK allowed : ReadDocument(p, "orders", allowed) /\ allowed \subseteq {"DRAFT", "CONFIRMED"}
  <2>1. PICK allowed : /\ allowed = (CASE Call(p).op = "confirm"  -> {"DRAFT"}
                                       [] Call(p).op \in {"complete", "completeOnly"} -> {"CONFIRMED"}
                                       [] Call(p).op = "cancel"   -> {"DRAFT", "CONFIRMED"})
                       /\ ReadDocument(p, "orders", allowed)
    BY DEF ReadOrder
  <2> QED BY <1>1, <2>1 DEF Call
<1>3. \A s \in Keyed : ~Fills(Program[unit[p].calls.op][unit[p].pc], s)
  BY <1>1 DEF Fills
<1>4. "orders" \in Tables
  BY DEF Tables
<1>5. ASSUME NEW v, NEW row, Seen(v, unit[p], row), unit[p].calls.on \in 1..Len(db["orders"]),
             row = db["orders"][unit[p].calls.on], row \in Row["orders"], row.status \in allowed
      PROVE  Noted(v, db)
  <2>1. v.calls = unit[p].calls /\ v.seen = row
    BY <1>5 DEF Seen
  <2>2. row.ver \in Nat /\ row.status \in {"DRAFT", "CONFIRMED"}
    BY <1>2, <1>5 DEF Row
  <2>3. Saw(v, db.orders)
    BY <1>5, <2>1, <2>2 DEF Saw
  <2> QED BY <1>1, <1>5, <2>1, <2>2, <2>3 DEF Noted, Past
<1> QED BY <1>1, <1>2, <1>3, <1>4, <1>5, ReadDocumentProgress

\* A document's row as a unit reads it.
LEMMA DocumentRow ==
  ASSUME NEW p, Context(p), NEW t \in Tables, NEW i \in 1..Len(db[t])
  PROVE  RowOf(Rows(p, t)[i], unit[p], db, t, i)
<1>1. Typed(db) /\ Fit(unit[p], db, now) /\ Changed(unit[p], db)
  BY ContextFacts
<1>2. RowOf(View(unit[p], db)[t][i], unit[p], db, t, i)
  BY <1>1, ViewRow
<1> QED BY <1>2, RowsView

\* The stock of a completed order is issued, or refused.
LEMMA IssueOrderStatement ==
  ASSUME NEW p, Context(p), At(p, "issueOrder"), IssueOrder(p)
  PROVE  Progress(p)
<1>0. Noted(unit[p], db) /\ unit[p].calls \in Request
  BY ContextFacts
<1>1. unit[p].calls.op = "complete" /\ unit[p].pc = 2
  BY AtPlace DEF Place
<1>2. unit[p].seen \in Row.orders
  BY <1>0, <1>1 DEF Noted, Past
<1>3. PICK x \in Int : x = -unit[p].seen.qty
  <2>1. unit[p].seen.qty \in Nat
    BY <1>2 DEF Row
  <2> QED BY <2>1
<1>4. PICK on \in Origins \X Nat : on = <<"orders", Call(p).on>> /\ on[1] # "counts"
  <2>1. <<"orders", Call(p).on>> \in Origins \X Nat /\ <<"orders", Call(p).on>>[1] # "counts"
    BY <1>0, RequestFacts DEF Origins, Call
  <2> QED BY <2>1
<1>5. Refuse(p) \/ Becomes(p, Then(unit[p])) \/ Move(p, on, <<<<"A", x, "none">>>>)
  BY <1>3, <1>4 DEF IssueOrder
<1>6. CASE Move(p, on, <<<<"A", x, "none">>>>)
  <2>1. "issueOrder" \in {"move", "issueOrder", "issueSale", "stockReceipt"}
    OBVIOUS
  <2> QED BY <1>1, <1>4, <1>6, <2>1, SingleProgress
<1>7. CASE Becomes(p, Then(unit[p]))
  <2>1. 0 \in Rights(unit[p].calls)["ledger"]
    BY <1>1 DEF Rights, Keyed
  <2> QED BY <1>7, <2>1, UnmovedPasses
<1> QED BY <1>5, <1>6, <1>7 DEF Progress

\* A document that is at the version its unit saw is the committed row.
LEMMA AsReadRow ==
  ASSUME NEW p, Context(p), NEW t \in {"orders", "pos"}, NEW i, i = unit[p].calls.on,
         i \in 1..Len(db[t]), unit[p].calls.op # "verify", AsRead(p, t)
  PROVE  /\ Rows(p, t)[i] = db[t][i] /\ db[t][i] \in Row[t]
         /\ db[t][i].ver \in Nat /\ db[t][i].ver = unit[p].seen.ver
<1>1. t \in Tables /\ Typed(db) /\ Changed(unit[p], db)
  BY ContextFacts DEF Tables
<1>2. PICK u, a, h : u = unit[p] /\ a = db[t][i] /\ h = Rows(p, t)[i]
  OBVIOUS
<1>3. a \in Row[t]
  BY <1>1, <1>2 DEF Typed
<1>4. a.ver \in Nat
  <2>1. a \in Row["orders"] \/ a \in Row["pos"]
    BY <1>3
  <2> QED BY <2>1 DEF Row
<1>5. h = IF <<t, i>> \in DOMAIN u.set THEN u.set[<<t, i>>] ELSE a
  <2>1. Reads(Rows(p, t), unit[p], db, t)
    BY <1>1, RowsTyped
  <2> QED BY ZenonT(40), <1>2, <2>1 DEF Reads
<1>6. h.ver = u.seen.ver
  BY <1>2 DEF AsRead, Call
<1>7. ASSUME <<t, i>> \in DOMAIN u.set PROVE FALSE
  <2>1. Marks(u, a, h, t, i)
    <3>1. <<t, i>>[1] = t /\ <<t, i>>[2] = i /\ h = u.set[<<t, i>>] /\ a = db[t][i]
      BY <1>2, <1>5, <1>7
    <3>2. \A k \in DOMAIN u.set : k[1] \in {"orders", "pos", "works"} => Marks(u, db[k[1]][k[2]], u.set[k], k[1], k[2])
      BY <1>1, <1>2 DEF Changed
    <3>3. <<t, i>>[1] \in {"orders", "pos", "works"}
      BY <3>1
    <3>4. Marks(u, db[t][i], u.set[<<t, i>>], t, i)
      BY ZenonT(40), <1>7, <3>1, <3>2, <3>3
    <3> QED BY <3>1, <3>4
  <2>2. a.ver = u.seen.ver /\ h.ver = a.ver + 1
    BY <1>2, <2>1 DEF Marks
  <2> QED BY <1>4, <1>6, <2>2
<1> QED BY <1>2, <1>3, <1>4, <1>5, <1>6, <1>7

\* An order is moved on from the version that was read.
LEMMA CloseOrderStatement ==
  ASSUME NEW p, Context(p), At(p, "closeOrder"), CloseOrder(p)
  PROVE  Progress(p)
<1>0. /\ Ready(unit[p], db, now) /\ Noted(unit[p], db) /\ unit[p].pc \in Nat
  BY ContextFacts
<1>1. /\ Program[unit[p].calls.op][unit[p].pc] = "closeOrder"
      /\ unit[p].calls.op \in {"confirm", "complete", "completeOnly", "cancel"} /\ unit[p].pc > 1
  BY AtPlace DEF Place
<1>2. unit[p].calls.on \in 1..Len(db["orders"])
  BY SMTT(40), <1>0, <1>1 DEF Noted, Past, Saw
<1>3. PICK status, i, h, row :
        /\ status = (CASE Call(p).op = "confirm"  -> "CONFIRMED"
                       [] Call(p).op \in {"complete", "completeOnly"} -> "COMPLETED"
                       [] Call(p).op = "cancel"   -> "CANCELLED")
        /\ i = unit[p].calls.on /\ h = Rows(p, "orders")[i]
        /\ row = [h EXCEPT !.status = status, !.ver = @ + 1, !.issued = @ \/ Call(p).op = "complete"]
  OBVIOUS
<1>4. Cas(p, "orders", i, AsRead(p, "orders"), row, FALSE)
  BY ZenonT(40), <1>3 DEF CloseOrder, Call
<1>5. h \in Row["orders"] /\ h.by = db["orders"][i].by
  <2>1. "orders" \in Tables /\ "orders" \in Keyed
    BY DEF Tables, Keyed
  <2> QED BY ZenonT(40), <1>2, <1>3, <2>1, DocumentRow DEF RowOf
<1>6. row \in Row["orders"] /\ row.by = h.by
  <2>1. h \in Row.orders
    BY <1>5
  <2>2. h.ver + 1 \in Nat
    BY <2>1 DEF Row
  <2>3. status \in {"CONFIRMED", "COMPLETED", "CANCELLED"}
    BY <1>1, <1>3 DEF Call
  <2>4. PICK issued : issued = (h.issued \/ Call(p).op = "complete")
    OBVIOUS
  <2>5. issued \in BOOLEAN
    BY <2>4
  <2>6. row = [h EXCEPT !.status = status, !.ver = @ + 1, !.issued = issued]
    BY ZenonT(40), <1>3, <2>4
  <2> QED BY ONLY ZenonT(40), <2>1, <2>2, <2>3, <2>5, <2>6 DEF Row
<1>7. \A t \in Keyed : ~Fills(Program[unit[p].calls.op][unit[p].pc], t)
  BY <1>1 DEF Fills
<1>8. ASSUME AsRead(p, "orders"), NEW v, Rewrites(unit[p], v, "orders", i, row), After(unit[p], v),
             v.due = unit[p].due
      PROVE  Updates(v, db, "orders", i, row) /\ Noted(v, db) /\ Backed(v, db)
  <2>1. PICK u, a : u = unit[p] /\ a = db["orders"][i]
    OBVIOUS
  <2>2. h = a /\ a \in Row["orders"] /\ a.ver \in Nat /\ a.ver = u.seen.ver
    <3>1. "orders" \in {"orders", "pos"} /\ unit[p].calls.op # "verify" /\ i = unit[p].calls.on
      BY <1>1, <1>3
    <3> QED BY ONLY Context(p), <1>2, <1>3, <1>8, <2>1, <3>1, AsReadRow
  <2>3. /\ row.status = OrderEnd(u.calls.op) /\ row.ver = a.ver + 1
        /\ row.qty = a.qty /\ (row.issued <=> a.issued \/ u.calls.op = "complete")
    <3>1. /\ h \in Row.orders
          /\ row = [h EXCEPT !.status = status, !.ver = @ + 1, !.issued = @ \/ u.calls.op = "complete"]
      BY ZenonT(40), <1>3, <1>5, <2>1 DEF Call
    <3>2. /\ row.status = status /\ row.ver = h.ver + 1 /\ row.qty = h.qty
          /\ row.issued = (h.issued \/ u.calls.op = "complete")
      BY ONLY ZenonT(40), <3>1 DEF Row
    <3>3. status = OrderEnd(u.calls.op)
      BY <1>1, <1>3, <2>1 DEF OrderEnd, Call
    <3> QED BY <2>2, <3>2, <3>3
  <2>4. v.calls = u.calls /\ v.seen = u.seen /\ v.new["pays"] = u.new["pays"]
    BY <1>8, <2>1 DEF Rewrites, After
  <2>5. Marks(v, a, row, "orders", i)
    BY <1>1, <1>3, <2>1, <2>2, <2>3, <2>4 DEF Marks
  <2>6. Updates(v, db, "orders", i, row)
    BY <1>5, <1>6, <2>1, <2>5 DEF Updates
  <2> QED BY <1>0, <1>1, <1>8, <2>1, <2>4, <2>6, GoesAlong
<1>9. i \in 1..Len(db["orders"])
  BY <1>2, <1>3
<1> QED BY ZenonT(40), <1>4, <1>6, <1>7, <1>8, <1>9, CasProgress

\* A sale inserts its order under a code,
LEMMA InsertSaleStatement ==
  ASSUME NEW p, Context(p), At(p, "insertSale"), InsertSale(p)
  PROVE  Progress(p)
<1>0. /\ Ready(unit[p], db, now) /\ unit[p].calls \in Request
  BY ContextFacts
<1>1. /\ Program[unit[p].calls.op][unit[p].pc] = "insertSale"
      /\ unit[p].calls.op = "sale" /\ unit[p].pc = 1
  BY AtPlace DEF Place
<1>2. PICK row : row = [by |-> Call(p).key, status |-> "COMPLETED", ver |-> 1,
                           qty |-> Call(p).qty, issued |-> Call(p).qty > 0]
  OBVIOUS
<1>3. row \in Row["orders"] /\ row.by = unit[p].calls.key
  <2>1. unit[p].calls.qty \in Nat /\ unit[p].calls.key \in STRING
    BY <1>0, <1>1, RequestFacts
  <2> QED BY <1>2, <2>1 DEF Row, Call
<1>4. InsertCoded(p, "orders", row, unit[p])
  BY <1>2 DEF InsertSale
<1>5. Fills(Program[unit[p].calls.op][unit[p].pc], "orders") /\ "orders" \in Coded
  BY <1>1 DEF Fills, Coded
<1>6. ASSUME NEW v, Inserted(unit[p], v, "orders", row) PROVE Noted(v, db) /\ Backed(v, db)
  <2>1. After(unit[p], v) /\ v.seen = unit[p].seen /\ v.due = unit[p].due
    BY <1>6 DEF Inserted
  <2>2. v.new["pays"] = unit[p].new["pays"]
    <3>1. "pays" \in DOMAIN unit[p].new
      BY ContextFacts DEF Fit, Tables
    <3> QED BY <1>6, <3>1 DEF Inserted
  <2> QED BY <1>0, <1>1, <2>1, <2>2, GoesAlong
<1> QED BY <1>3, <1>4, <1>5, <1>6, InsertProgress

\* issues its stock,
LEMMA IssueSaleStatement ==
  ASSUME NEW p, Context(p), At(p, "issueSale"), IssueSale(p)
  PROVE  Progress(p)
<1>0. unit[p].calls \in Request
  BY ContextFacts
<1>1. PICK x \in Int : x = -Call(p).qty
  <2>1. Call(p).qty \in Int
    BY <1>0, RequestFacts DEF Call
  <2> QED BY <2>1
<1>2. Len(Rows(p, "orders")) \in Nat
  <2>1. "orders" \in Tables
    BY DEF Tables
  <2>2. Rows(p, "orders") \in Seq(Row["orders"])
    BY ZenonT(40), <2>1, RowsTyped DEF Reads
  <2> QED BY <2>2
<1>3. PICK on \in Origins \X Nat : on = <<"orders", Len(Rows(p, "orders"))>> /\ on[1] # "counts"
  <2>1. <<"orders", Len(Rows(p, "orders"))>> \in Origins \X Nat /\ <<"orders", Len(Rows(p, "orders"))>>[1] # "counts"
    BY <1>2 DEF Origins
  <2> QED BY <2>1
<1>4. unit[p].calls.op = "sale" /\ unit[p].calls.qty \in Nat
  <2>1. unit[p].calls.op = "sale"
    BY AtPlace DEF Place
  <2> QED BY <1>0, <2>1, RequestFacts
<1>5. CASE unit[p].calls.qty = 0
  <2>1. Becomes(p, Then(unit[p]))
    BY <1>5 DEF IssueSale, Call
  <2>2. 0 \in Rights(unit[p].calls)["ledger"]
    BY <1>4, <1>5 DEF Rights, Keyed
  <2> QED BY <2>1, <2>2, UnmovedPasses
<1>6. CASE unit[p].calls.qty # 0
  <2>1. Move(p, on, <<<<"A", x, "none">>>>)
    BY <1>1, <1>3, <1>6 DEF IssueSale, Call
  <2>2. "issueSale" \in {"move", "issueOrder", "issueSale", "stockReceipt"} /\ unit[p].calls.qty > 0
    BY <1>4, <1>6
  <2> QED BY <1>3, <2>1, <2>2, SingleProgress
<1> QED BY <1>5, <1>6

-----------------------------------------------------------------------------
\* Payments.

\* A table in which a unit has written nothing is read as it is committed.
LEMMA ViewUntouched ==
  ASSUME NEW u, NEW d, Typed(d), NEW t \in Tables, u.new[t] = <<>>, \A k \in DOMAIN u.set : k[1] # t
  PROVE  View(u, d)[t] = d[t]
<1>1. d[t] \in Seq(Row[t])
  BY DEF Typed
<1>2. \A i \in 1..Len(d[t]) : <<t, i>> \notin DOMAIN u.set
  <2>1. \A i \in 1..Len(d[t]) : <<t, i>>[1] = t
    OBVIOUS
  <2> QED BY <2>1
<1>3. Over(u, d, t) = d[t]
  <2>1. PICK c, R : c = d[t] /\ R = Row[t] /\ c \in Seq(R)
    BY <1>1
  <2>2. Over(u, d, t) = [i \in 1..Len(c) |-> c[i]]
    <3>1. \A i \in 1..Len(c) : (IF <<t, i>> \in DOMAIN u.set THEN u.set[<<t, i>>] ELSE d[t][i]) = c[i]
      BY <1>2, <2>1
    <3> QED BY <2>1, <3>1 DEF Over
  <2>3. c = [i \in 1..Len(c) |-> c[i]]
    BY ONLY <2>1
  <2> QED BY <2>1, <2>2, <2>3
<1>4. d[t] \o <<>> = d[t]
  BY <1>1
<1> QED BY ZenonT(40), <1>3, <1>4, ViewIs

\* The net of an order is a number.
LEMMA NetType ==
  ASSUME NEW pays \in Seq(Row.pays), NEW order
  PROVE  Net(pays, order) \in Int
<1>1. ASSUME NEW kind PROVE Verified(pays, order, kind) \in Int
  <2>1. PICK R, w : R = Row.pays /\ w = Settled(order, kind)
    OBVIOUS
  <2>2. w \in [R -> Int] /\ pays \in Seq(R) /\ Verified(pays, order, kind) = Weigh(pays, w)
    BY <2>1, VerifiedWeighs
  <2>3. Weigh(pays, w) \in Int
    BY ONLY <2>2, WeighType
  <2> QED BY <2>2, <2>3
<1> QED BY <1>1 DEF Net

\* A pending payment on an order that is there is backed.
LEMMA PaymentBacked ==
  ASSUME NEW u, NEW v, NEW d, NEW n, Ready(u, d, n), NEW row, Inserted(u, v, "pays", row),
         u.new["pays"] = <<>>, row.status = "PENDING", row.order \in 1..Len(View(u, d).orders),
         ~Past(v, {"verify"}, 2)
  PROVE  Backed(v, d)
<1>1. Fit(u, d, n) /\ Typed(d)
  BY ReadyFacts
<1>2. "orders" \in Tables
  BY DEF Tables
<1>3. Len(d["orders"]) \in Nat
  <2>1. d["orders"] \in Seq(Row["orders"])
    BY <1>1, <1>2 DEF Typed
  <2> QED BY <2>1
<1>4. Agree(u, v, "orders")
  <2>1. v.new["orders"] = u.new["orders"] /\ v.set = u.set
    BY <1>1, <1>2 DEF Inserted, Fit
  <2> QED BY <2>1 DEF Agree
<1>5. View(v, d)["orders"] = View(u, d)["orders"]
  BY ONLY <1>2, <1>3, <1>4, ViewSame
<1>6. v.new["pays"] = <<row>>
  BY DEF Inserted
<1>7. \A i \in 1..Len(v.new["pays"]) : v.new["pays"][i] = row
  BY <1>6
<1> QED BY <1>5, <1>7 DEF Backed

\* A sale records its payment as pending.
LEMMA PaySaleStatement ==
  ASSUME NEW p, Context(p), At(p, "paySale"), InsertSalePayment(p)
  PROVE  Progress(p)
<1>0. /\ Ready(unit[p], db, now) /\ unit[p].calls \in Request /\ Typed(db)
      /\ Fit(unit[p], db, now) /\ Written(unit[p])
  BY ContextFacts
<1>1. /\ Program[unit[p].calls.op][unit[p].pc] = "paySale"
      /\ unit[p].calls.op = "sale" /\ unit[p].pc = 3
  BY AtPlace DEF Place
<1>2. PICK r : r = Rows(p, "orders")
  OBVIOUS
<1>3. r = View(unit[p], db)["orders"] /\ Len(r) \in Nat /\ Len(r) >= 1
  <2>1. "orders" \in Tables /\ "orders" \in Keyed
    BY DEF Tables, Keyed
  <2>2. r = View(unit[p], db)["orders"] /\ Reads(r, unit[p], db, "orders")
    BY <1>2, <2>1, RowsTyped
  <2>3. Len(unit[p].new["orders"]) = 1
    <3>1. Len(unit[p].new["orders"]) \in Rights(unit[p].calls)["orders"]
      BY <1>0, <1>1, <2>1 DEF Written, Slot
    <3> QED BY <1>1, <3>1 DEF Rights, Keyed
  <2> QED BY <2>2, <2>3 DEF Reads
<1>4. PICK row : row = Payment(Call(p), Len(r), "PAYMENT")
  OBVIOUS
<1>5. row \in Row["pays"] /\ row.by = unit[p].calls.key /\ row.status = "PENDING" /\ row.order = Len(r)
  <2>1. unit[p].calls.qty \in Nat /\ unit[p].calls.key \in STRING
    BY <1>0, <1>1, RequestFacts
  <2> QED BY <1>3, <1>4, <2>1 DEF Row, Call, Payment
<1>6. InsertCoded(p, "pays", row, unit[p])
  BY <1>2, <1>4 DEF InsertSalePayment
<1>7. Fills(Program[unit[p].calls.op][unit[p].pc], "pays") /\ "pays" \in Coded
  BY <1>1 DEF Fills, Coded
<1>8. ASSUME NEW v, Inserted(unit[p], v, "pays", row) PROVE Noted(v, db) /\ Backed(v, db)
  <2>1. v.calls = unit[p].calls
    BY <1>8 DEF Inserted, After
  <2>2. Noted(v, db)
    BY <1>1, <2>1, NotedNone
  <2>3. unit[p].new["pays"] = <<>>
    BY <1>0, <1>1, NoPays
  <2>4. row.order \in 1..Len(View(unit[p], db).orders)
    BY <1>3, <1>5
  <2>5. ~Past(v, {"verify"}, 2)
    BY <1>1, <2>1 DEF Past
  <2>6. Backed(v, db)
    BY <1>0, <1>5, <1>8, <2>3, <2>4, <2>5, PaymentBacked
  <2> QED BY <2>2, <2>6
<1> QED BY <1>5, <1>6, <1>7, <1>8, InsertProgress

\* An order that is paid is read, or refused.
LEMMA ReadPayableStatement ==
  ASSUME NEW p, Context(p), At(p, "readPayable"), ReadPayable(p)
  PROVE  Progress(p)
<1>0. Shaped(unit[p])
  BY ContextFacts
<1>1. /\ Program[unit[p].calls.op][unit[p].pc] = "readPayable"
      /\ unit[p].calls.op \in {"pay", "refund"} /\ unit[p].pc = 1
  BY AtPlace DEF Place
<1>2. PICK v : v = Then(unit[p])
  OBVIOUS
<1>3. Refuse(p) \/ (Exists(p, "orders", unit[p].calls.on) /\ Becomes(p, v))
  BY <1>2 DEF ReadPayable, Call
<1>4. CASE Exists(p, "orders", unit[p].calls.on) /\ Becomes(p, v)
  <2>1. Rows(p, "orders") = db["orders"] /\ unit[p].new = NoRows
    <3>1. "orders" \in Tables
      BY DEF Tables
    <3> QED BY <1>1, <3>1, ContextFirst
  <2>2. unit[p].calls.on \in 1..Len(db.orders)
    BY <1>4, <2>1 DEF Exists
  <2>3. /\ Shaped(v) /\ v.pc = unit[p].pc + 1 /\ v.calls = unit[p].calls /\ v.run = unit[p].run
        /\ v.at = unit[p].at /\ v.seen = unit[p].seen /\ v.new = unit[p].new /\ v.set = unit[p].set
    <3>1. v = Then(unit[p]) /\ Shaped(unit[p])
      BY <1>0, <1>2
    <3> QED BY ONLY <3>1, ThenFields
  <2>4. After(unit[p], v)
    BY <2>3 DEF After
  <2>5. \A s \in Keyed : ~Fills(Program[unit[p].calls.op][unit[p].pc], s)
    BY <1>1 DEF Fills
  <2>6. Noted(v, db)
    BY <1>1, <2>2, <2>3 DEF Noted, Past
  <2>7. Backed(v, db)
    <3>1. v.new["pays"] = <<>>
      BY <2>1, <2>3 DEF NoRows, Tables
    <3>2. ~Past(v, {"verify"}, 2)
      BY <1>1, <2>3 DEF Past
    <3> QED BY <3>1, <3>2, BackedNone
  <2> QED BY <1>4, <2>3, <2>4, <2>5, <2>6, <2>7, PassProgress
<1> QED BY <1>3, <1>4 DEF Progress

\* A payment, or a refund, is recorded as pending.
LEMMA RecordStatement ==
  ASSUME NEW p, Context(p), At(p, "recordPayment"), RecordPayment(p)
  PROVE  Progress(p)
<1>0. /\ Ready(unit[p], db, now) /\ unit[p].calls \in Request /\ Noted(unit[p], db)
      /\ unit[p].pc \in Nat
  BY ContextFacts
<1>1. /\ Program[unit[p].calls.op][unit[p].pc] = "recordPayment"
      /\ unit[p].calls.op \in {"pay", "refund"} /\ unit[p].pc = 2
  BY AtPlace DEF Place
<1>2. PICK kind : kind = (IF Call(p).op = "pay" THEN "PAYMENT" ELSE "REFUND") /\ kind \in {"PAYMENT", "REFUND"}
  OBVIOUS
<1>3. PICK row : row = Payment(Call(p), Call(p).on, kind)
  OBVIOUS
<1>4. row \in Row["pays"] /\ row.by = unit[p].calls.key /\ row.status = "PENDING" /\ row.order = unit[p].calls.on
  <2>1. unit[p].calls.qty \in Nat /\ unit[p].calls.key \in STRING /\ unit[p].calls.on \in Nat
    BY <1>0, <1>1, RequestFacts
  <2> QED BY <1>2, <1>3, <2>1 DEF Row, Call, Payment
<1>5. unit[p].calls.on \in 1..Len(View(unit[p], db)["orders"])
  <2>1. unit[p].calls.on \in 1..Len(db["orders"])
    BY <1>0, <1>1 DEF Noted, Past
  <2>2. "orders" \in Tables
    BY DEF Tables
  <2>3. Reads(View(unit[p], db)["orders"], unit[p], db, "orders")
    BY <2>2, RowsTyped
  <2> QED BY ZenonT(40), <2>1, <2>3 DEF Reads
<1>6. InsertCoded(p, "pays", row, unit[p])
  BY <1>2, <1>3 DEF RecordPayment
<1>7. Fills(Program[unit[p].calls.op][unit[p].pc], "pays") /\ "pays" \in Coded
  BY <1>1 DEF Fills, Coded
<1>8. ASSUME NEW v, Inserted(unit[p], v, "pays", row) PROVE Noted(v, db) /\ Backed(v, db)
  <2>1. v.calls = unit[p].calls /\ After(unit[p], v) /\ v.seen = unit[p].seen /\ v.due = unit[p].due
    BY <1>8 DEF Inserted, After
  <2>2. Noted(v, db)
    BY <1>0, <1>1, <2>1, NotedStep
  <2>3. unit[p].new["pays"] = <<>>
    BY <1>0, <1>1, NoPays
  <2>4. row.order \in 1..Len(View(unit[p], db).orders)
    BY <1>4, <1>5
  <2>5. ~Past(v, {"verify"}, 2)
    BY <1>1, <2>1 DEF Past
  <2>6. Backed(v, db)
    BY <1>0, <1>4, <1>8, <2>3, <2>4, <2>5, PaymentBacked
  <2> QED BY <2>2, <2>6
<1> QED BY <1>4, <1>6, <1>7, <1>8, InsertProgress

\* A pending payment is read, or refused.
LEMMA ReadPaymentStatement ==
  ASSUME NEW p, Context(p), At(p, "readPayment"), ReadPayment(p)
  PROVE  Progress(p)
<1>0. Ready(unit[p], db, now)
  BY ContextFacts
<1>1. /\ Program[unit[p].calls.op][unit[p].pc] = "readPayment"
      /\ unit[p].calls.op \in {"verify", "reject"} /\ unit[p].pc = 1
  BY AtPlace DEF Place
<1>2. PICK allowed : allowed = {"PENDING"} /\ ReadDocument(p, "pays", allowed)
  BY DEF ReadPayment
<1>3. \A s \in Keyed : ~Fills(Program[unit[p].calls.op][unit[p].pc], s)
  BY <1>1 DEF Fills
<1>4. "pays" \in Tables
  BY SMTT(40) DEF Tables
<1>5. ASSUME NEW v, NEW row, Seen(v, unit[p], row), unit[p].calls.on \in 1..Len(db["pays"]),
             row = db["pays"][unit[p].calls.on], row \in Row["pays"], row.status \in allowed
      PROVE  Noted(v, db)
  <2>1. v.calls = unit[p].calls /\ v.seen = row
    BY <1>5 DEF Seen
  <2>2. row.ver \in Nat
    BY SMTT(40), <1>5 DEF Row
  <2>3. Saw(v, db.pays)
    BY SMTT(40), <1>5, <2>1, <2>2 DEF Saw
  <2>4. row.order \in 1..Len(db.orders)
    BY ZenonT(40), <1>0, <1>5 DEF Ready, Sound, Refers
  <2> QED BY <1>1, <1>2, <1>5, <2>1, <2>3, <2>4 DEF Noted, Past
<1> QED BY <1>1, <1>2, <1>3, <1>4, <1>5, ReadDocumentProgress

\* A unit that verifies or rejects reads the payments as they are committed until it has
\* settled its own.
LEMMA PaysUntouched ==
  ASSUME NEW p, Context(p),
         \/ unit[p].calls.op = "verify" /\ unit[p].pc \in {2, 3}
         \/ unit[p].calls.op = "reject" /\ unit[p].pc = 2
  PROVE  /\ Rows(p, "pays") = db["pays"] /\ unit[p].new["pays"] = <<>>
         /\ \A k \in DOMAIN unit[p].set : k[1] # "pays"
<1>0. /\ Ready(unit[p], db, now) /\ Typed(db) /\ Changed(unit[p], db)
  BY ContextFacts
<1>1. "pays" \in Tables
  BY DEF Tables
<1>2. unit[p].new["pays"] = <<>>
  BY <1>0, NoPays
<1>3. \A k \in DOMAIN unit[p].set : k[1] # "pays"
  <2>1. ~Past(unit[p], {"verify"}, 3) /\ ~Past(unit[p], {"reject"}, 2)
    BY DEF Past
  <2> QED BY <1>0, <2>1 DEF Changed
<1>4. View(unit[p], db)["pays"] = db["pays"]
  BY <1>0, <1>1, <1>2, <1>3, ViewUntouched
<1> QED BY <1>1, <1>2, <1>3, <1>4, RowsView

\* A refund's ceiling under the lock of its order.
LEMMA CeilingStatement ==
  ASSUME NEW p, Context(p), At(p, "ceiling"), CeilingOfRefund(p)
  PROVE  Progress(p)
<1>0. /\ Shaped(unit[p]) /\ Ready(unit[p], db, now) /\ Noted(unit[p], db) /\ Typed(db) /\ unit[p].pc \in Nat
  BY ContextFacts
<1>1. /\ Program[unit[p].calls.op][unit[p].pc] = "ceiling"
      /\ unit[p].calls.op = "verify" /\ unit[p].pc = 2
  BY AtPlace DEF Place
<1>2. \A t \in Keyed : ~Fills(Program[unit[p].calls.op][unit[p].pc], t)
  BY <1>1 DEF Fills
<1>3. PICK y, o, h :
        y = unit[p].seen /\ o = y.order /\ h = Rows(p, "orders")[o]
  OBVIOUS
<1>4. y \in Row.pays /\ o \in 1..Len(db["orders"])
  BY <1>0, <1>1, <1>3 DEF Noted, Past
<1>5. Rows(p, "pays") = db["pays"] /\ unit[p].new["pays"] = <<>>
  BY <1>1, PaysUntouched
<1>6. CASE y.kind = "PAYMENT"
  <2>1. PICK v : v = Then(unit[p])
    OBVIOUS
  <2>2. /\ Shaped(v) /\ v.pc = unit[p].pc + 1 /\ v.calls = unit[p].calls /\ v.run = unit[p].run /\ v.at = unit[p].at
        /\ v.seen = unit[p].seen /\ v.due = unit[p].due /\ v.new = unit[p].new /\ v.set = unit[p].set
    <3>1. v = Then(unit[p]) /\ Shaped(unit[p])
      BY <1>0, <2>1
    <3> QED BY ONLY <3>1, ThenFields
  <2>3. After(unit[p], v) /\ Becomes(p, v)
    BY <1>1, <1>3, <1>6, <2>1, <2>2 DEF After, CeilingOfRefund, Call
  <2>4. Noted(v, db)
    BY <1>0, <1>1, <2>2, <2>3, NotedStep
  <2>5. Backed(v, db)
    <3>1. v.new["pays"] = <<>> /\ v.seen.kind # "REFUND"
      BY <1>3, <1>5, <1>6, <2>2
    <3> QED BY <3>1 DEF Backed
  <2> QED BY <1>2, <2>2, <2>3, <2>4, <2>5, PassProgress
<1>7. CASE y.kind # "PAYMENT"
  <2>1. /\ ~LockedByPeer(p, "orders", o)
        /\ \/ Refuse(p)
           \/ /\ ~(Net(db["pays"], o) < y.qty)
              /\ Becomes(p, Then(Updated(unit[p], "orders", o, h)))
    BY <1>1, <1>3, <1>5, <1>7 DEF CeilingOfRefund, Call
  <2>2. CASE /\ ~(Net(db["pays"], o) < y.qty)
             /\ Becomes(p, Then(Updated(unit[p], "orders", o, h)))
    <3>1. h \in Row["orders"] /\ h.by = db["orders"][o].by
      <4>1. "orders" \in Tables /\ "orders" \in Keyed
        BY DEF Tables, Keyed
      <4> QED BY ZenonT(40), <1>3, <1>4, <4>1, DocumentRow DEF RowOf
    <3>a. h = db["orders"][o]
      <4>1. PICK a : a = db["orders"][o]
        OBVIOUS
      <4>2. h = IF <<"orders", o>> \in DOMAIN unit[p].set THEN unit[p].set[<<"orders", o>>] ELSE a
        <5>1. "orders" \in Tables
          BY DEF Tables
        <5>2. Reads(Rows(p, "orders"), unit[p], db, "orders")
          BY <5>1, RowsTyped
        <5> QED BY ZenonT(40), <1>3, <1>4, <4>1, <5>2 DEF Reads
      <4>3. CASE <<"orders", o>> \in DOMAIN unit[p].set
        <5>1. Changed(unit[p], db)
          BY ContextFacts
        <5>2. Marks(unit[p], a, h, "orders", o)
          BY <4>1, <4>2, <4>3, <5>1 DEF Changed
        <5> QED BY <1>1, <4>1, <5>2 DEF Marks
      <4> QED BY <4>1, <4>2, <4>3
    <3>2. Cas(p, "orders", o, TRUE, h, FALSE)
      BY <2>1, <2>2 DEF Cas
    <3>3. Net(db["pays"], o) >= y.qty
      <4>1. "pays" \in Tables
        BY DEF Tables
      <4>2. db["pays"] \in Seq(Row["pays"])
        BY <1>0, <4>1 DEF Typed
      <4>3. Net(db["pays"], o) \in Int
        BY <4>2, NetType
      <4>4. y.qty \in Nat
        BY <1>4 DEF Row
      <4> QED BY <2>2, <4>3, <4>4
    <3>4. ASSUME NEW v, Rewrites(unit[p], v, "orders", o, h), After(unit[p], v), v.due = unit[p].due
          PROVE  Updates(v, db, "orders", o, h) /\ Noted(v, db) /\ Backed(v, db)
      <4>1. Updates(v, db, "orders", o, h)
        <5>1. v.calls.op = "verify"
          BY <1>1, <3>4 DEF After
        <5>2. Marks(v, db["orders"][o], h, "orders", o)
          BY <3>a, <5>1 DEF Marks
        <5> QED BY <3>1, <5>2 DEF Updates
      <4>2. v.new = unit[p].new /\ v.seen = unit[p].seen /\ <<"orders", o>> \in DOMAIN v.set
        BY <3>4 DEF Rewrites
      <4>3. Noted(v, db)
        BY <1>0, <1>1, <3>4, <4>2, NotedStep
      <4>4. Backed(v, db)
        BY <1>3, <1>5, <3>3, <4>2 DEF Backed
      <4> QED BY <4>1, <4>3, <4>4
    <3> QED BY ZenonT(40), <1>2, <1>4, <3>1, <3>2, <3>4, CasProgress
  <2> QED BY <2>1, <2>2 DEF Progress
<1> QED BY <1>6, <1>7

\* A payment is settled as it was seen.
LEMMA SettlePaymentStatement ==
  ASSUME NEW p, Context(p), At(p, "settlePayment"), SettlePayment(p)
  PROVE  Progress(p)
<1>0. /\ Shaped(unit[p]) /\ Ready(unit[p], db, now) /\ Noted(unit[p], db) /\ Typed(db) /\ unit[p].pc \in Nat
      /\ Backed(unit[p], db) /\ Fit(unit[p], db, now)
  BY ContextFacts
<1>1. /\ Program[unit[p].calls.op][unit[p].pc] = "settlePayment"
      /\ \/ unit[p].calls.op = "verify" /\ unit[p].pc = 3
         \/ unit[p].calls.op = "reject" /\ unit[p].pc = 2
  BY AtPlace DEF Place
<1>2. \A t \in Keyed : ~Fills(Program[unit[p].calls.op][unit[p].pc], t)
  BY <1>1 DEF Fills
<1>3. Rows(p, "pays") = db["pays"] /\ unit[p].new["pays"] = <<>>
  BY SMTT(40), <1>1, PaysUntouched
<1>4. PICK status, i, y, h, row :
        /\ status = (IF Call(p).op = "verify" THEN "VERIFIED" ELSE "REJECTED")
        /\ i = unit[p].calls.on /\ y = unit[p].seen /\ h = db["pays"][i]
        /\ row = [h EXCEPT !.status = status, !.ver = @ + 1]
  OBVIOUS
<1>5. Saw(unit[p], db.pays) /\ y \in Row.pays /\ i \in 1..Len(db["pays"])
  <2>1. Past(unit[p], {"verify", "reject"}, 1)
    BY <1>1 DEF Past
  <2>2. Saw(unit[p], db.pays) /\ unit[p].seen \in Row.pays
    BY SMTT(40), <1>0, <2>1 DEF Noted
  <2> QED BY <1>4, <2>2 DEF Saw
<1>6. Cas(p, "pays", i, AsRead(p, "pays"), row, FALSE)
  BY ZenonT(40), <1>3, <1>4 DEF SettlePayment, CloseDocument, Call
<1>7. AsRead(p, "pays") => h = y
  BY <1>3, <1>4, <1>5 DEF AsRead, Saw, Call
<1>8. h \in Row["pays"]
  <2>1. "pays" \in Tables
    BY DEF Tables
  <2>2. db["pays"] \in Seq(Row["pays"])
    BY <1>0, <2>1 DEF Typed
  <2> QED BY <1>4, <1>5, <2>2
<1>9. status \in {"VERIFIED", "REJECTED"} /\ status = (IF unit[p].calls.op = "verify" THEN "VERIFIED" ELSE "REJECTED")
  BY <1>4 DEF Call
<1>10. row \in Row["pays"] /\ row.by = h.by
  <2>1. h \in Row.pays
    BY <1>8
  <2>2. h.ver + 1 \in Nat
    BY <2>1 DEF Row
  <2>3. row = [h EXCEPT !.status = status, !.ver = @ + 1]
    BY <1>4
  <2> QED BY ONLY ZenonT(40), <1>9, <2>1, <2>2, <2>3 DEF Row
<1>11. ASSUME AsRead(p, "pays"), NEW v, Rewrites(unit[p], v, "pays", i, row), After(unit[p], v), v.due = unit[p].due
       PROVE  Updates(v, db, "pays", i, row) /\ Noted(v, db) /\ Backed(v, db)
  <2>1. v.calls = unit[p].calls /\ v.seen = y /\ v.new = unit[p].new /\ DOMAIN unit[p].set \subseteq DOMAIN v.set
        /\ v.pc = unit[p].pc + 1
    BY <1>4, <1>11 DEF Rewrites, After
  <2>2. h = y
    BY <1>7, <1>11
  <2>3. row = [y EXCEPT !.ver = @ + 1, !.status = status]
    <3>1. row = [y EXCEPT !.status = status, !.ver = @ + 1]
      BY <1>4, <2>2
    <3> QED BY ZenonT(40), <1>5, <3>1 DEF Row
  <2>4. Updates(v, db, "pays", i, row)
    <3>1. Past(v, {"verify"}, 3) \/ Past(v, {"reject"}, 2)
      BY <1>0, <1>1, <2>1 DEF Past
    <3>2. row = [v.seen EXCEPT !.ver = @ + 1, !.status = IF v.calls.op = "verify" THEN "VERIFIED" ELSE "REJECTED"]
      BY <1>9, <2>1, <2>3
    <3>3. i = v.calls.on /\ db.pays[i] = v.seen /\ row.by = db["pays"][i].by
      BY ZenonT(40), <1>4, <1>10, <2>1, <2>2
    <3> QED BY <3>1, <3>2, <3>3 DEF Updates
  <2>5. Noted(v, db)
    BY <1>0, <1>1, <1>4, <1>11, <2>1, NotedStep
  <2>6. Backed(v, db)
    <3>1. CASE unit[p].calls.op = "reject"
      <4>1. ~Past(v, {"verify"}, 2)
        BY SMTT(40), <2>1, <3>1 DEF Past
      <4> QED BY <1>3, <2>1, <4>1, BackedNone
    <3>2. CASE unit[p].calls.op = "verify"
      <4>1. "orders" \in Tables /\ "orders" # "pays"
        BY DEF Tables
      <4>2. Len(db["orders"]) \in Nat
        <5>1. db["orders"] \in Seq(Row["orders"])
          BY <1>0, <4>1 DEF Typed
        <5> QED BY <5>1
      <4>3. Agree(unit[p], v, "orders")
        BY <1>11, <4>1, RewriteAgree
      <4>4. View(v, db)["orders"] = View(unit[p], db)["orders"]
        BY ONLY <4>1, <4>2, <4>3, ViewSame
      <4>5. unit[p].pc > 2
        BY <1>1, <3>2
      <4> QED BY <1>0, <1>4, <1>11, <2>1, <4>4, <4>5, BackedStep
    <3> QED BY <1>1, <3>1, <3>2
  <2> QED BY SMTT(40), <2>4, <2>5, <2>6
<1> QED BY ZenonT(40), <1>2, <1>5, <1>6, <1>10, <1>11, CasProgress

-----------------------------------------------------------------------------
\* The statements of purchase orders.

\* A purchase order is read with what has been received of it.
LEMMA ReadPurchaseStatement ==
  ASSUME NEW p, Context(p), At(p, "readPurchase"), ReadPurchase(p)
  PROVE  Progress(p)
<1>1. /\ Program[unit[p].calls.op][unit[p].pc] = "readPurchase"
      /\ unit[p].calls.op \in {"receive", "withdraw", "short"} /\ unit[p].pc = 1
  BY AtPlace DEF Place
<1>2. PICK seen : seen = [Rows(p, "pos")[Call(p).on] EXCEPT !.got = Received(Rows(p, "grns"), Call(p).on)]
  OBVIOUS
<1>3. \/ Refuse(p)
      \/ /\ Exists(p, "pos", unit[p].calls.on)
         /\ Rows(p, "pos")[unit[p].calls.on].status \in {"DRAFT", "SENT"}
         /\ Becomes(p, Then([unit[p] EXCEPT !.seen = seen]))
  BY ZenonT(40), <1>2 DEF ReadPurchase, Call
<1>4. CASE /\ Exists(p, "pos", unit[p].calls.on)
           /\ Rows(p, "pos")[unit[p].calls.on].status \in {"DRAFT", "SENT"}
           /\ Becomes(p, Then([unit[p] EXCEPT !.seen = seen]))
  <2>1. Rows(p, "pos") = db["pos"]
    <3>1. "pos" \in Tables
      BY DEF Tables
    <3> QED BY <1>1, <3>1, ContextFirst
  <2>2. unit[p].calls.on \in 1..Len(db.pos)
    BY <1>4, <2>1 DEF Exists
  <2>3. \A s \in Keyed : ~Fills(Program[unit[p].calls.op][unit[p].pc], s)
    BY <1>1 DEF Fills
  <2>4. ASSUME NEW v, Seen(v, unit[p], seen) PROVE Noted(v, db)
    <3>1. v.calls = unit[p].calls /\ v.seen = seen
      BY <2>4 DEF Seen
    <3>2. PICK a : a = db.pos[unit[p].calls.on]
      OBVIOUS
    <3>3. a \in Row.pos /\ a.status \in {"DRAFT", "SENT"}
      <4>1. Typed(db) /\ "pos" \in Tables
        BY ContextFacts DEF Tables
      <4> QED BY <1>4, <2>1, <2>2, <3>2, <4>1 DEF Typed
    <3>4. a.ver \in Nat
      BY <3>3 DEF Row
    <3>5. seen.ver = a.ver /\ seen.qty = a.qty
      <4>1. PICK g : seen = [a EXCEPT !.got = g]
        BY <1>2, <2>1, <3>2 DEF Call
      <4> QED BY ZenonT(40), <3>3, <4>1 DEF Row
    <3>6. SawOpen(v, db.pos)
      BY <2>2, <3>1, <3>2, <3>3, <3>4, <3>5 DEF SawOpen
    <3> QED BY <1>1, <3>1, <3>6 DEF Noted, Past
  <2> QED BY <1>1, <1>4, <2>3, <2>4, ReadProgress
<1> QED BY <1>3, <1>4 DEF Progress

\* A goods receipt is inserted under its code.
LEMMA InsertReceiptStatement ==
  ASSUME NEW p, Context(p), At(p, "insertReceipt"), InsertReceipt(p)
  PROVE  Progress(p)
<1>0. /\ Ready(unit[p], db, now) /\ unit[p].calls \in Request
  BY ContextFacts
<1>1. /\ Program[unit[p].calls.op][unit[p].pc] = "insertReceipt"
      /\ unit[p].calls.op = "receive" /\ unit[p].pc = 2
  BY AtPlace DEF Place
<1>2. PICK row : row = [by |-> Call(p).key, on |-> Call(p).on, qty |-> Call(p).qty]
  OBVIOUS
<1>3. row \in Row["grns"] /\ row.by = unit[p].calls.key
  <2>1. unit[p].calls.qty \in Nat /\ unit[p].calls.key \in STRING /\ unit[p].calls.on \in Nat
    BY <1>0, <1>1, RequestFacts
  <2> QED BY <1>2, <2>1 DEF Row, Call
<1>4. InsertCoded(p, "grns", row, unit[p])
  BY <1>2 DEF InsertReceipt
<1>5. Fills(Program[unit[p].calls.op][unit[p].pc], "grns") /\ "grns" \in Coded
  BY <1>1 DEF Fills, Coded
<1>6. ASSUME NEW v, Inserted(unit[p], v, "grns", row) PROVE Noted(v, db) /\ Backed(v, db)
  <2>1. After(unit[p], v) /\ v.seen = unit[p].seen /\ v.due = unit[p].due
    BY <1>6 DEF Inserted
  <2>2. v.new["pays"] = unit[p].new["pays"]
    <3>1. "pays" \in DOMAIN unit[p].new
      BY ContextFacts DEF Fit, Tables
    <3> QED BY <1>6, <3>1 DEF Inserted
  <2> QED BY <1>0, <1>1, <2>1, <2>2, GoesAlong
<1> QED BY <1>3, <1>4, <1>5, <1>6, InsertProgress

\* What was received enters the stock.
LEMMA StockReceiptStatement ==
  ASSUME NEW p, Context(p), At(p, "stockReceipt"), StockReceipt(p)
  PROVE  Progress(p)
<1>0. unit[p].calls \in Request
  BY ContextFacts
<1>1. PICK x \in Int : x = Call(p).qty
  <2>1. Call(p).qty \in Int
    BY <1>0, RequestFacts DEF Call
  <2> QED BY <2>1
<1>2. PICK on \in Origins \X Nat : on = <<"pos", Call(p).on>> /\ on[1] # "counts"
  <2>1. <<"pos", Call(p).on>> \in Origins \X Nat /\ <<"pos", Call(p).on>>[1] # "counts"
    BY <1>0, RequestFacts DEF Origins, Call
  <2> QED BY <2>1
<1>3. Move(p, on, <<<<"A", x, "none">>>>)
  BY <1>1, <1>2 DEF StockReceipt
<1>4. /\ "stockReceipt" \in {"move", "issueOrder", "issueSale", "stockReceipt"}
      /\ unit[p].calls.op = "receive"
  BY AtPlace DEF Place
<1> QED BY <1>2, <1>3, <1>4, SingleProgress

\* A purchase order is moved on from the version that was read.
LEMMA ClosePurchaseStatement ==
  ASSUME NEW p, Context(p), At(p, "closePurchase"), ClosePurchase(p)
  PROVE  Progress(p)
<1>0. /\ Ready(unit[p], db, now) /\ Noted(unit[p], db) /\ unit[p].pc \in Nat
  BY ContextFacts
<1>1. /\ Program[unit[p].calls.op][unit[p].pc] = "closePurchase"
      /\ unit[p].calls.op \in {"receive", "withdraw", "short"} /\ unit[p].pc > 1
  BY AtPlace DEF Place
<1>2. unit[p].calls.on \in 1..Len(db["pos"])
  BY <1>0, <1>1 DEF Noted, Past, SawOpen
<1>a. PICK complete, retryable :
        /\ complete = (unit[p].seen.got + Call(p).qty = unit[p].seen.qty)
        /\ retryable = (Call(p).op = "receive")
  OBVIOUS
<1>b. PICK status :
        status = (CASE Call(p).op = "receive"  -> (IF complete THEN "RECEIVED" ELSE "SENT")
                       [] Call(p).op = "withdraw" -> "CANCELLED"
                       [] Call(p).op = "short"    -> "SHORT_CLOSED")
  OBVIOUS
<1>3. PICK i, h, row :
        /\ i = unit[p].calls.on /\ h = Rows(p, "pos")[i]
        /\ row = [h EXCEPT !.status = status, !.ver = @ + 1]
  OBVIOUS
<1>4. Cas(p, "pos", i, AsRead(p, "pos"), row, retryable)
  BY ZenonT(40), <1>a, <1>b, <1>3 DEF ClosePurchase, CloseDocument, Call
<1>5. h \in Row["pos"]
  <2>1. "pos" \in Tables
    BY DEF Tables
  <2> QED BY ZenonT(40), <1>2, <1>3, <2>1, DocumentRow DEF RowOf
<1>6. row \in Row["pos"]
  <2>1. h \in Row.pos
    BY <1>5
  <2>2. h.ver + 1 \in Nat
    BY <2>1 DEF Row
  <2>3. status \in {"RECEIVED", "SENT", "CANCELLED", "SHORT_CLOSED"}
    BY <1>1, <1>b DEF Call
  <2>4. row = [h EXCEPT !.status = status, !.ver = @ + 1]
    BY <1>3
  <2> QED BY ONLY ZenonT(40), <2>1, <2>2, <2>3, <2>4 DEF Row
<1>7. \A t \in Keyed : ~Fills(Program[unit[p].calls.op][unit[p].pc], t)
  BY <1>1 DEF Fills
<1>8. ASSUME AsRead(p, "pos"), NEW v, Rewrites(unit[p], v, "pos", i, row), After(unit[p], v),
             v.due = unit[p].due
      PROVE  Updates(v, db, "pos", i, row) /\ Noted(v, db) /\ Backed(v, db)
  <2>1. PICK u, a : u = unit[p] /\ a = db["pos"][i]
    OBVIOUS
  <2>2. h = a /\ a \in Row["pos"] /\ a.ver \in Nat /\ a.ver = u.seen.ver
    <3>1. "pos" \in {"orders", "pos"} /\ unit[p].calls.op # "verify" /\ i = unit[p].calls.on
      BY <1>1, <1>3
    <3> QED BY ONLY Context(p), <1>2, <1>3, <1>8, <2>1, <3>1, AsReadRow
  <2>3. row.status = PurchaseEnd(u) /\ row.ver = a.ver + 1 /\ row.qty = a.qty
    <3>1. h \in Row.pos /\ row = [h EXCEPT !.status = status, !.ver = @ + 1]
      BY <1>3, <1>5
    <3>2. row.status = status /\ row.ver = h.ver + 1 /\ row.qty = h.qty
      BY ONLY ZenonT(40), <3>1 DEF Row
    <3>3. status = PurchaseEnd(u)
      BY <1>1, <1>a, <1>b, <2>1 DEF PurchaseEnd, Call
    <3> QED BY <2>2, <3>2, <3>3
  <2>4. v.calls = u.calls /\ v.seen = u.seen /\ v.new["pays"] = u.new["pays"]
    BY <1>8, <2>1 DEF Rewrites, After
  <2>5. Marks(v, a, row, "pos", i)
    <3>1. PurchaseEnd(v) = PurchaseEnd(u)
      BY <2>4 DEF PurchaseEnd
    <3> QED BY <1>1, <1>3, <2>1, <2>2, <2>3, <2>4, <3>1 DEF Marks
  <2>6. Updates(v, db, "pos", i, row)
    BY <2>1, <2>5 DEF Updates, Keyed
  <2> QED BY <1>0, <1>1, <1>8, <2>1, <2>4, <2>6, GoesAlong
<1>9. i \in 1..Len(db["pos"])
  BY <1>2, <1>3
<1> QED BY ZenonT(40), <1>4, <1>6, <1>7, <1>8, <1>9, CasProgress

-----------------------------------------------------------------------------
\* The statements of work orders.

\* The status a work order's command asks for.
Opens(op, status) ==
  /\ op = "finishWork" => status \in Opened
  /\ op = "stageWork" => status = "DRAFT"
  /\ op = "cancelWork" => status \in Opened \cup {"DRAFT"}

\* A work order is read, or refused.
LEMMA ReadWorkStatement ==
  ASSUME NEW p, Context(p), At(p, "readWork"), ReadWork(p)
  PROVE  Progress(p)
<1>0. Typed(db)
  BY ContextFacts
<1>1. /\ Program[unit[p].calls.op][unit[p].pc] = "readWork"
      /\ unit[p].calls.op \in {"stageWork", "finishWork", "cancelWork"} /\ unit[p].pc = 1
  BY AtPlace DEF Place
<1>2. PICK w : w = Rows(p, "works")[Call(p).on]
  OBVIOUS
<1>3. \/ Refuse(p)
      \/ /\ Exists(p, "works", unit[p].calls.on)
         /\ Opens(unit[p].calls.op, w.status)
         /\ Becomes(p, Then([unit[p] EXCEPT !.seen = w]))
  <2>1. PICK q : q = unit[p].calls
    OBVIOUS
  <2>2. \/ Refuse(p)
        \/ /\ Exists(p, "works", q.on)
           /\ CASE q.op = "stageWork"  -> w.status = "DRAFT"
                [] q.op = "finishWork" -> w.status \in Opened /\ RunAllowed(q, w)
                [] q.op = "cancelWork" -> w.status \in Opened \cup {"DRAFT"}
           /\ Becomes(p, Then([unit[p] EXCEPT !.seen = w]))
    BY ZenonT(40), <1>2, <2>1 DEF ReadWork, Call
  <2> QED BY <1>1, <2>1, <2>2 DEF Opens
<1>4. CASE /\ Exists(p, "works", unit[p].calls.on)
           /\ Opens(unit[p].calls.op, w.status)
           /\ Becomes(p, Then([unit[p] EXCEPT !.seen = w]))
  <2>0. "works" \in Tables
    BY DEF Tables
  <2>1. Rows(p, "works") = db["works"] /\ db["works"] \in Seq(Row["works"])
    BY <1>0, <1>1, <2>0, ContextFirst DEF Typed
  <2>2. unit[p].calls.on \in 1..Len(db["works"]) /\ w = db["works"][unit[p].calls.on]
    BY <1>2, <1>4, <2>1 DEF Exists, Call
  <2>3. w \in Row["works"]
    BY <2>1, <2>2
  <2>4. \A s \in Keyed : ~Fills(Program[unit[p].calls.op][unit[p].pc], s)
    BY <1>1 DEF Fills
  <2>5. ASSUME NEW v, Seen(v, unit[p], w) PROVE Noted(v, db)
    <3>1. v.calls = unit[p].calls /\ v.seen = w
      BY <2>5 DEF Seen
    <3>2. w.ver \in Nat
      BY <2>3 DEF Row
    <3>3. Saw(v, db.works)
      BY <2>2, <3>1, <3>2 DEF Saw
    <3> QED BY <1>1, <1>4, <2>3, <3>1, <3>3 DEF Noted, Past, Opens
  <2> QED BY <1>1, <1>4, <2>4, <2>5, ReadProgress
<1> QED BY <1>3, <1>4 DEF Progress

\* A transfer moves one product between two places.
LEMMA MovedItems ==
  ASSUME NEW prod \in {"A", "F"}, NEW n \in Int, NEW at \in Sites
  PROVE  Moved(prod, n, at) \in Seq(Item) /\ Len(Moved(prod, n, at)) = IF n = 0 THEN 0 ELSE 1
<1>1. CASE n = 0
  <2>1. <<>> \in Seq(Item)
    BY EmptySeq
  <2> QED BY <1>1, <2>1 DEF Moved
<1>2. CASE n # 0
  <2>1. PICK R, y : R = Item /\ y = <<prod, n, at>>
    OBVIOUS
  <2>2. y \in R
    <3>1. <<prod, n, at>> \in {"A", "F"} \X Int \X Sites
      OBVIOUS
    <3> QED BY <2>1, <3>1 DEF Item
  <2>3. <<y>> \in Seq(R)
    BY ONLY <2>2, OneRow
  <2> QED BY <1>2, <2>1, <2>3 DEF Moved
<1> QED BY <1>1, <1>2

\* Items after items are items.
LEMMA JoinedItems ==
  ASSUME NEW R, NEW a \in Seq(R), NEW b \in Seq(R)
  PROVE  a \o b \in Seq(R) /\ Len(a \o b) = Len(a) + Len(b) /\ Len(a) \in Nat /\ Len(b) \in Nat
OBVIOUS

\* A transfer is two movements.
LEMMA TransferItems ==
  ASSUME NEW n \in Int, NEW from \in Sites, NEW to \in Sites
  PROVE  Transfer(n, from, to) \in Seq(Item) /\ Len(Transfer(n, from, to)) = IF n = 0 THEN 0 ELSE 2
<1>1. PICK a, b : a = Moved("A", -n, from) /\ b = Moved("A", n, to)
  OBVIOUS
<1>2. a \in Seq(Item) /\ Len(a) = IF n = 0 THEN 0 ELSE 1
  <2>1. -n \in Int /\ (-n = 0 <=> n = 0)
    OBVIOUS
  <2> QED BY ZenonT(40), <1>1, <2>1, MovedItems
<1>3. b \in Seq(Item) /\ Len(b) = IF n = 0 THEN 0 ELSE 1
  BY <1>1, MovedItems
<1>4. a \o b \in Seq(Item) /\ Len(a \o b) = Len(a) + Len(b)
  BY ONLY ZenonT(40), <1>2, <1>3, JoinedItems
<1> QED BY <1>1, <1>2, <1>3, <1>4 DEF Transfer

\* The movements of a work order are as many as its request has a right to.
LEMMA WorkedItems ==
  ASSUME NEW q \in Request, q.op = "finishWork", NEW w \in Row.works, w.status \in Opened
  PROVE  Worked(q, w) \in Seq(Item) /\ Len(Worked(q, w)) \in 1..6
<1>1. PICK m \in Nat, s \in Nat : m = q.qty /\ s = q.scrap
  BY RequestFacts
<1>2. PICK staged \in Nat : staged = (IF w.kind = "kitting" THEN w.gross ELSE w.issued) /\ staged > 0
  <2>1. w.gross \in Nat /\ w.gross > 0 /\ w.issued \in Nat /\ w.issued > 0
    BY DEF Row
  <2>2. w.kind = "kitting" \/ w.kind # "kitting"
    OBVIOUS
  <2> QED BY <2>1, <2>2
<1>3. "shop" \in Sites /\ "goods" \in Sites /\ "raw" \in Sites
  BY DEF Sites
<1>4. PICK used, made, back :
        /\ used = (IF w.kind = "kitting" THEN Moved("A", -(m + s), "shop")
                   ELSE Moved("A", -m, "shop") \o Moved("A", -s, "shop"))
        /\ made = Moved("F", m, "goods") /\ back = Transfer(staged - m - s, "shop", "raw")
  OBVIOUS
<1>5. used \in Seq(Item) /\ Len(used) \in 0..2 /\ (m + s > 0 => Len(used) > 0)
  <2>1. CASE w.kind = "kitting"
    <3>1. -(m + s) \in Int /\ (-(m + s) = 0 <=> ~(m + s > 0))
      OBVIOUS
    <3>2. used \in Seq(Item) /\ Len(used) = IF -(m + s) = 0 THEN 0 ELSE 1
      BY ZenonT(40), <1>3, <1>4, <2>1, <3>1, MovedItems
    <3> QED BY <3>1, <3>2
  <2>2. CASE w.kind # "kitting"
    <3>1. PICK a, b : a = Moved("A", -m, "shop") /\ b = Moved("A", -s, "shop")
      OBVIOUS
    <3>2. -m \in Int /\ -s \in Int
      OBVIOUS
    <3>3. a \in Seq(Item) /\ Len(a) = IF -m = 0 THEN 0 ELSE 1
      BY ZenonT(40), <1>3, <3>1, <3>2, MovedItems
    <3>4. b \in Seq(Item) /\ Len(b) = IF -s = 0 THEN 0 ELSE 1
      BY ZenonT(40), <1>3, <3>1, <3>2, MovedItems
    <3>5. a \o b \in Seq(Item) /\ Len(a \o b) = Len(a) + Len(b)
      BY ONLY ZenonT(40), <3>3, <3>4, JoinedItems
    <3>6. used = a \o b
      BY <1>4, <2>2, <3>1
    <3> QED BY <3>3, <3>4, <3>5, <3>6
  <2> QED BY <2>1, <2>2
<1>6. made \in Seq(Item) /\ Len(made) \in 0..1
  <2>1. m \in Int
    OBVIOUS
  <2>2. made \in Seq(Item) /\ Len(made) = IF m = 0 THEN 0 ELSE 1
    BY <1>3, <1>4, <2>1, MovedItems
  <2> QED BY <2>2
<1>7. back \in Seq(Item) /\ Len(back) \in {0, 2} /\ (m + s = 0 => Len(back) = 2)
  <2>1. staged - m - s \in Int /\ (m + s = 0 => staged - m - s # 0)
    <3>1. staged > 0
      BY <1>2
    <3> QED BY ONLY <3>1, m \in Nat, s \in Nat, staged \in Nat
  <2>2. back \in Seq(Item) /\ Len(back) = IF staged - m - s = 0 THEN 0 ELSE 2
    BY ZenonT(40), <1>3, <1>4, <2>1, TransferItems
  <2> QED BY <2>1, <2>2
<1>8. PICK a : a = used \o made /\ a \in Seq(Item) /\ Len(a) = Len(used) + Len(made)
  <2>1. used \in Seq(Item) /\ made \in Seq(Item)
    BY <1>5, <1>6
  <2>2. used \o made \in Seq(Item) /\ Len(used \o made) = Len(used) + Len(made)
    BY ONLY <2>1, JoinedItems
  <2> QED BY ZenonT(40), <2>2
<1>9. PICK b : b = a \o back /\ b \in Seq(Item) /\ Len(b) = Len(a) + Len(back)
  <2>1. a \in Seq(Item) /\ back \in Seq(Item)
    BY SMTT(40), <1>7, <1>8
  <2>2. a \o back \in Seq(Item) /\ Len(a \o back) = Len(a) + Len(back)
    BY ONLY <2>1, JoinedItems
  <2> QED BY <2>2
<1>10. Worked(q, w) = b
  BY <1>1, <1>2, <1>4, <1>8, <1>9 DEF Worked
<1>11. Len(b) \in 1..6
  <2>1. m + s > 0 \/ m + s = 0
    OBVIOUS
  <2>2. PICK x, y, z : x = Len(used) /\ y = Len(made) /\ z = Len(back)
    OBVIOUS
  <2>3. x \in 0..2 /\ y \in 0..1 /\ z \in {0, 2} /\ (x > 0 \/ z = 2)
    BY <1>5, <1>6, <1>7, <2>1, <2>2
  <2>4. Len(b) = x + y + z
    BY <1>8, <1>9, <2>2
  <2> QED BY ONLY <2>3, <2>4
<1> QED BY <1>9, <1>10, <1>11

\* The movements of a work order are posted, or refused.
LEMMA MoveWorkStatement ==
  ASSUME NEW p, Context(p), At(p, "moveWork"), MoveWork(p)
  PROVE  Progress(p)
<1>0. /\ Ready(unit[p], db, now) /\ Noted(unit[p], db) /\ unit[p].calls \in Request
  BY ContextFacts
<1>1. /\ Program[unit[p].calls.op][unit[p].pc] = "moveWork"
      /\ unit[p].calls.op \in {"stageWork", "finishWork", "cancelWork"} /\ unit[p].pc = 2
  BY AtPlace DEF Place
<1>2. PICK q, w, list : /\ q = unit[p].calls /\ w = unit[p].seen
                        /\ list = CASE q.op = "stageWork"  -> Transfer(w.gross, "raw", "shop")
                                    [] q.op = "finishWork" -> Worked(q, w)
                                    [] q.op = "cancelWork" -> Transfer(PutBack(w), "shop", "raw")
  OBVIOUS
<1>3. w \in Row.works /\ (q.op = "finishWork" => w.status \in Opened)
  BY <1>0, <1>1, <1>2 DEF Noted, Past
<1>4. w.gross \in Nat /\ w.gross > 0 /\ PutBack(w) \in Int
  <2>1. w.gross \in Nat /\ w.gross > 0 /\ w.issued \in Nat /\ w.made \in Nat /\ w.scrapped \in Nat
    BY <1>3 DEF Row
  <2>2. w.issued - w.made - w.scrapped \in Int
    BY <2>1
  <2> QED BY <2>1, <2>2 DEF PutBack
<1>5. "shop" \in Sites /\ "raw" \in Sites
  BY DEF Sites
<1>6. list \in Seq(Item) /\ Len(list) \in (IF q.op = "finishWork" THEN 1..6 ELSE {0, 2})
  <2>1. CASE q.op = "stageWork"
    <3>1. list = Transfer(w.gross, "raw", "shop") /\ w.gross \in Int
      BY <1>2, <1>4, <2>1
    <3>2. list \in Seq(Item) /\ Len(list) = IF w.gross = 0 THEN 0 ELSE 2
      BY ZenonT(40), <1>5, <3>1, TransferItems
    <3> QED BY <2>1, <3>2
  <2>2. CASE q.op = "finishWork"
    <3>1. list = Worked(q, w) /\ q \in Request
      BY <1>0, <1>2, <2>2
    <3> QED BY <1>3, <2>2, <3>1, WorkedItems
  <2>3. CASE q.op = "cancelWork"
    <3>1. list = Transfer(PutBack(w), "shop", "raw")
      BY <1>2, <2>3
    <3>2. list \in Seq(Item) /\ Len(list) = IF PutBack(w) = 0 THEN 0 ELSE 2
      BY ZenonT(40), <1>4, <1>5, <3>1, TransferItems
    <3> QED BY <2>3, <3>2
  <2> QED BY ZenonT(40), <1>1, <1>2, <2>1, <2>2, <2>3
<1>7. Len(list) \in Rights(unit[p].calls)["ledger"]
  BY <1>1, <1>2, <1>6 DEF Rights, Keyed
<1>8. PICK on \in Origins \X Nat : on = <<"works", q.on>> /\ on[1] # "counts"
  <2>1. <<"works", q.on>> \in Origins \X Nat /\ <<"works", q.on>>[1] # "counts"
    BY <1>0, <1>2, RequestFacts DEF Origins
  <2> QED BY <2>1
<1>9. Move(p, on, list)
  BY ZenonT(40), <1>2, <1>8 DEF MoveWork, Work, Call
<1>10. Fills(Program[unit[p].calls.op][unit[p].pc], "ledger")
  BY <1>1 DEF Fills
<1>11. ASSUME NEW v, After(unit[p], v), v.seen = unit[p].seen, v.due = unit[p].due,
              v.new["pays"] = unit[p].new["pays"]
       PROVE  Noted(v, db) /\ Backed(v, db)
  BY <1>0, <1>1, <1>11, GoesAlong
<1>12. list \in Seq(Item)
  BY <1>6
<1> QED BY <1>7, <1>8, <1>9, <1>10, <1>11, <1>12, MoveProgress

\* A unit reads the work orders as they are committed until it has closed its own.
LEMMA WorksUntouched ==
  ASSUME NEW p, Context(p), unit[p].calls.op \in {"stageWork", "finishWork", "cancelWork"}, unit[p].pc = 3
  PROVE  Rows(p, "works") = db["works"]
<1>0. Typed(db) /\ Changed(unit[p], db) /\ Written(unit[p])
  BY ContextFacts
<1>1. "works" \in Tables
  BY DEF Tables
<1>2. unit[p].new["works"] = <<>>
  BY <1>0 DEF Written
<1>3. \A k \in DOMAIN unit[p].set : k[1] # "works"
  BY <1>0 DEF Changed
<1>4. View(unit[p], db)["works"] = db["works"]
  BY <1>0, <1>1, <1>2, <1>3, ViewUntouched
<1> QED BY <1>1, <1>4, RowsView

\* What a work order becomes is a work order.
LEMMA ClosedWork ==
  ASSUME NEW q \in Request, NEW w \in Row.works, NEW row,
         \/ q.op = "stageWork" /\ row = [[w EXCEPT !.status = "IN_PROGRESS", !.issued = w.gross] EXCEPT !.ver = @ + 1]
         \/ q.op = "finishWork" /\ w.status \in Opened /\ row = [AfterRun(q, w) EXCEPT !.ver = @ + 1]
         \/ q.op = "cancelWork" /\ row = [[w EXCEPT !.status = "CANCELLED"] EXCEPT !.ver = @ + 1]
  PROVE  row \in Row.works /\ row.ver > w.ver /\ row.ver = w.ver + 1 /\ WorkEnd(q, w, row)
<1>1. /\ w \in [by : STRING, kind : {"kitting", "customization"},
                status : {"DRAFT", "IN_PROGRESS", "BLOCKED_SHORTAGE", "COMPLETED", "CANCELLED"},
                ver : Nat, planned : Nat, gross : Nat \ {0}, issued : Nat, made : Nat, scrapped : Nat]
      /\ w.status \in Opened => w.issued > 0
  BY DEF Row
<1>2. w.ver + 1 \in Nat /\ w.ver + 1 > w.ver /\ w.gross > 0
  BY <1>1
<1>3. q.op = "finishWork" => q.qty \in Nat /\ q.scrap \in Nat
  BY RequestFacts
<1>4. /\ row \in [by : STRING, kind : {"kitting", "customization"},
                  status : {"DRAFT", "IN_PROGRESS", "BLOCKED_SHORTAGE", "COMPLETED", "CANCELLED"},
                  ver : Nat, planned : Nat, gross : Nat \ {0}, issued : Nat, made : Nat, scrapped : Nat]
      /\ (row.status \in Opened => row.issued > 0) /\ row.ver = w.ver + 1
      /\ row.kind = w.kind /\ row.gross = w.gross
      /\ q.op = "stageWork" =>
           row.status = "IN_PROGRESS" /\ row.issued = w.gross /\ row.made = w.made /\ row.scrapped = w.scrapped
      /\ q.op = "finishWork" =>
           row.status \in {"BLOCKED_SHORTAGE", "COMPLETED"} /\ row.issued = w.issued /\ row.made = q.qty
      /\ q.op = "cancelWork" =>
           row.status = "CANCELLED" /\ row.issued = w.issued /\ row.made = w.made /\ row.scrapped = w.scrapped
  <2>1. CASE q.op = "stageWork"
    BY ZenonT(40), <1>1, <1>2, <2>1
  <2>2. CASE q.op = "finishWork"
    <3>1. PICK status : status = (IF q.qty < w.planned THEN "BLOCKED_SHORTAGE" ELSE "COMPLETED")
                        /\ status \in {"BLOCKED_SHORTAGE", "COMPLETED"}
      OBVIOUS
    <3>2. row = [[w EXCEPT !.made = q.qty, !.scrapped = q.scrap, !.status = status] EXCEPT !.ver = @ + 1]
      BY <2>2, <3>1 DEF AfterRun
    <3>3. w.issued > 0
      BY <1>1, <2>2
    <3> QED BY ZenonT(40), <1>1, <1>2, <1>3, <2>2, <3>1, <3>2, <3>3
  <2>3. CASE q.op = "cancelWork"
    BY ZenonT(40), <1>1, <1>2, <2>3 DEF Opened
  <2> QED BY <2>1, <2>2, <2>3
<1> QED BY <1>2, <1>4 DEF Row, WorkEnd

\* A work order is moved on from the version that was read.
LEMMA CloseWorkStatement ==
  ASSUME NEW p, Context(p), At(p, "closeWork"), CloseWork(p)
  PROVE  Progress(p)
<1>0. /\ Ready(unit[p], db, now) /\ Noted(unit[p], db) /\ unit[p].pc \in Nat /\ unit[p].calls \in Request
      /\ Typed(db)
  BY ContextFacts
<1>1. /\ Program[unit[p].calls.op][unit[p].pc] = "closeWork"
      /\ unit[p].calls.op \in {"stageWork", "finishWork", "cancelWork"} /\ unit[p].pc = 3
  BY SMTT(40), AtPlace DEF Place
<1>2. PICK q, i, w, after, row :
        /\ q = unit[p].calls /\ i = q.on /\ w = db["works"][i]
        /\ after = (CASE q.op = "stageWork"  -> [w EXCEPT !.status = "IN_PROGRESS", !.issued = w.gross]
                      [] q.op = "finishWork" -> AfterRun(q, w)
                      [] q.op = "cancelWork" -> [w EXCEPT !.status = "CANCELLED"])
        /\ row = [after EXCEPT !.ver = @ + 1]
  OBVIOUS
<1>3. Rows(p, "works") = db["works"]
  BY <1>1, WorksUntouched
<1>4. /\ Saw(unit[p], db.works) /\ i \in 1..Len(db["works"])
      /\ unit[p].calls.op = "finishWork" => unit[p].seen.status \in Opened
  <2>1. /\ Saw(unit[p], db.works)
        /\ unit[p].calls.op = "finishWork" => unit[p].seen.status \in Opened
    BY ONLY SMTT(40), <1>0, <1>1 DEF Noted, Past
  <2>2. unit[p].calls.on \in 1..Len(db.works)
    BY ONLY SMTT(40), <2>1 DEF Saw
  <2>3. i = unit[p].calls.on
    BY ZenonT(40), <1>2
  <2> QED BY <2>1, <2>2, <2>3
<1>5. Cas(p, "works", i, AsRead(p, "works"), row, FALSE)
  BY ZenonT(40), <1>2, <1>3 DEF CloseWork, Call
<1>6. CASE ~AsRead(p, "works")
  BY SMTT(40), <1>5, <1>6 DEF Cas, Progress
<1>7. CASE AsRead(p, "works")
  <2>1. w = unit[p].seen
    BY ZenonT(40), <1>2, <1>3, <1>4, <1>7 DEF AsRead, Saw, Call
  <2>2. w \in Row.works
    <3>1. "works" \in Tables
      BY DEF Tables
    <3>2. db["works"] \in Seq(Row["works"])
      BY <1>0, <3>1 DEF Typed
    <3>3. PICK R, c : R = Row["works"] /\ c = db["works"]
      OBVIOUS
    <3>4. c \in Seq(R) /\ i \in 1..Len(c) /\ w = c[i]
      BY ZenonT(40), <1>2, <1>4, <3>2, <3>3
    <3>5. w \in R
      BY ONLY <3>4
    <3> QED BY <3>3, <3>5
  <2>3. \/ q.op = "stageWork" /\ row = [[w EXCEPT !.status = "IN_PROGRESS", !.issued = w.gross] EXCEPT !.ver = @ + 1]
        \/ q.op = "finishWork" /\ w.status \in Opened /\ row = [AfterRun(q, w) EXCEPT !.ver = @ + 1]
        \/ q.op = "cancelWork" /\ row = [[w EXCEPT !.status = "CANCELLED"] EXCEPT !.ver = @ + 1]
    <3>1. q.op \in {"stageWork", "finishWork", "cancelWork"} /\ (q.op = "finishWork" => w.status \in Opened)
      BY SMTT(40), <1>1, <1>2, <1>4, <2>1
    <3>2. CASE q.op = "stageWork"
      BY ZenonT(40), <1>2, <3>2
    <3>3. CASE q.op = "finishWork"
      BY SMTT(40), <1>2, <3>1, <3>3
    <3>4. CASE q.op = "cancelWork"
      BY ZenonT(40), <1>2, <3>4
    <3> QED BY SMTT(40), <3>1, <3>2, <3>3, <3>4
  <2>4. row \in Row.works /\ row.ver > w.ver /\ row.ver = w.ver + 1 /\ WorkEnd(q, w, row)
    <3>1. q \in Request
      BY ZenonT(40), <1>0, <1>2
    <3> QED BY ONLY ZenonT(40), <2>2, <2>3, <3>1, ClosedWork
  <2>5. \A t \in Keyed : ~Fills(Program[unit[p].calls.op][unit[p].pc], t)
    BY <1>1 DEF Fills
  <2>6. ASSUME NEW v, Rewrites(unit[p], v, "works", i, row), After(unit[p], v), v.due = unit[p].due
        PROVE  Updates(v, db, "works", i, row) /\ Noted(v, db) /\ Backed(v, db)
    <3>1. v.new["pays"] = unit[p].new["pays"] /\ v.seen = unit[p].seen /\ v.pc > 3
      BY SMTT(40), <1>1, <2>6 DEF Rewrites, After
    <3>a. v.calls = unit[p].calls
      BY <2>6 DEF Rewrites, After
    <3>b. Marks(v, w, row, "works", i)
      BY ZenonT(40), <1>1, <1>2, <2>1, <2>4, <3>1, <3>a DEF Marks
    <3>2. Updates(v, db, "works", i, row)
      BY ZenonT(40), <1>2, <2>4, <3>1, <3>b DEF Updates, Keyed
    <3> QED BY <1>0, <1>1, <2>6, <3>1, <3>2, GoesAlong
  <2>7. row \in Row["works"]
    BY <2>4
  <2> QED BY ZenonT(40), <1>4, <1>5, <2>5, <2>6, <2>7, CasProgress
<1> QED BY <1>6, <1>7

-----------------------------------------------------------------------------
\* Every statement of a unit in order leaves it in order.
LEMMA StatementProgress ==
  ASSUME NEW p, Context(p),
         InventoryStatement(p) \/ CommerceStatement(p) \/ DocumentStatement(p)
  PROVE  Progress(p)
<1>1. CASE InventoryStatement(p)
  <2>1. CASE At(p, "releaseHold") /\ EndHold(p, "RELEASED")
    <3>1. /\ "releaseHold" \in {"releaseHold", "convertHold"}
          /\ "RELEASED" = IF "releaseHold" = "releaseHold" THEN "RELEASED" ELSE "CONVERTED"
      OBVIOUS
    <3> QED BY <2>1, <3>1, EndHoldStatement
  <2>2. CASE At(p, "convertHold") /\ EndHold(p, "CONVERTED")
    <3>1. /\ "convertHold" \in {"releaseHold", "convertHold"}
          /\ "CONVERTED" = IF "convertHold" = "releaseHold" THEN "RELEASED" ELSE "CONVERTED"
      OBVIOUS
    <3> QED BY <2>2, <3>1, EndHoldStatement
  <2> QED BY <1>1, <2>1, <2>2, MoveStatement, AskStatement, PlaceStatement, ReadHoldStatement,
             PlaceCommittedStatement, ReadDueStatement, StampStatement, PreviewStatement,
             SettleStatement DEF InventoryStatement
<1>2. CASE CommerceStatement(p)
  BY <1>2, ReadOrderStatement, IssueOrderStatement, CloseOrderStatement, InsertSaleStatement,
     IssueSaleStatement, PaySaleStatement, ReadPayableStatement, RecordStatement,
     ReadPaymentStatement, CeilingStatement, SettlePaymentStatement DEF CommerceStatement
<1>3. CASE DocumentStatement(p)
  BY <1>3, ReadPurchaseStatement, InsertReceiptStatement, StockReceiptStatement,
     ClosePurchaseStatement, ReadWorkStatement, MoveWorkStatement, CloseWorkStatement
     DEF DocumentStatement
<1> QED BY <1>1, <1>2, <1>3
=============================================================================
