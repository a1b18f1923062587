----------------------------- MODULE LocalMPProofs -----------------------------
(***************************************************************************)
(* Proofs about LocalMP, for any number of instances, rings and frames of  *)
(* any size, when posts are prompt and one instance is host: first what    *)
(* reads and writes do to the queue of frames that a ring holds for a      *)
(* reader, then the invariant, tokens, the refinement and the types.       *)
(***************************************************************************)
EXTENDS LocalMP, FiniteSetTheorems, SequenceTheorems, WellFoundedInduction, TLAPS

(* Rings.                                                                  *)

Frames    == [head : BOOLEAN, n : Nat, from : Insts, type : 0 .. 2, len : Nat, stamp : Nat]
RingOf(N) == [cell : [0 .. N - 1 -> Frames], write : 0 .. N - 1, size : {N}]

\* Sums and differences of places on a ring.
LEMMA ModSum ==
  ASSUME NEW N \in Nat \ {0}, NEW a \in 0 .. N - 1, NEW b \in 0 .. N - 1
  PROVE  (a + b) % N = IF a + b < N THEN a + b ELSE a + b - N
OBVIOUS

LEMMA ModDiff ==
  ASSUME NEW N \in Nat \ {0}, NEW a \in 0 .. N - 1, NEW b \in 0 .. N - 1
  PROVE  (a - b) % N = IF a >= b THEN a - b ELSE a - b + N
OBVIOUS

\* The frame at a distance x from the place p, if it is whole.
Place(N, p, x)    == (p + x) % N
Whole(ring, p, x) ==
    LET m == ring.cell[Place(ring.size, p, x)]
    IN  m.head /\ \A k \in 1 .. m.len :
                     ring.cell[Place(ring.size, p, x + k)] = [m EXCEPT !.head = FALSE]

\* From p to the place that is written next there are n frames, one after the other, the k-th at
\* the distance d[k].
Chain(ring, p, n, d) ==
    /\ d \in [0 .. n -> 0 .. ring.size - 1]
    /\ d[0] = 0 /\ d[n] = (ring.write - p) % ring.size
    /\ \A j, k \in 0 .. n : j <= k => d[j] <= d[k]
    /\ \A k \in 0 .. n - 1 :
          /\ Whole(ring, p, d[k])
          /\ d[k + 1] = d[k] + ring.cell[Place(ring.size, p, d[k])].len + 1

Queue(ring, p, n) == \E d : Chain(ring, p, n, d)

\* Places.
LEMMA Places ==
  ASSUME NEW N \in Nat \ {0}, NEW p \in 0 .. N - 1, NEW x \in 0 .. N - 1
  PROVE  /\ Place(N, p, x) \in 0 .. N - 1
         /\ Place(N, p, x) = IF p + x < N THEN p + x ELSE p + x - N
         /\ Place(N, p, 0) = p
<1>1. Place(N, p, x) = IF p + x < N THEN p + x ELSE p + x - N
  BY ModSum DEF Place
<1>2. Place(N, p, 0) = IF p + 0 < N THEN p + 0 ELSE p + 0 - N
  <2>1. 0 \in 0 .. N - 1
    OBVIOUS
  <2> QED BY <2>1, ModSum DEF Place
<1> QED BY <1>1, <1>2

\* A step from a place.
LEMMA Further ==
  ASSUME NEW N \in Nat \ {0}, NEW p \in 0 .. N - 1, NEW x \in 0 .. N - 1, NEW y \in 0 .. N - 1,
         x + y < N
  PROVE  Place(N, Place(N, p, x), y) = Place(N, p, x + y)
<1>5. /\ Place(N, p, x) \in 0 .. N - 1
      /\ Place(N, p, x) = IF p + x < N THEN p + x ELSE p + x - N
  BY Places
<1>1. PICK q \in 0 .. N - 1 : q = Place(N, p, x) /\ q = IF p + x < N THEN p + x ELSE p + x - N
  BY <1>5
<1>2. Place(N, q, y) = IF q + y < N THEN q + y ELSE q + y - N
  <2>1. q \in 0 .. N - 1
    BY <1>1
  <2> QED BY <2>1, Places
<1>3. PICK z \in 0 .. N - 1 : z = x + y
  OBVIOUS
<1>4. Place(N, p, z) = IF p + z < N THEN p + z ELSE p + z - N
  BY Places
<1> QED BY <1>1, <1>2, <1>3, <1>4

\* What is not yet read, g cells from p on, is behind the place w that is written next.
Apart(N, p, w, g) ==
    /\ g \in 0 .. N - 1 /\ Place(N, p, g) = w
    /\ \A y \in 0 .. N - 1 : y < g => (Place(N, p, y) - w) % N = y - g + N
    /\ \A y \in 0 .. N - 1 : g + y < N => (Place(N, p, g + y) - w) % N = y
    /\ \A y \in 0 .. N - 1 : g + y < N => (Place(N, w, y) - p) % N = g + y

LEMMA Behindhand ==
  ASSUME NEW N \in Nat \ {0}, NEW p \in 0 .. N - 1, NEW w \in 0 .. N - 1
  PROVE  Apart(N, p, w, (w - p) % N)
<1> DEFINE g == (w - p) % N
<1>1. g = IF w >= p THEN w - p ELSE w - p + N
  BY ModDiff
<1> HIDE DEF g
<1>2. g \in 0 .. N - 1
  BY <1>1
<1>3. Place(N, p, g) = w
  <2>1. Place(N, p, g) = IF p + g < N THEN p + g ELSE p + g - N
    BY <1>2, Places
  <2> QED BY <1>1, <2>1
<1>4. ASSUME NEW y \in 0 .. N - 1, y < g PROVE (Place(N, p, y) - w) % N = y - g + N
  <2>1. PICK q \in 0 .. N - 1 : q = Place(N, p, y) /\ q = IF p + y < N THEN p + y ELSE p + y - N
    BY Places
  <2>2. (q - w) % N = IF q >= w THEN q - w ELSE q - w + N
    BY ModDiff
  <2> QED BY <1>1, <1>4, <2>1, <2>2
<1>5. ASSUME NEW y \in 0 .. N - 1, g + y < N PROVE (Place(N, p, g + y) - w) % N = y
  <2>1. g + y \in 0 .. N - 1
    BY <1>2, <1>5
  <2>4. PICK x \in 0 .. N - 1 : x = g + y
    BY <2>1
  <2>2. PICK q \in 0 .. N - 1 : q = Place(N, p, x) /\ q = IF p + x < N THEN p + x ELSE p + x - N
    BY Places
  <2>3. (q - w) % N = IF q >= w THEN q - w ELSE q - w + N
    BY ModDiff
  <2>5. (q - w) % N = y
    BY <1>1, <1>5, <2>2, <2>3, <2>4
  <2> QED BY <2>2, <2>4, <2>5
<1>6. ASSUME NEW y \in 0 .. N - 1, g + y < N PROVE (Place(N, w, y) - p) % N = g + y
  <2>1. PICK q \in 0 .. N - 1 : q = Place(N, w, y) /\ q = IF w + y < N THEN w + y ELSE w + y - N
    BY Places
  <2>2. (q - p) % N = IF q >= p THEN q - p ELSE q - p + N
    BY ModDiff
  <2> QED BY <1>1, <1>6, <2>1, <2>2
<1>7. Apart(N, p, w, g)
  BY <1>2, <1>3, <1>4, <1>5, <1>6 DEF Apart
<1> QED BY <1>7 DEF g

\* What FIFOWrite does to the cells.
LEMMA WriteIs ==
  ASSUME NEW N \in Nat \ {0}, NEW ring \in RingOf(N), NEW m \in Frames, m.len + 1 < N
  PROVE  /\ FIFOWrite(ring, m) \in RingOf(N) /\ FIFOWrite(ring, m).size = N
         /\ FIFOWrite(ring, m).write = Place(N, ring.write, m.len + 1)
         /\ \A q \in 0 .. N - 1 :
               FIFOWrite(ring, m).cell[q]
                  = IF (q - ring.write) % N > m.len THEN ring.cell[q]
                    ELSE [m EXCEPT !.head = ((q - ring.write) % N = 0)]
<1>1. /\ ring.size = N /\ ring.write \in 0 .. N - 1 /\ ring.cell \in [0 .. N - 1 -> Frames]
      /\ DOMAIN ring.cell = 0 .. N - 1
  BY DEF RingOf
<1>2. m.len \in Nat /\ m.len + 1 \in 0 .. N - 1
  BY DEF Frames
<1> DEFINE f(q) == IF (q - ring.write) % N > m.len THEN ring.cell[q]
                   ELSE [m EXCEPT !.head = ((q - ring.write) % N = 0)]
<1>3. FIFOWrite(ring, m) = [ring EXCEPT !.cell = [q \in 0 .. N - 1 |-> f(q)],
                                        !.write = (@ + m.len + 1) % N]
  BY <1>1 DEF FIFOWrite
<1>4. \A q \in 0 .. N - 1 : f(q) \in Frames
  <2>1. \A b \in BOOLEAN : [m EXCEPT !.head = b] \in Frames
    BY DEF Frames
  <2>2. \A q \in 0 .. N - 1 : ((q - ring.write) % N = 0) \in BOOLEAN
    OBVIOUS
  <2>3. \A q \in 0 .. N - 1 : ring.cell[q] \in Frames
    BY <1>1
  <2> QED BY <2>1, <2>2, <2>3
<1>5. PICK c : c = [q \in 0 .. N - 1 |-> f(q)]
  OBVIOUS
<1>6. c \in [0 .. N - 1 -> Frames] /\ \A q \in 0 .. N - 1 : c[q] = f(q)
  BY <1>4, <1>5
<1>7. PICK w : w = Place(N, ring.write, m.len + 1)
  OBVIOUS
<1>8. w \in 0 .. N - 1 /\ w = (ring.write + m.len + 1) % N
  <2>1. w \in 0 .. N - 1
    BY <1>1, <1>2, <1>7, Places
  <2>2. ring.write + (m.len + 1) = ring.write + m.len + 1
    BY <1>1, <1>2
  <2> QED BY <1>7, <2>1, <2>2 DEF Place
<1>9. PICK r : r = [ring EXCEPT !.cell = c, !.write = w]
  OBVIOUS
<1>10. r \in RingOf(N) /\ r.size = N /\ r.write = w /\ r.cell = c
  BY <1>6, <1>8, <1>9 DEF RingOf
<1>11. FIFOWrite(ring, m) = r
  BY <1>3, <1>5, <1>8, <1>9
<1> QED BY <1>6, <1>7, <1>10, <1>11

\* What it is to be whole, with names.
LEMMA WholeIs ==
  ASSUME NEW ring, NEW p, NEW x, NEW N, N = ring.size, NEW m, m = ring.cell[Place(N, p, x)]
  PROVE  Whole(ring, p, x) <=>
            /\ m.head
            /\ \A k \in 1 .. m.len : ring.cell[Place(N, p, x + k)] = [m EXCEPT !.head = FALSE]
BY Zenon DEF Whole

\* What is not yet read is not overwritten by a frame that does not overtake the reader, and the
\* frame is whole behind it.
LEMMA Written ==
  ASSUME NEW N \in Nat \ {0}, NEW ring \in RingOf(N), NEW m \in Frames, m.head, m.len + 1 < N,
         NEW p \in 0 .. N - 1, NEW g, g = (ring.write - p) % N, ~Overtakes(ring, p, m),
         NEW r, r = FIFOWrite(ring, m)
  PROVE  /\ g \in 0 .. N - 1 /\ g + m.len + 1 \in 0 .. N - 1
         /\ \A y \in 0 .. N - 1 : y < g => r.cell[Place(N, p, y)] = ring.cell[Place(N, p, y)]
         /\ r.cell[Place(N, p, g)] = m
         /\ \A y \in 1 .. m.len : r.cell[Place(N, p, g + y)] = [m EXCEPT !.head = FALSE]
         /\ (r.write - p) % N = g + m.len + 1
         /\ r \in RingOf(N) /\ r.size = N
<1>1. ring.size = N /\ ring.write \in 0 .. N - 1 /\ m.len \in Nat
  BY DEF RingOf, Frames
<1>2. PICK w \in 0 .. N - 1 : w = ring.write
  BY <1>1
<1>3. /\ g \in 0 .. N - 1 /\ Place(N, p, g) = w
      /\ \A y \in 0 .. N - 1 : y < g => (Place(N, p, y) - w) % N = y - g + N
      /\ \A y \in 0 .. N - 1 : g + y < N => (Place(N, p, g + y) - w) % N = y
      /\ \A y \in 0 .. N - 1 : g + y < N => (Place(N, w, y) - p) % N = g + y
  <2>1. g = (w - p) % N
    BY <1>2
  <2>2. Apart(N, p, w, g)
    BY <2>1, Behindhand
  <2> QED BY <2>2 DEF Apart
<1>4. g + m.len + 1 \in 0 .. N - 1
  BY <1>1, <1>2, <1>3 DEF Overtakes
<1>5. /\ r \in RingOf(N) /\ r.size = N
      /\ r.write = Place(N, w, m.len + 1)
      /\ \A q \in 0 .. N - 1 : r.cell[q] = IF (q - w) % N > m.len THEN ring.cell[q]
                                           ELSE [m EXCEPT !.head = ((q - w) % N = 0)]
  BY <1>2, WriteIs
<1>6. ASSUME NEW y \in 0 .. N - 1, y < g
      PROVE  r.cell[Place(N, p, y)] = ring.cell[Place(N, p, y)]
  <2>1. PICK q : q = Place(N, p, y)
    OBVIOUS
  <2>2. q \in 0 .. N - 1
    BY <2>1, Places
  <2>3. (q - w) % N > m.len
    BY <1>1, <1>3, <1>4, <1>6, <2>1
  <2> QED BY <1>5, <2>1, <2>2, <2>3
<1>7. ASSUME NEW y \in 0 .. m.len
      PROVE  r.cell[Place(N, p, g + y)] = [m EXCEPT !.head = (y = 0)]
  <2>1. PICK q : q = Place(N, p, g + y)
    OBVIOUS
  <2>2. y \in 0 .. N - 1 /\ g + y < N /\ g + y \in 0 .. N - 1
    BY <1>1, <1>3, <1>4, <1>7
  <2>3. q \in 0 .. N - 1
    BY <2>1, <2>2, Places
  <2>4. (q - w) % N = y
    BY <1>3, <2>1, <2>2
  <2>5. ~((q - w) % N > m.len)
    BY <1>1, <1>7, <2>4
  <2>6. r.cell[q] = [m EXCEPT !.head = ((q - w) % N = 0)]
    BY <1>5, <2>3, <2>5
  <2> QED BY <2>1, <2>4, <2>6
<1>8. r.cell[Place(N, p, g)] = m
  <2>1. 0 \in 0 .. m.len /\ g + 0 = g
    BY <1>1, <1>3
  <2>2. r.cell[Place(N, p, g)] = [m EXCEPT !.head = TRUE]
    BY <1>7, <2>1
  <2>3. [m EXCEPT !.head = TRUE] = m
    BY DEF Frames
  <2> QED BY <2>2, <2>3
<1>9. \A y \in 1 .. m.len : r.cell[Place(N, p, g + y)] = [m EXCEPT !.head = FALSE]
  <2> SUFFICES ASSUME NEW y \in 1 .. m.len
               PROVE  r.cell[Place(N, p, g + y)] = [m EXCEPT !.head = FALSE]
    OBVIOUS
  <2>1. y \in 0 .. m.len /\ (y = 0) = FALSE
    BY <1>1
  <2> QED BY <1>7, <2>1
<1>10. (r.write - p) % N = g + m.len + 1
  <2>1. PICK y \in 0 .. N - 1 : y = m.len + 1
    BY <1>1
  <2>2. g + y < N
    BY <1>3, <1>4, <2>1, <1>1
  <2>3. (Place(N, w, y) - p) % N = g + y
    BY <1>3, <2>2
  <2> QED BY <1>1, <1>3, <1>5, <2>1, <2>3
<1> QED BY <1>3, <1>4, <1>5, <1>6, <1>8, <1>9, <1>10

\* A frame that is written is behind the others.
LEMMA ChainAppended ==
  ASSUME NEW N \in Nat \ {0}, NEW ring \in RingOf(N), NEW m \in Frames, m.head, m.len + 1 < N,
         NEW p \in 0 .. N - 1, ~Overtakes(ring, p, m), NEW r, r = FIFOWrite(ring, m),
         NEW n \in Nat, NEW d, Chain(ring, p, n, d)
  PROVE  \E e : /\ Chain(r, p, n + 1, e)
                /\ \A k \in 0 .. n - 1 :
                      r.cell[Place(N, p, e[k])] = ring.cell[Place(N, p, d[k])]
                /\ r.cell[Place(N, p, e[n])] = m
<1>1. ring.size = N /\ m.len \in Nat
  BY DEF RingOf, Frames
<1>2. PICK g : g = (ring.write - p) % N
  OBVIOUS
<1>3. /\ g \in 0 .. N - 1 /\ g + m.len + 1 \in 0 .. N - 1
      /\ \A y \in 0 .. N - 1 : y < g => r.cell[Place(N, p, y)] = ring.cell[Place(N, p, y)]
      /\ r.cell[Place(N, p, g)] = m
      /\ \A y \in 1 .. m.len : r.cell[Place(N, p, g + y)] = [m EXCEPT !.head = FALSE]
      /\ (r.write - p) % N = g + m.len + 1
      /\ r \in RingOf(N) /\ r.size = N
  BY <1>2, Written
<1>4. /\ d \in [0 .. n -> 0 .. N - 1] /\ d[0] = 0 /\ d[n] = g
      /\ \A j, k \in 0 .. n : j <= k => d[j] <= d[k]
      /\ \A k \in 0 .. n - 1 : /\ Whole(ring, p, d[k])
                               /\ d[k + 1] = d[k] + ring.cell[Place(N, p, d[k])].len + 1
  BY <1>1, <1>2 DEF Chain
<1>5. PICK e : e = [k \in 0 .. n + 1 |-> IF k <= n THEN d[k] ELSE g + m.len + 1]
  OBVIOUS
<1>6. /\ e \in [0 .. n + 1 -> 0 .. N - 1] /\ \A k \in 0 .. n : e[k] = d[k]
      /\ e[n + 1] = g + m.len + 1
  <2>1. \A k \in 0 .. n + 1 : (IF k <= n THEN d[k] ELSE g + m.len + 1) \in 0 .. N - 1
    BY <1>3, <1>4
  <2>2. \A k \in 0 .. n : k \in 0 .. n + 1 /\ k <= n
    OBVIOUS
  <2>3. n + 1 \in 0 .. n + 1 /\ ~(n + 1 <= n)
    OBVIOUS
  <2> QED BY <1>5, <2>1, <2>2, <2>3
<1>7. ASSUME NEW k \in 0 .. n - 1
      PROVE  /\ Whole(r, p, e[k])
             /\ e[k + 1] = e[k] + r.cell[Place(N, p, e[k])].len + 1
             /\ r.cell[Place(N, p, e[k])] = ring.cell[Place(N, p, d[k])]
  <2>1. k \in 0 .. n /\ k + 1 \in 0 .. n /\ n \in 0 .. n
    OBVIOUS
  <2>2. PICK x \in 0 .. N - 1 : x = d[k] /\ x = e[k]
    BY <1>4, <1>6, <2>1
  <2>3. PICK c : c = ring.cell[Place(N, p, x)]
    OBVIOUS
  <2>4. c \in Frames
    <3>1. Place(N, p, x) \in 0 .. N - 1
      BY Places
    <3> QED BY <2>3, <3>1 DEF RingOf
  <2>5. c.len \in Nat
    BY <2>4 DEF Frames
  <2>6. d[k + 1] = x + c.len + 1 /\ d[k + 1] <= g /\ e[k + 1] = d[k + 1]
    BY <1>4, <1>6, <2>1, <2>2, <2>3
  <2>7. \A j \in 0 .. c.len : x + j \in 0 .. N - 1 /\ x + j < g
    BY <1>3, <2>2, <2>5, <2>6
  <2>8. \A j \in 0 .. c.len : r.cell[Place(N, p, x + j)] = ring.cell[Place(N, p, x + j)]
    BY <1>3, <2>7
  <2>9. r.cell[Place(N, p, x)] = c
    <3>1. 0 \in 0 .. c.len /\ x + 0 = x
      BY <2>2, <2>5
    <3> QED BY <2>3, <2>8, <3>1
  <2>10. c.head /\ \A j \in 1 .. c.len : ring.cell[Place(N, p, x + j)] = [c EXCEPT !.head = FALSE]
    <3>1. Whole(ring, p, x)
      BY ZenonT(40), <1>4, <2>2
    <3> QED BY <1>1, <2>3, <3>1, WholeIs
  <2>11. \A j \in 1 .. c.len : j \in 0 .. c.len
    BY <2>5
  <2>12. Whole(r, p, x)
    <3>1. \A j \in 1 .. c.len : r.cell[Place(N, p, x + j)] = [c EXCEPT !.head = FALSE]
      BY <2>8, <2>10, <2>11
    <3> QED BY <1>3, <2>9, <2>10, <3>1, WholeIs
  <2> QED BY <2>2, <2>3, <2>6, <2>9, <2>12
<1>8. /\ Whole(r, p, e[n]) /\ e[n + 1] = e[n] + r.cell[Place(N, p, e[n])].len + 1
      /\ r.cell[Place(N, p, e[n])] = m
  <2>1. e[n] = g
    BY <1>4, <1>6
  <2>2. Whole(r, p, g)
    BY <1>3, WholeIs
  <2> QED BY <1>3, <1>6, <2>1, <2>2
<1>9. \A j, k \in 0 .. n + 1 : j <= k => e[j] <= e[k]
  <2> SUFFICES ASSUME NEW j \in 0 .. n + 1, NEW k \in 0 .. n + 1, j <= k PROVE e[j] <= e[k]
    OBVIOUS
  <2>1. CASE k \in 0 .. n
    <3>1. j \in 0 .. n
      BY <2>1
    <3> QED BY <1>4, <1>6, <2>1, <3>1
  <2>2. CASE k = n + 1 /\ j \in 0 .. n
    <3>1. e[j] = d[j] /\ d[j] <= g /\ d[j] \in 0 .. N - 1
      <4>1. n \in 0 .. n /\ j <= n
        BY <2>2
      <4> QED BY <1>4, <1>6, <2>2, <4>1
    <3> QED BY <1>1, <1>3, <1>6, <2>2, <3>1
  <2>3. CASE k = n + 1 /\ j = n + 1
    BY <1>3, <1>6, <2>3
  <2> QED BY <2>1, <2>2, <2>3
<1>10. Chain(r, p, n + 1, e)
  <2>1. e[0] = 0 /\ e[n + 1] = (r.write - p) % N
    BY <1>3, <1>4, <1>6
  <2>2. ASSUME NEW k \in 0 .. (n + 1) - 1
        PROVE  Whole(r, p, e[k]) /\ e[k + 1] = e[k] + r.cell[Place(N, p, e[k])].len + 1
    BY <1>7, <1>8
  <2> QED BY <1>3, <1>6, <1>9, <2>1, <2>2 DEF Chain
<1> QED BY <1>7, <1>8, <1>10

\* A place further on is nearer to the one that is written.
LEMMA Nearer ==
  ASSUME NEW N \in Nat \ {0}, NEW p \in 0 .. N - 1, NEW w \in 0 .. N - 1, NEW a \in 0 .. N - 1,
         a <= (w - p) % N
  PROVE  (w - Place(N, p, a)) % N = ((w - p) % N) - a
<1>1. PICK q \in 0 .. N - 1 : q = Place(N, p, a) /\ q = IF p + a < N THEN p + a ELSE p + a - N
  BY Places
<1>2. PICK g \in 0 .. N - 1 : g = (w - p) % N /\ g = IF w >= p THEN w - p ELSE w - p + N
  BY ModDiff
<1>3. (w - q) % N = IF w >= q THEN w - q ELSE w - q + N
  BY ModDiff
<1>4. a <= g
  BY <1>2
<1>5. (w - q) % N = g - a
  BY <1>1, <1>2, <1>3, <1>4
<1> QED BY <1>1, <1>2, <1>5

\* With nothing to read the place is the one that is written.
LEMMA QueueEmpty ==
  ASSUME NEW N \in Nat \ {0}, NEW ring \in RingOf(N)
  PROVE  Chain(ring, ring.write, 0, [k \in 0 .. 0 |-> 0])
<1>1. ring.size = N /\ ring.write \in 0 .. N - 1
  BY DEF RingOf
<1>2. PICK w \in 0 .. N - 1 : w = ring.write
  BY <1>1
<1>3. (w - w) % N = 0
  BY ModDiff
<1>4. PICK d : d = [k \in 0 .. 0 |-> 0]
  OBVIOUS
<1>5. d \in [0 .. 0 -> 0 .. N - 1] /\ d[0] = 0
  BY <1>4
<1>6. Chain(ring, w, 0, d)
  BY <1>1, <1>2, <1>3, <1>5 DEF Chain
<1> QED BY <1>2, <1>4, <1>6

\* The first of the frames is at the place, and there is something to read.
LEMMA ChainFirst ==
  ASSUME NEW N \in Nat \ {0}, NEW ring \in RingOf(N), NEW p \in 0 .. N - 1,
         NEW n \in Nat \ {0}, NEW d, Chain(ring, p, n, d)
  PROVE  /\ Whole(ring, p, 0) /\ ring.cell[p].head /\ Place(N, p, 0) = p
         /\ d[1] = ring.cell[p].len + 1 /\ d[1] \in 0 .. N - 1 /\ ring.cell[p].len \in Nat
         /\ \A k \in 1 .. n : d[1] <= d[k]
         /\ p # ring.write
<1>1. ring.size = N /\ ring.cell[p].len \in Nat /\ ring.write \in 0 .. N - 1
  BY DEF RingOf, Frames
<1>2. /\ d \in [0 .. n -> 0 .. N - 1] /\ d[0] = 0 /\ d[n] = (ring.write - p) % N
      /\ \A j, k \in 0 .. n : j <= k => d[j] <= d[k]
      /\ \A k \in 0 .. n - 1 : /\ Whole(ring, p, d[k])
                               /\ d[k + 1] = d[k] + ring.cell[Place(N, p, d[k])].len + 1
  BY <1>1 DEF Chain
<1>3. Place(N, p, 0) = p
  <2>1. 0 \in 0 .. N - 1
    OBVIOUS
  <2> QED BY <2>1, Places
<1>4. Whole(ring, p, 0) /\ d[0 + 1] = 0 + ring.cell[p].len + 1
  <2>1. 0 \in 0 .. n - 1
    OBVIOUS
  <2> QED BY <1>2, <1>3, <2>1
<1>5. d[1] = ring.cell[p].len + 1
  BY <1>1, <1>4
<1>6. \A k \in 1 .. n : d[1] <= d[k]
  <2>1. \A k \in 1 .. n : 1 \in 0 .. n /\ k \in 0 .. n /\ 1 <= k
    OBVIOUS
  <2> QED BY <1>2, <2>1
<1>7. ring.cell[p].head
  BY <1>1, <1>3, <1>4 DEF Whole
<1>8. d[1] \in 0 .. N - 1
  <2>1. 1 \in 0 .. n
    OBVIOUS
  <2> QED BY <1>2, <2>1
<1>9. p # ring.write
  <2> SUFFICES ASSUME p = ring.write PROVE FALSE
    OBVIOUS
  <2>1. PICK w \in 0 .. N - 1 : w = ring.write /\ w = p
    BY <1>1
  <2>2. (w - w) % N = 0
    BY ModDiff
  <2>3. d[n] = 0 /\ n \in 1 .. n
    BY <1>2, <2>1, <2>2
  <2> QED BY <1>1, <1>5, <1>6, <2>3
<1> QED BY <1>1, <1>3, <1>4, <1>5, <1>6, <1>7, <1>8, <1>9

\* Behind the first of the frames are the others.
LEMMA ChainTaken ==
  ASSUME NEW N \in Nat \ {0}, NEW ring \in RingOf(N), NEW p \in 0 .. N - 1,
         NEW n \in Nat \ {0}, NEW d, Chain(ring, p, n, d), NEW q, q = Behind(ring, p)
  PROVE  /\ q \in 0 .. N - 1
         /\ \E e : /\ Chain(ring, q, n - 1, e)
                   /\ \A k \in 0 .. n - 2 :
                         ring.cell[Place(N, q, e[k])] = ring.cell[Place(N, p, d[k + 1])]
<1>1. ring.size = N /\ ring.write \in 0 .. N - 1 /\ ring.cell \in [0 .. N - 1 -> Frames]
  BY DEF RingOf
<1>2. /\ d \in [0 .. n -> 0 .. N - 1] /\ d[n] = (ring.write - p) % N
      /\ \A j, k \in 0 .. n : j <= k => d[j] <= d[k]
      /\ \A k \in 0 .. n - 1 : /\ Whole(ring, p, d[k])
                               /\ d[k + 1] = d[k] + ring.cell[Place(N, p, d[k])].len + 1
  BY <1>1 DEF Chain
<1>3. /\ d[1] = ring.cell[p].len + 1 /\ d[1] \in 0 .. N - 1 /\ ring.cell[p].len \in Nat
      /\ \A k \in 1 .. n : d[1] <= d[k]
  BY ChainFirst
<1>4. PICK a \in 0 .. N - 1 : a = d[1]
  BY <1>3
<1>5. q = Place(N, p, a) /\ q \in 0 .. N - 1
  <2>1. p + ring.cell[p].len + 1 = p + a
    BY <1>3, <1>4
  <2>2. q = Place(N, p, a)
    BY <1>1, <2>1 DEF Behind, Place
  <2> QED BY <2>2, Places
<1>6. PICK e : e = [k \in 0 .. n - 1 |-> d[k + 1] - a]
  OBVIOUS
<1>7. \A k \in 0 .. n - 1 : k + 1 \in 0 .. n /\ k + 1 \in 1 .. n
  OBVIOUS
<1>8. \A k \in 0 .. n - 1 : d[k + 1] - a \in 0 .. N - 1 /\ a <= d[k + 1] /\ d[k + 1] \in 0 .. N - 1
  BY <1>2, <1>3, <1>4, <1>7
<1>9. e \in [0 .. n - 1 -> 0 .. N - 1] /\ \A k \in 0 .. n - 1 : e[k] = d[k + 1] - a
  BY <1>6, <1>8
<1>10. \A k \in 0 .. n - 1 : \A j \in 0 .. N - 1 :
          d[k + 1] + j < N => Place(N, q, e[k] + j) = Place(N, p, d[k + 1] + j)
  <2> SUFFICES ASSUME NEW k \in 0 .. n - 1, NEW j \in 0 .. N - 1, d[k + 1] + j < N
               PROVE  Place(N, q, e[k] + j) = Place(N, p, d[k + 1] + j)
    OBVIOUS
  <2>4. PICK x \in 0 .. N - 1 : x = d[k + 1] /\ e[k] = x - a /\ a <= x
    BY <1>8, <1>9
  <2>1. PICK y \in 0 .. N - 1 : y = e[k] + j
    BY <2>4
  <2>2. a + y = d[k + 1] + j /\ a + y < N
    BY <2>1, <2>4
  <2>3. Place(N, Place(N, p, a), y) = Place(N, p, a + y)
    BY <2>2, Further
  <2> QED BY <1>5, <2>1, <2>2, <2>3
<1>11. \A k \in 0 .. n - 1 : Place(N, q, e[k]) = Place(N, p, d[k + 1])
  <2> SUFFICES ASSUME NEW k \in 0 .. n - 1 PROVE Place(N, q, e[k]) = Place(N, p, d[k + 1])
    OBVIOUS
  <2>1. PICK x \in 0 .. N - 1 : x = d[k + 1]
    BY <1>8
  <2>2. PICK y \in 0 .. N - 1 : y = e[k]
    BY <1>9
  <2>3. 0 \in 0 .. N - 1 /\ x + 0 = x /\ y + 0 = y /\ x + 0 < N
    OBVIOUS
  <2>4. Place(N, q, e[k] + 0) = Place(N, p, d[k + 1] + 0)
    BY <1>10, <2>1, <2>3
  <2> QED BY <2>1, <2>2, <2>3, <2>4
<1>12. ASSUME NEW k \in 0 .. n - 2
       PROVE  /\ Whole(ring, q, e[k])
              /\ e[k + 1] = e[k] + ring.cell[Place(N, q, e[k])].len + 1
  <2>1. k \in 0 .. n - 1 /\ k + 1 \in 0 .. n - 1 /\ (k + 1) + 1 \in 0 .. n
    OBVIOUS
  <2>2. PICK x \in 0 .. N - 1 : x = d[k + 1]
    BY <1>8, <2>1
  <2>3. PICK c : c = ring.cell[Place(N, p, x)]
    OBVIOUS
  <2>4. c \in Frames /\ c.len \in Nat
    <3>1. Place(N, p, x) \in 0 .. N - 1
      BY Places
    <3> QED BY <1>1, <2>3, <3>1 DEF Frames
  <2>5. Whole(ring, p, x) /\ d[(k + 1) + 1] = x + c.len + 1
    BY <1>2, <2>1, <2>2, <2>3
  <2>6. e[k + 1] = e[k] + c.len + 1
    <3>1. e[k + 1] = d[(k + 1) + 1] - a /\ e[k] = x - a
      BY <1>9, <2>1, <2>2
    <3> QED BY <1>4, <2>2, <2>4, <2>5, <3>1
  <2>7. c = ring.cell[Place(N, q, e[k])]
    BY <1>11, <2>1, <2>2, <2>3
  <2>8. c.head /\ \A j \in 1 .. c.len : ring.cell[Place(N, p, x + j)] = [c EXCEPT !.head = FALSE]
    <3>1. N = ring.size /\ c = ring.cell[Place(N, p, x)] /\ Whole(ring, p, x)
      BY <1>1, <2>3, <2>5
    <3> QED BY ZenonT(40), <3>1 DEF Whole
  <2>9. \A j \in 1 .. c.len : ring.cell[Place(N, q, e[k] + j)] = [c EXCEPT !.head = FALSE]
    <3> SUFFICES ASSUME NEW j \in 1 .. c.len
                 PROVE  ring.cell[Place(N, q, e[k] + j)] = [c EXCEPT !.head = FALSE]
      OBVIOUS
    <3>1. d[(k + 1) + 1] \in 0 .. N - 1
      BY <1>2, <2>1
    <3>2. j \in 0 .. N - 1 /\ x + j < N
      BY <2>2, <2>4, <2>5, <3>1
    <3>3. Place(N, q, e[k] + j) = Place(N, p, x + j)
      BY <1>10, <2>1, <2>2, <3>2
    <3> QED BY <2>8, <3>3
  <2>10. Whole(ring, q, e[k])
    <3>1. PICK y : y = e[k]
      OBVIOUS
    <3>2. c = ring.cell[Place(N, q, y)]
          /\ \A j \in 1 .. c.len : ring.cell[Place(N, q, y + j)] = [c EXCEPT !.head = FALSE]
      BY <2>7, <2>9, <3>1
    <3>3. Whole(ring, q, y)
      BY <1>1, <2>8, <3>2, WholeIs
    <3> QED BY <3>1, <3>3
  <2> QED BY <2>6, <2>7, <2>10
<1>13. e[0] = 0 /\ e[n - 1] = (ring.write - q) % N
  <2>1. 0 \in 0 .. n - 1 /\ 0 + 1 = 1 /\ n - 1 \in 0 .. n - 1 /\ (n - 1) + 1 = n
    OBVIOUS
  <2>2. e[0] = d[1] - a /\ e[n - 1] = d[n] - a /\ a <= d[n]
    BY <1>8, <1>9, <2>1
  <2>3. e[0] = 0
    BY <1>4, <2>2
  <2>4. PICK w \in 0 .. N - 1 : w = ring.write
    BY <1>1
  <2>5. a <= (w - p) % N
    BY <1>2, <2>2, <2>4
  <2>6. (w - Place(N, p, a)) % N = ((w - p) % N) - a
    BY <2>5, Nearer
  <2> QED BY <1>2, <1>5, <2>2, <2>3, <2>4, <2>6
<1>14. \A j, k \in 0 .. n - 1 : j <= k => e[j] <= e[k]
  <2> SUFFICES ASSUME NEW j \in 0 .. n - 1, NEW k \in 0 .. n - 1, j <= k PROVE e[j] <= e[k]
    OBVIOUS
  <2>1. j + 1 \in 0 .. n /\ k + 1 \in 0 .. n /\ j + 1 <= k + 1
    OBVIOUS
  <2>2. d[j + 1] <= d[k + 1]
    BY <1>2, <2>1
  <2>3. /\ e[j] = d[j + 1] - a /\ d[j + 1] \in 0 .. N - 1
        /\ e[k] = d[k + 1] - a /\ d[k + 1] \in 0 .. N - 1
    BY <1>8, <1>9
  <2> QED BY <1>4, <2>2, <2>3
<1>15. Chain(ring, q, n - 1, e)
  <2>1. (n - 1) - 1 = n - 2
    OBVIOUS
  <2> QED BY <1>1, <1>9, <1>12, <1>13, <1>14, <2>1 DEF Chain
<1>16. \A k \in 0 .. n - 2 : ring.cell[Place(N, q, e[k])] = ring.cell[Place(N, p, d[k + 1])]
  <2>1. \A k \in 0 .. n - 2 : k \in 0 .. n - 1
    OBVIOUS
  <2> QED BY <1>11, <2>1
<1> QED BY <1>5, <1>15, <1>16

\* Unread, which follows the offsets from frame to frame, is what the chain says it is.
LEMMA Least ==
  ASSUME NEW S, S \subseteq Nat, S # {}
  PROVE  \E x \in S : \A y \in S : x <= y
<1>1. PICK x \in S : \A y \in S : <<y, x>> \notin OpToRel(<, Nat)
  BY NatLessThanWellFounded, WFMin, Zenon
<1>2. ASSUME NEW y \in S, y < x PROVE FALSE
  <2>1. <<y, x>> \in Nat \X Nat /\ <<y, x>>[1] < <<y, x>>[2]
    BY <1>2
  <2> QED BY <1>1, <2>1 DEF OpToRel
<1> QED BY <1>2

LEMMA UnreadIs ==
  ASSUME NEW ring, NEW p, NEW n \in Nat, NEW f,
         f = [k \in 0 .. n |-> IF k = 0 THEN p ELSE Behind(ring, f[k - 1])]
  PROVE  Unread(ring, p, n) = [k \in 1 .. n |-> Content(ring, f[k - 1])]
<1> DEFINE R(g) == g = [k \in 0 .. n |-> IF k = 0 THEN p ELSE Behind(ring, g[k - 1])]
<1>1. ASSUME NEW g, R(g) PROVE g = f
  <2>1. \A k \in 0 .. n : g[k] = IF k = 0 THEN p ELSE Behind(ring, g[k - 1])
    BY <1>1
  <2>2. \A k \in 0 .. n : f[k] = IF k = 0 THEN p ELSE Behind(ring, f[k - 1])
    OBVIOUS
  <2>3. ASSUME {k \in 0 .. n : g[k] # f[k]} # {} PROVE FALSE
    <3>4. {k \in 0 .. n : g[k] # f[k]} \subseteq Nat
      OBVIOUS
    <3>1. PICK x \in {k \in 0 .. n : g[k] # f[k]} : \A y \in {k \in 0 .. n : g[k] # f[k]} : x <= y
      BY <2>3, <3>4, Least
    <3>2. CASE x = 0
      BY <2>1, <2>2, <3>1, <3>2
    <3>3. CASE x # 0
      <4>1. x - 1 \in 0 .. n /\ g[x - 1] = f[x - 1]
        BY <3>1, <3>3
      <4> QED BY <2>1, <2>2, <3>1, <3>3, <4>1
    <3> QED BY <3>2, <3>3
  <2>4. \A k \in 0 .. n : g[k] = f[k]
    BY <2>3
  <2>5. g = [k \in 0 .. n |-> g[k]] /\ f = [k \in 0 .. n |-> f[k]]
    BY <1>1
  <2> QED BY <2>4, <2>5
<1>2. PICK o : o = CHOOSE offset : R(offset)
  OBVIOUS
<1>3. R(o)
  BY <1>2
<1>4. o = f
  BY <1>1, <1>3
<1>5. Unread(ring, p, n) = [k \in 1 .. n |-> Content(ring, (CHOOSE offset : R(offset))[k - 1])]
  BY Zenon DEF Unread
<1>6. Unread(ring, p, n) = [k \in 1 .. n |-> Content(ring, o[k - 1])]
  BY <1>2, <1>5, Zenon
<1> QED BY <1>4, <1>6

LEMMA UnreadOf ==
  ASSUME NEW N \in Nat \ {0}, NEW ring \in RingOf(N), NEW p \in 0 .. N - 1,
         NEW n \in Nat, NEW d, Chain(ring, p, n, d)
  PROVE  /\ Unread(ring, p, n) = [k \in 1 .. n |-> ring.cell[Place(N, p, d[k - 1])]]
         /\ Unread(ring, p, n) \in Seq(Frames) /\ Len(Unread(ring, p, n)) = n
<1>1. ring.size = N /\ ring.cell \in [0 .. N - 1 -> Frames]
  BY DEF RingOf
<1>2. /\ d \in [0 .. n -> 0 .. N - 1] /\ d[0] = 0
      /\ \A k \in 0 .. n - 1 : /\ Whole(ring, p, d[k])
                               /\ d[k + 1] = d[k] + ring.cell[Place(N, p, d[k])].len + 1
  BY <1>1 DEF Chain
<1>3. PICK f : f = [k \in 0 .. n |-> Place(N, p, d[k])]
  OBVIOUS
<1>4. \A k \in 0 .. n : f[k] = Place(N, p, d[k]) /\ f[k] \in 0 .. N - 1
  BY <1>2, <1>3, Places
<1>5. ASSUME NEW k \in 0 .. n - 1
      PROVE  /\ f[k + 1] = Behind(ring, f[k])
             /\ Content(ring, f[k]) = ring.cell[Place(N, p, d[k])]
             /\ ring.cell[Place(N, p, d[k])] \in Frames
  <2>1. k \in 0 .. n /\ k + 1 \in 0 .. n
    OBVIOUS
  <2>2. PICK x \in 0 .. N - 1 : x = d[k]
    BY <1>2, <2>1
  <2>3. PICK q \in 0 .. N - 1 : q = Place(N, p, x) /\ q = f[k]
    BY <1>4, <2>1, <2>2
  <2>4. PICK c : c = ring.cell[q]
    OBVIOUS
  <2>5. c \in Frames /\ c.len \in Nat
    BY <1>1, <2>4 DEF Frames
  <2>6. Whole(ring, p, x) /\ d[k + 1] = x + c.len + 1 /\ d[k + 1] \in 0 .. N - 1
    BY <1>2, <2>1, <2>2, <2>3, <2>4
  <2>7. ASSUME NEW y \in 0 .. N - 1, x + y < N PROVE Place(N, q, y) = Place(N, p, x + y)
    <3>1. Place(N, Place(N, p, x), y) = Place(N, p, x + y)
      BY <2>7, Further
    <3> QED BY <2>3, <3>1
  <2>8. f[k + 1] = Behind(ring, q)
    <3>1. PICK y \in 0 .. N - 1 : y = c.len + 1 /\ d[k + 1] = x + y /\ x + y < N
      BY <2>5, <2>6
    <3>2. Place(N, q, y) = f[k + 1]
      BY <1>4, <2>1, <2>7, <3>1
    <3>3. q + c.len + 1 = q + y
      BY <2>5, <3>1
    <3> QED BY <1>1, <2>4, <3>2, <3>3 DEF Behind, Place
  <2>9. c.head /\ \A j \in 1 .. c.len : ring.cell[Place(N, p, x + j)] = [c EXCEPT !.head = FALSE]
    <3>1. c = ring.cell[Place(N, p, x)] /\ Whole(ring, p, x)
      BY <2>3, <2>4, <2>6
    <3> QED BY <1>1, <3>1, WholeIs
  <2>10. \A j \in 1 .. c.len : ring.cell[(q + j) % N] = [c EXCEPT !.head = FALSE]
    <3> SUFFICES ASSUME NEW j \in 1 .. c.len
                 PROVE  ring.cell[(q + j) % N] = [c EXCEPT !.head = FALSE]
      OBVIOUS
    <3>1. j \in 0 .. N - 1 /\ x + j < N
      BY <2>5, <2>6
    <3>2. (q + j) % N = Place(N, p, x + j)
      BY <2>7, <3>1 DEF Place
    <3> QED BY <2>9, <3>2
  <2>11. Content(ring, q) = c
    BY <1>1, <2>4, <2>9, <2>10, Zenon DEF Content
  <2> QED BY <2>2, <2>3, <2>4, <2>5, <2>8, <2>11
<1>6. f = [k \in 0 .. n |-> IF k = 0 THEN p ELSE Behind(ring, f[k - 1])]
  <2>1. f[0] = p
    <3>1. 0 \in 0 .. N - 1 /\ 0 \in 0 .. n
      OBVIOUS
    <3>2. Place(N, p, 0) = p
      BY <3>1, Places
    <3> QED BY <1>2, <1>4, <3>1, <3>2
  <2>2. ASSUME NEW k \in 0 .. n, k # 0 PROVE f[k] = Behind(ring, f[k - 1])
    <3>1. k - 1 \in 0 .. n - 1 /\ (k - 1) + 1 = k
      BY <2>2
    <3> QED BY <1>5, <3>1
  <2>3. \A k \in 0 .. n : f[k] = IF k = 0 THEN p ELSE Behind(ring, f[k - 1])
    BY <2>1, <2>2
  <2>4. f = [k \in 0 .. n |-> f[k]]
    BY <1>3
  <2> QED BY <2>3, <2>4
<1>7. Unread(ring, p, n) = [k \in 1 .. n |-> Content(ring, f[k - 1])]
  BY SMTT(40), <1>6, UnreadIs
<1>8. \A k \in 1 .. n : /\ Content(ring, f[k - 1]) = ring.cell[Place(N, p, d[k - 1])]
                        /\ ring.cell[Place(N, p, d[k - 1])] \in Frames
  <2>1. \A k \in 1 .. n : k - 1 \in 0 .. n - 1
    OBVIOUS
  <2> QED BY <1>5, <2>1
<1>9. Unread(ring, p, n) = [k \in 1 .. n |-> ring.cell[Place(N, p, d[k - 1])]]
  BY <1>7, <1>8
<1>10. PICK u : u = [k \in 1 .. n |-> ring.cell[Place(N, p, d[k - 1])]]
  OBVIOUS
<1>11. u \in Seq(Frames) /\ Len(u) = n
  <2>1. u \in [1 .. n -> Frames]
    BY <1>8, <1>10
  <2> QED BY <2>1
<1> QED BY <1>9, <1>10, <1>11

\* From the place that is written next there is nothing to read.
LEMMA QueueNone ==
  ASSUME NEW N \in Nat \ {0}, NEW ring \in RingOf(N)
  PROVE  Queue(ring, ring.write, 0) /\ Unread(ring, ring.write, 0) = <<>>
<1>1. PICK p \in 0 .. N - 1 : p = ring.write
  BY DEF RingOf
<1>2. PICK d : d = [k \in 0 .. 0 |-> 0]
  OBVIOUS
<1>3. Chain(ring, p, 0, d)
  BY <1>1, <1>2, QueueEmpty
<1>4. 0 \in Nat
  OBVIOUS
<1>5. Unread(ring, p, 0) \in Seq(Frames) /\ Len(Unread(ring, p, 0)) = 0
  BY <1>3, <1>4, UnreadOf
<1> QED BY <1>1, <1>3, <1>5 DEF Queue

\* What is unread is a sequence of frames.
LEMMA QueueHolds ==
  ASSUME NEW N \in Nat \ {0}, NEW ring \in RingOf(N), NEW p \in 0 .. N - 1,
         NEW n \in Nat, Queue(ring, p, n)
  PROVE  Unread(ring, p, n) \in Seq(Frames) /\ Len(Unread(ring, p, n)) = n
<1>1. PICK d : Chain(ring, p, n, d)
  BY DEF Queue
<1> QED BY <1>1, UnreadOf

\* A frame that overtakes nobody is one more to read, behind the others.
LEMMA QueueWrite ==
  ASSUME NEW N \in Nat \ {0}, NEW ring \in RingOf(N), NEW m \in Frames, m.head, m.len + 1 < N,
         NEW p \in 0 .. N - 1, ~Overtakes(ring, p, m), NEW n \in Nat, Queue(ring, p, n)
  PROVE  /\ Queue(FIFOWrite(ring, m), p, n + 1)
         /\ Unread(FIFOWrite(ring, m), p, n + 1) = Append(Unread(ring, p, n), m)
<1>1. PICK r : r = FIFOWrite(ring, m)
  OBVIOUS
<1>2. r \in RingOf(N)
  BY <1>1, WriteIs
<1>3. PICK d : Chain(ring, p, n, d)
  BY DEF Queue
<1>4. PICK e : /\ Chain(r, p, n + 1, e)
               /\ \A k \in 0 .. n - 1 :
                     r.cell[Place(N, p, e[k])] = ring.cell[Place(N, p, d[k])]
               /\ r.cell[Place(N, p, e[n])] = m
  BY <1>1, <1>3, ChainAppended
<1>5. PICK u : u = Unread(ring, p, n)
  OBVIOUS
<1>6. PICK v : v = Unread(r, p, n + 1)
  OBVIOUS
<1>7. /\ u = [k \in 1 .. n |-> ring.cell[Place(N, p, d[k - 1])]]
      /\ u \in Seq(Frames) /\ Len(u) = n
  BY <1>3, <1>5, UnreadOf
<1>8. /\ v = [k \in 1 .. n + 1 |-> r.cell[Place(N, p, e[k - 1])]]
      /\ v \in Seq(Frames) /\ Len(v) = n + 1
  <2>1. PICK x \in Nat : x = n + 1
    OBVIOUS
  <2>2. Chain(r, p, x, e) /\ v = Unread(r, p, x)
    BY <1>4, <1>6, <2>1
  <2>3. v = [k \in 1 .. x |-> r.cell[Place(N, p, e[k - 1])]] /\ v \in Seq(Frames) /\ Len(v) = x
    BY <1>2, <2>2, UnreadOf
  <2> QED BY <2>1, <2>3
<1>9. \A k \in 1 .. n : v[k] = u[k]
  <2> SUFFICES ASSUME NEW k \in 1 .. n PROVE v[k] = u[k]
    OBVIOUS
  <2>1. k - 1 \in 0 .. n - 1 /\ k \in 1 .. n + 1
    OBVIOUS
  <2>2. v[k] = r.cell[Place(N, p, e[k - 1])] /\ u[k] = ring.cell[Place(N, p, d[k - 1])]
    BY <1>7, <1>8, <2>1
  <2> QED BY <1>4, <2>1, <2>2
<1>10. v[n + 1] = m
  <2>1. n + 1 \in 1 .. n + 1 /\ (n + 1) - 1 = n
    OBVIOUS
  <2> QED BY <1>4, <1>8, <2>1
<1>11. v = Append(u, m)
  <2>1. /\ Append(u, m) \in Seq(Frames) /\ Len(Append(u, m)) = n + 1
        /\ \A k \in 1 .. n : Append(u, m)[k] = u[k]
        /\ Append(u, m)[n + 1] = m
    BY <1>7
  <2>2. \A k \in 1 .. n + 1 : Append(u, m)[k] = v[k]
    BY <1>9, <1>10, <2>1
  <2> QED BY <1>8, <2>1, <2>2, SeqEqual
<1> QED BY <1>1, <1>4, <1>5, <1>6, <1>11 DEF Queue

\* The first that is unread is where the reader looks; behind it are the others.
LEMMA QueueRead ==
  ASSUME NEW N \in Nat \ {0}, NEW ring \in RingOf(N), NEW p \in 0 .. N - 1,
         NEW n \in Nat \ {0}, Queue(ring, p, n)
  PROVE  /\ ring.cell[p].head /\ p # ring.write
         /\ Unread(ring, p, n) # <<>> /\ Unread(ring, p, n)[1] = ring.cell[p]
         /\ Queue(ring, Behind(ring, p), n - 1)
         /\ Unread(ring, Behind(ring, p), n - 1) = Tail(Unread(ring, p, n))
<1>1. PICK q : q = Behind(ring, p)
  OBVIOUS
<1>2. PICK d : Chain(ring, p, n, d)
  BY DEF Queue
<1>3. ring.cell[p].head /\ p # ring.write /\ Place(N, p, 0) = p
  BY <1>2, ChainFirst
<1>4. q \in 0 .. N - 1
  BY <1>1, <1>2, ChainTaken
<1>5. PICK e : /\ Chain(ring, q, n - 1, e)
               /\ \A k \in 0 .. n - 2 :
                     ring.cell[Place(N, q, e[k])] = ring.cell[Place(N, p, d[k + 1])]
  BY <1>1, <1>2, ChainTaken
<1>6. PICK u : u = Unread(ring, p, n)
  OBVIOUS
<1>7. PICK v : v = Unread(ring, q, n - 1)
  OBVIOUS
<1>8. /\ u = [k \in 1 .. n |-> ring.cell[Place(N, p, d[k - 1])]]
      /\ u \in Seq(Frames) /\ Len(u) = n
  BY <1>2, <1>6, UnreadOf
<1>9. /\ v = [k \in 1 .. n - 1 |-> ring.cell[Place(N, q, e[k - 1])]]
      /\ v \in Seq(Frames) /\ Len(v) = n - 1
  <2>1. PICK x \in Nat : x = n - 1
    OBVIOUS
  <2>2. Chain(ring, q, x, e) /\ v = Unread(ring, q, x)
    BY <1>5, <1>7, <2>1
  <2>3. v = [k \in 1 .. x |-> ring.cell[Place(N, q, e[k - 1])]] /\ v \in Seq(Frames) /\ Len(v) = x
    BY <1>4, <2>2, UnreadOf
  <2> QED BY <2>1, <2>3
<1>10. u # <<>> /\ u[1] = ring.cell[p]
  <2>1. 1 \in 1 .. n /\ 1 - 1 = 0
    OBVIOUS
  <2>2. u[1] = ring.cell[Place(N, p, d[0])] /\ u # <<>>
    BY <1>8, <2>1
  <2>3. d[0] = 0
    BY <1>2 DEF Chain
  <2> QED BY <1>3, <2>2, <2>3
<1>11. \A k \in 1 .. n - 1 : v[k] = u[k + 1]
  <2> SUFFICES ASSUME NEW k \in 1 .. n - 1 PROVE v[k] = u[k + 1]
    OBVIOUS
  <2>1. k - 1 \in 0 .. n - 2 /\ (k - 1) + 1 = k /\ k + 1 \in 1 .. n /\ (k + 1) - 1 = k
    OBVIOUS
  <2>2. v[k] = ring.cell[Place(N, q, e[k - 1])] /\ u[k + 1] = ring.cell[Place(N, p, d[k])]
    BY <1>8, <1>9, <2>1
  <2> QED BY <1>5, <2>1, <2>2
<1>12. v = Tail(u)
  <2>1. /\ Tail(u) \in Seq(Frames) /\ Len(Tail(u)) = n - 1
        /\ \A k \in 1 .. n - 1 : Tail(u)[k] = u[k + 1]
    BY <1>8, <1>10, HeadTailProperties
  <2>2. \A k \in 1 .. n - 1 : Tail(u)[k] = v[k]
    BY <1>11, <2>1
  <2> QED BY <1>9, <2>1, <2>2, SeqEqual
<1> QED BY <1>1, <1>3, <1>5, <1>6, <1>7, <1>10, <1>12 DEF Queue

\* A fresh ring, in which there is nothing.
LEMMA FreshRing ==
  ASSUME LocalMPAssumption, NEW N \in Nat \ {0}
  PROVE  Blank \in Frames /\ ~Blank.head /\ Ring(N) \in RingOf(N) /\ Ring(N).write = 0
<1>1. (CHOOSE i \in Insts : TRUE) \in Insts
  <2>1. \E i \in Insts : TRUE
    BY DEF LocalMPAssumption
  <2> QED BY <2>1
<1>2. Blank \in Frames /\ ~Blank.head
  BY <1>1 DEF Blank, Frames
<1>3. Ring(N) \in RingOf(N) /\ Ring(N).write = 0
  BY <1>2 DEF Ring, RingOf
<1> QED BY <1>2, <1>3

-----------------------------------------------------------------------------
(* The inductive invariant.                                                *)

\* Posts are made before their reader, or the host of a reply, resets the semaphore, and one
\* instance starts games.
Alone == Prompt = TRUE /\ \A i, j \in Hosts : i = j

Whereabouts == {"idle", "post", "command", "commanded", "collect", "answer"}
Tasks   == [round : Nat, members : SUBSET Insts, wanted : SUBSET Insts, heard : SUBSET Insts,
            got : SUBSET Insts]
Purses  == [packets : Nat, commands : Nat, stays : Nat]

Typed ==
    /\ packets \in RingOf(PacketCells) /\ replies \in RingOf(ReplyCells)
    /\ packetRead \in [Insts -> 0 .. PacketCells - 1]
    /\ replyRead \in [Insts -> 0 .. ReplyCells - 1]
    /\ packetSem \in [Insts -> Nat] /\ replySem \in [Insts -> Nat]
    /\ connected \subseteq Insts /\ hostInst \in Insts
    /\ at \in [Insts -> Whereabouts] /\ to \in [Insts -> SUBSET Insts]
    /\ ask \in [Insts -> Frames] /\ task \in Tasks
    /\ answers \subseteq Insts /\ round \in Nat
    /\ budget \in Purses /\ torn \in BOOLEAN

\* No frame is of a round to come.
Stamped ==
    /\ \A p \in 0 .. PacketCells - 1 : packets.cell[p].stamp <= round
    /\ \A p \in 0 .. ReplyCells - 1 : replies.cell[p].stamp <= round
    /\ \A i \in Insts : ask[i].stamp <= round

\* Who has somebody to post is sending; who commands or collects is the host, and connected.
Roles ==
    \A i \in Insts :
       /\ to[i] # {} => at[i] \in {"post", "command"}
       /\ at[i] \in {"command", "commanded", "collect"}
             => i \in connected /\ i \in Hosts /\ i = hostInst /\ task.round = round

\* What i can count on: the tokens it has and those it is about to get.
Waiting(i) == packetSem[i] + Cardinality(Due(i))
Awaited    == replySem[hostInst] + Cardinality(Late)

\* An answer to the last command is one of those given.
Honest(m) == m.len > 0 /\ m.stamp = round => m.from \in answers

PacketsQueued ==
    ~torn => \A i \in connected : Queue(packets, packetRead[i], Waiting(i))

RepliesQueued ==
    ~torn /\ hostInst \in connected =>
       /\ Queue(replies, replyRead[hostInst], Awaited)
       /\ \A k \in 1 .. Awaited : Honest(Unread(replies, replyRead[hostInst], Awaited)[k])

Kept == Typed /\ Stamped /\ Roles /\ PacketsQueued /\ RepliesQueued /\ RepliesFresh

(* What the steps do to the types.                                         *)

\* What the assumption says of a ring and what is written to it.
LEMMA Fits ==
  ASSUME LocalMPAssumption
  PROVE  /\ \A len \in Lengths : len \in Nat /\ len + 1 < PacketCells
         /\ \A len \in ReplyLengths : len \in Nat /\ len + 1 < ReplyCells
         /\ PacketCells \in Nat \ {0} /\ ReplyCells \in Nat \ {0}
         /\ Insts \subseteq Nat /\ IsFiniteSet(Insts) /\ Hosts \subseteq Insts
BY DEF LocalMPAssumption

\* The frames that are sent.
LEMMA Sent ==
  ASSUME LocalMPAssumption, Typed, NEW i \in Insts
  PROVE  /\ \A len \in Lengths :
               /\ [head |-> TRUE, n |-> Number, from |-> i, type |-> 0, len |-> len, stamp |-> 0]
                     \in Frames
               /\ [head |-> TRUE, n |-> Number, from |-> i, type |-> 1, len |-> len,
                   stamp |-> round + 1] \in Frames
         /\ \A len \in ReplyLengths :
               [head |-> TRUE, n |-> 0, from |-> i, type |-> 2, len |-> len,
                stamp |-> ask[i].stamp] \in Frames
<1>1. Number \in Nat /\ round + 1 \in Nat /\ ask[i].stamp \in Nat
  BY DEF Typed, Purses, Number, Frames
<1>2. \A len \in Lengths : len \in Nat
  BY Fits
<1>3. \A len \in ReplyLengths : len \in Nat
  BY Fits
<1> QED BY <1>1, <1>2, <1>3 DEF Frames

\* The offset behind a frame is on the ring.
LEMMA BehindIn ==
  ASSUME NEW N \in Nat \ {0}, NEW ring \in RingOf(N), NEW p \in 0 .. N - 1
  PROVE  Behind(ring, p) \in 0 .. N - 1 /\ ring.cell[p] \in Frames /\ ring.write \in 0 .. N - 1
<1>1. ring.cell[p] \in Frames /\ ring.size = N /\ ring.write \in 0 .. N - 1
  BY DEF RingOf
<1>2. p + ring.cell[p].len + 1 \in Nat
  BY <1>1 DEF Frames
<1>3. PICK x \in Nat : x = p + ring.cell[p].len + 1
  BY <1>2
<1>4. x % N \in 0 .. N - 1
  OBVIOUS
<1> QED BY <1>1, <1>3, <1>4 DEF Behind

LEMMA TypedNext ==
  ASSUME LocalMPAssumption, Typed, [Next]_vars
  PROVE  Typed'
<1> USE DEF vars, rings
<1>1. /\ packets \in RingOf(PacketCells) /\ replies \in RingOf(ReplyCells)
      /\ packetRead \in [Insts -> 0 .. PacketCells - 1]
      /\ replyRead \in [Insts -> 0 .. ReplyCells - 1]
      /\ packetSem \in [Insts -> Nat] /\ replySem \in [Insts -> Nat]
  BY DEF Typed
<1>2. /\ connected \subseteq Insts /\ hostInst \in Insts
      /\ at \in [Insts -> Whereabouts] /\ to \in [Insts -> SUBSET Insts]
      /\ ask \in [Insts -> Frames] /\ task \in Tasks
      /\ answers \subseteq Insts /\ round \in Nat /\ budget \in Purses /\ torn \in BOOLEAN
  BY DEF Typed
<1>3. /\ packets.write \in 0 .. PacketCells - 1 /\ replies.write \in 0 .. ReplyCells - 1
  BY <1>1, Fits DEF RingOf
<1>4. Blank \in Frames /\ NoTask \in Tasks /\ 0 \in Nat
  <2>1. Blank \in Frames
    BY Fits, FreshRing
  <2>2. NoTask \in Tasks
    BY DEF NoTask, Tasks
  <2> QED BY <2>1, <2>2
<1>5. {"idle", "post", "command", "commanded", "collect", "answer"} \subseteq Whereabouts
  BY DEF Whereabouts
<1>6. \A i \in Insts : /\ Facing(i) \in Frames /\ First(i) \in Frames
                       /\ Behind(packets, packetRead[i]) \in 0 .. PacketCells - 1
                       /\ Behind(replies, replyRead[i]) \in 0 .. ReplyCells - 1
  BY <1>1, Fits, BehindIn DEF Facing, First
<1>7. ASSUME NEW i \in Insts, Begin(i) PROVE Typed'
  <2>1. budget' \in Purses
    BY <1>2, <1>7 DEF Begin, Purses
  <2> QED BY <1>1, <1>2, <1>3, <1>4, <1>7, <2>1 DEF Begin, Typed
<1>8. ASSUME NEW i \in Insts, End(i) PROVE Typed'
  BY <1>1, <1>2, <1>4, <1>5, <1>8 DEF End, Typed
<1>9. ASSUME NEW i \in Insts, NEW len \in Lengths, SendPacket(i, len) PROVE Typed'
  <2>1. PICK m \in Frames : m = [head |-> TRUE, n |-> Number, from |-> i, type |-> 0,
                                 len |-> len, stamp |-> 0]
    BY Sent
  <2>2. packets' = FIFOWrite(packets, m) /\ m.len + 1 < PacketCells
    BY <1>9, <2>1, Fits DEF SendPacket
  <2>3. packets' \in RingOf(PacketCells)
    BY <1>1, <2>2, Fits, WriteIs
  <2>4. budget' \in Purses
    BY <1>2, <1>9 DEF SendPacket, Purses
  <2>5. torn' \in BOOLEAN
    BY <1>2, <1>9 DEF SendPacket
  <2> QED BY <1>1, <1>2, <1>5, <1>9, <2>3, <2>4, <2>5 DEF SendPacket, Typed
<1>10. ASSUME NEW i \in Insts, NEW len \in Lengths, SendCmd(i, len) PROVE Typed'
  <2>1. PICK m \in Frames : m = [head |-> TRUE, n |-> Number, from |-> i, type |-> 1,
                                 len |-> len, stamp |-> round + 1]
    BY Sent
  <2>2. packets' = FIFOWrite(packets, m) /\ m.len + 1 < PacketCells
    BY <1>10, <2>1, Fits DEF SendCmd
  <2>3. packets' \in RingOf(PacketCells)
    BY <1>1, <2>2, Fits, WriteIs
  <2>4. budget' \in Purses
    BY <1>2, <1>10 DEF SendCmd, Purses
  <2>5. torn' \in BOOLEAN
    BY <1>2, <1>10 DEF SendCmd
  <2>6. task' \in Tasks
    BY <1>2, <1>4, <1>10 DEF SendCmd, Tasks
  <2>7. replyRead' \in [Insts -> 0 .. ReplyCells - 1] /\ replySem' \in [Insts -> Nat]
    BY <1>1, <1>3, <1>4, <1>10 DEF SendCmd
  <2>8. at' \in [Insts -> Whereabouts] /\ to' \in [Insts -> SUBSET Insts]
    BY <1>2, <1>5, <1>10 DEF SendCmd
  <2> QED BY <1>1, <1>2, <1>10, <2>3, <2>4, <2>5, <2>6, <2>7, <2>8 DEF SendCmd, Typed
<1>11. ASSUME NEW i \in Insts, NEW len \in ReplyLengths, SendReply(i, len) PROVE Typed'
  <2>1. PICK m \in Frames : m = [head |-> TRUE, n |-> 0, from |-> i, type |-> 2, len |-> len,
                                 stamp |-> ask[i].stamp]
    BY Sent
  <2>2. replies' = FIFOWrite(replies, m) /\ m.len + 1 < ReplyCells
    BY <1>11, <2>1, Fits DEF SendReply
  <2>3. replies' \in RingOf(ReplyCells)
    BY <1>1, <2>2, Fits, WriteIs
  <2>4. torn' \in BOOLEAN /\ answers' \subseteq Insts
    BY <1>2, <1>11 DEF SendReply
  <2> QED BY <1>1, <1>2, <1>4, <1>5, <1>11, <2>3, <2>4 DEF SendReply, Typed
<1>12. ASSUME NEW i \in Insts, Post(i) PROVE Typed'
  <2>1. PICK j \in Insts :
           /\ packetSem' = [packetSem EXCEPT ![j] = @ + 1]
           /\ to' = [to EXCEPT ![i] = @ \ {j}]
           /\ at' = [at EXCEPT ![i] = IF to[i] # {j} THEN @
                                      ELSE IF @ = "command" THEN "commanded" ELSE "idle"]
           /\ UNCHANGED <<packets, replies, packetRead, replyRead, replySem, connected,
                          hostInst, ask, task, answers, round, budget, torn>>
    BY <1>2, <1>12 DEF Post
  <2>2. packetSem' \in [Insts -> Nat]
    BY <1>1, <2>1
  <2>3. at' \in [Insts -> Whereabouts] /\ to' \in [Insts -> SUBSET Insts]
    BY <1>2, <1>5, <2>1
  <2> QED BY <1>1, <1>2, <2>1, <2>2, <2>3 DEF Typed
<1>13. ASSUME NEW i \in Insts, PostReply(i) PROVE Typed'
  BY <1>1, <1>2, <1>5, <1>13 DEF PostReply, Typed
<1>14. ASSUME NEW i \in Insts, Resync(i) PROVE Typed'
  BY <1>1, <1>2, <1>3, <1>4, <1>14 DEF Resync, Typed
<1>15. ASSUME NEW i \in Insts, Skip(i) PROVE Typed'
  <2>1. packetSem' \in [Insts -> Nat] /\ packetRead' \in [Insts -> 0 .. PacketCells - 1]
    BY <1>1, <1>6, <1>15 DEF Skip, Ready
  <2> QED BY <1>1, <1>2, <1>15, <2>1 DEF Skip, Typed
<1>16. ASSUME NEW i \in Insts, Take(i) PROVE Typed'
  <2>1. packetSem' \in [Insts -> Nat] /\ packetRead' \in [Insts -> 0 .. PacketCells - 1]
    BY <1>1, <1>6, <1>16 DEF Take, Ready
  <2>2. ask' \in [Insts -> Frames]
    BY <1>2, <1>4, <1>6, <1>16 DEF Take
  <2> QED BY <1>1, <1>2, <1>16, <2>1, <2>2 DEF Take, Typed
<1>17. ASSUME NEW i \in Insts, AskNobody(i) PROVE Typed'
  BY <1>1, <1>2, <1>4, <1>5, <1>17 DEF AskNobody, Typed
<1>18. ASSUME NEW i \in Insts, NEW wanted \in SUBSET (Insts \ {i}), AskReplies(i, wanted)
       PROVE  Typed'
  <2>1. task' \in Tasks
    BY <1>2, <1>18 DEF AskReplies, Tasks
  <2> QED BY <1>1, <1>2, <1>5, <1>18, <2>1 DEF AskReplies, Typed
<1>19. ASSUME NEW i \in Insts, ReplyResync(i) PROVE Typed'
  BY <1>1, <1>2, <1>3, <1>4, <1>5, <1>19 DEF ReplyResync, Typed
<1>20. ASSUME NEW i \in Insts, DropStale(i) PROVE Typed'
  <2>1. replySem' \in [Insts -> Nat] /\ replyRead' \in [Insts -> 0 .. ReplyCells - 1]
    BY <1>1, <1>6, <1>20 DEF DropStale
  <2> QED BY <1>1, <1>2, <1>20, <2>1 DEF DropStale, Typed
<1>21. ASSUME NEW i \in Insts, Accept(i) PROVE Typed'
  <2>1. replySem' \in [Insts -> Nat] /\ replyRead' \in [Insts -> 0 .. ReplyCells - 1]
    BY <1>1, <1>6, <1>21 DEF Accept
  <2>2. First(i).from \in Insts
    BY <1>6 DEF Frames
  <2>3. task' \in Tasks
    BY <1>2, <1>21, <2>2 DEF Accept, Tasks
  <2>4. at' \in [Insts -> Whereabouts]
    BY <1>2, <1>5, <1>21 DEF Accept
  <2> QED BY <1>1, <1>2, <1>21, <2>1, <2>3, <2>4 DEF Accept, Typed
<1>22. ASSUME NEW i \in Insts, GiveUp(i) PROVE Typed'
  BY <1>1, <1>2, <1>4, <1>5, <1>22 DEF GiveUp, Typed
<1>23. CASE UNCHANGED vars
  BY <1>1, <1>2, <1>23 DEF Typed
<1> QED BY <1>7, <1>8, <1>9, <1>10, <1>11, <1>12, <1>13, <1>14, <1>15, <1>16, <1>17, <1>18,
          <1>19, <1>20, <1>21, <1>22, <1>23 DEF Next

-----------------------------------------------------------------------------
(* What the readers can count on.                                          *)

LEMMA Counts ==
  ASSUME LocalMPAssumption, Typed
  PROVE  /\ \A i \in Insts : /\ IsFiniteSet(Due(i)) /\ Cardinality(Due(i)) \in Nat
                             /\ Waiting(i) \in Nat /\ Waiting(i) >= packetSem[i]
         /\ IsFiniteSet(Late) /\ Cardinality(Late) \in Nat
         /\ Awaited \in Nat /\ Awaited >= replySem[hostInst]
<1>1. IsFiniteSet(Insts)
  BY Fits
<1>2. ASSUME NEW i \in Insts
      PROVE  /\ IsFiniteSet(Due(i)) /\ Cardinality(Due(i)) \in Nat
             /\ Waiting(i) \in Nat /\ Waiting(i) >= packetSem[i]
  <2>1. Due(i) \subseteq Insts
    BY DEF Due
  <2>2. IsFiniteSet(Due(i)) /\ Cardinality(Due(i)) \in Nat
    BY <1>1, <2>1, FS_Subset, FS_CardinalityType
  <2>3. packetSem[i] \in Nat
    BY DEF Typed
  <2> QED BY <2>2, <2>3 DEF Waiting
<1>3. IsFiniteSet(Late) /\ Cardinality(Late) \in Nat
  <2>1. Late \subseteq Insts
    BY DEF Late
  <2> QED BY <1>1, <2>1, FS_Subset, FS_CardinalityType
<1>4. replySem[hostInst] \in Nat
  BY DEF Typed
<1>5. Awaited \in Nat /\ Awaited >= replySem[hostInst]
  BY <1>3, <1>4 DEF Awaited
<1> QED BY <1>2, <1>3, <1>5

\* The steps that move nobody to, from or past the posts of a reply.
LEMMA LateSame ==
  ASSUME Typed, NEW i \in Insts, at[i] # "answer", NEW x, x # "answer",
         at' = [at EXCEPT ![i] = x]
  PROVE  Late' = Late
BY DEF Typed, Late

\* What sending a packet owes.
LEMMA DueSent ==
  ASSUME LocalMPAssumption, Typed, NEW i \in Insts, to[i] = {},
         to' = [to EXCEPT ![i] = connected], packetSem' = packetSem
  PROVE  \A j \in Insts : Waiting(j)' = IF j \in connected THEN Waiting(j) + 1 ELSE Waiting(j)
<1> SUFFICES ASSUME NEW j \in Insts
             PROVE  Waiting(j)' = IF j \in connected THEN Waiting(j) + 1 ELSE Waiting(j)
  OBVIOUS
<1>1. i \notin Due(j) /\ IsFiniteSet(Due(j)) /\ Cardinality(Due(j)) \in Nat
  BY Counts DEF Due
<1>2. packetSem[j] \in Nat
  BY DEF Typed
<1>3. CASE j \in connected
  <2>1. Due(j)' = Due(j) \cup {i}
    BY <1>3 DEF Due, Typed
  <2>2. Cardinality(Due(j) \cup {i}) = Cardinality(Due(j)) + 1
    BY <1>1, FS_AddElement
  <2>3. Cardinality(Due(j))' = Cardinality(Due(j)) + 1
    BY <2>1, <2>2
  <2> QED BY <1>1, <1>2, <1>3, <2>3 DEF Waiting
<1>4. CASE j \notin connected
  <2>1. Due(j)' = Due(j)
    BY <1>4 DEF Due, Typed
  <2> QED BY <1>4, <2>1 DEF Waiting
<1> QED BY <1>3, <1>4

\* A post is no longer owed and not yet taken.
LEMMA DuePosted ==
  ASSUME LocalMPAssumption, Typed, NEW i \in Insts, NEW k \in to[i],
         to' = [to EXCEPT ![i] = @ \ {k}], packetSem' = [packetSem EXCEPT ![k] = @ + 1]
  PROVE  \A j \in Insts : Waiting(j)' = Waiting(j)
<1> SUFFICES ASSUME NEW j \in Insts PROVE Waiting(j)' = Waiting(j)
  OBVIOUS
<1>1. IsFiniteSet(Due(j)) /\ Cardinality(Due(j)) \in Nat
  BY Counts
<1>2. packetSem[j] \in Nat /\ k \in Insts
  BY DEF Typed
<1>3. CASE j = k
  <2>1. Due(j)' = Due(j) \ {i} /\ i \in Due(j)
    BY <1>3 DEF Due, Typed
  <2>2. Cardinality(Due(j) \ {i}) = Cardinality(Due(j)) - 1
    BY <1>1, <2>1, FS_RemoveElement
  <2>3. Cardinality(Due(j))' = Cardinality(Due(j)) - 1
    BY <2>1, <2>2
  <2>4. packetSem'[j] = packetSem[j] + 1
    BY <1>3 DEF Typed
  <2> QED BY <1>1, <1>2, <2>3, <2>4 DEF Waiting
<1>4. CASE j # k
  <2>1. Due(j)' = Due(j)
    BY <1>4 DEF Due, Typed
  <2>2. packetSem'[j] = packetSem[j]
    BY <1>4 DEF Typed
  <2> QED BY <2>1, <2>2 DEF Waiting
<1> QED BY <1>3, <1>4

\* Likewise of a reply.
LEMMA LatePosted ==
  ASSUME LocalMPAssumption, Typed, NEW i \in Insts, PostReply(i)
  PROVE  Awaited' = Awaited
<1>1. IsFiniteSet(Late) /\ Cardinality(Late) \in Nat
  BY Counts
<1>2. Late' = Late \ {i} /\ i \in Late
  BY DEF Late, Typed, PostReply
<1>3. Cardinality(Late \ {i}) = Cardinality(Late) - 1
  BY <1>1, <1>2, FS_RemoveElement
<1>4. Cardinality(Late)' = Cardinality(Late) - 1
  BY <1>2, <1>3
<1>5. /\ hostInst' = hostInst /\ replySem[hostInst] \in Nat
      /\ replySem'[hostInst] = replySem[hostInst] + 1
  BY DEF Typed, PostReply
<1> QED BY <1>1, <1>4, <1>5 DEF Awaited

\* A reply that is written is one more to come.
LEMMA LateSent ==
  ASSUME LocalMPAssumption, Typed, NEW i \in Insts, at[i] = "idle",
         at' = [at EXCEPT ![i] = "answer"], replySem' = replySem, hostInst' = hostInst
  PROVE  Awaited' = Awaited + 1
<1>1. IsFiniteSet(Late) /\ Cardinality(Late) \in Nat
  BY Counts
<1>2. Late' = Late \cup {i} /\ i \notin Late
  BY DEF Late, Typed
<1>3. Cardinality(Late \cup {i}) = Cardinality(Late) + 1
  BY <1>1, <1>2, FS_AddElement
<1>4. Cardinality(Late)' = Cardinality(Late) + 1
  BY <1>2, <1>3
<1>5. replySem[hostInst] \in Nat
  BY DEF Typed
<1> QED BY <1>1, <1>4, <1>5 DEF Awaited

-----------------------------------------------------------------------------
(* What the steps do to the stamps and the roles.                          *)

LEMMA StampWritten ==
  ASSUME NEW N \in Nat \ {0}, NEW ring \in RingOf(N), NEW m \in Frames, m.len + 1 < N,
         NEW b \in Nat, m.stamp <= b, \A p \in 0 .. N - 1 : ring.cell[p].stamp <= b
  PROVE  \A p \in 0 .. N - 1 : FIFOWrite(ring, m).cell[p].stamp <= b
<1> SUFFICES ASSUME NEW p \in 0 .. N - 1 PROVE FIFOWrite(ring, m).cell[p].stamp <= b
  OBVIOUS
<1>1. FIFOWrite(ring, m).cell[p] = IF (p - ring.write) % N > m.len THEN ring.cell[p]
                                   ELSE [m EXCEPT !.head = ((p - ring.write) % N = 0)]
  BY WriteIs
<1>2. \A h : [m EXCEPT !.head = h].stamp = m.stamp
  BY DEF Frames
<1> QED BY <1>1, <1>2

LEMMA StampedNext ==
  ASSUME LocalMPAssumption, Typed, Stamped, [Next]_vars
  PROVE  Stamped'
<1> USE DEF vars, rings
<1>1. /\ packets \in RingOf(PacketCells) /\ replies \in RingOf(ReplyCells) /\ round \in Nat
      /\ ask \in [Insts -> Frames] /\ Blank.stamp <= round
      /\ packetRead \in [Insts -> 0 .. PacketCells - 1]
  BY DEF Typed, Blank
<1>2. /\ \A p \in 0 .. PacketCells - 1 : packets.cell[p].stamp <= round
      /\ \A p \in 0 .. ReplyCells - 1 : replies.cell[p].stamp <= round
      /\ \A i \in Insts : ask[i].stamp <= round
  BY DEF Stamped
<1>3. ASSUME UNCHANGED <<packets, replies, ask, round>> PROVE Stamped'
  BY <1>2, <1>3 DEF Stamped
<1>4. ASSUME NEW i \in Insts, End(i) PROVE Stamped'
  <2>1. ask' = [ask EXCEPT ![i] = Blank] /\ UNCHANGED <<packets, replies, round>>
    BY <1>4 DEF End
  <2>2. \A j \in Insts : ask'[j].stamp <= round
    BY <1>1, <1>2, <2>1
  <2> QED BY <1>2, <2>1, <2>2 DEF Stamped
<1>5. ASSUME NEW i \in Insts, NEW len \in Lengths, SendPacket(i, len) PROVE Stamped'
  <2>1. PICK m \in Frames : m = [head |-> TRUE, n |-> Number, from |-> i, type |-> 0,
                                 len |-> len, stamp |-> 0]
    BY Sent
  <2>2. /\ packets' = FIFOWrite(packets, m) /\ m.len + 1 < PacketCells /\ m.stamp <= round
        /\ UNCHANGED <<replies, ask, round>>
    BY <1>1, <1>5, <2>1, Fits DEF SendPacket
  <2>3. \A p \in 0 .. PacketCells - 1 : packets'.cell[p].stamp <= round
    BY <1>1, <1>2, <2>2, Fits, StampWritten
  <2> QED BY <1>2, <2>2, <2>3 DEF Stamped
<1>6. ASSUME NEW i \in Insts, NEW len \in Lengths, SendCmd(i, len) PROVE Stamped'
  <2>1. PICK m \in Frames : m = [head |-> TRUE, n |-> Number, from |-> i, type |-> 1,
                                 len |-> len, stamp |-> round + 1]
    BY Sent
  <2>2. PICK b \in Nat : b = round + 1
    BY <1>1
  <2>3. /\ packets' = FIFOWrite(packets, m) /\ m.len + 1 < PacketCells /\ m.stamp <= b
        /\ UNCHANGED <<replies, ask>> /\ round' = b
    BY <1>6, <2>1, <2>2, Fits DEF SendCmd
  <2>4. /\ \A p \in 0 .. PacketCells - 1 : packets.cell[p].stamp <= b
        /\ \A p \in 0 .. ReplyCells - 1 : replies.cell[p].stamp <= b
        /\ \A j \in Insts : ask[j].stamp <= b
    <3>1. \A f \in Frames : f.stamp \in Nat
      BY DEF Frames
    <3>2. \A p \in 0 .. PacketCells - 1 : packets.cell[p] \in Frames
      BY <1>1 DEF RingOf
    <3>3. \A p \in 0 .. ReplyCells - 1 : replies.cell[p] \in Frames
      BY <1>1 DEF RingOf
    <3>4. \A x \in Nat : x <= round => x <= b
      BY <1>1, <2>2
    <3> QED BY <1>1, <1>2, <3>1, <3>2, <3>3, <3>4
  <2>5. \A p \in 0 .. PacketCells - 1 : packets'.cell[p].stamp <= b
    BY <1>1, <2>3, <2>4, Fits, StampWritten
  <2> QED BY <2>3, <2>4, <2>5 DEF Stamped
<1>7. ASSUME NEW i \in Insts, NEW len \in ReplyLengths, SendReply(i, len) PROVE Stamped'
  <2>1. PICK m \in Frames : m = [head |-> TRUE, n |-> 0, from |-> i, type |-> 2, len |-> len,
                                 stamp |-> ask[i].stamp]
    BY Sent
  <2>2. /\ replies' = FIFOWrite(replies, m) /\ m.len + 1 < ReplyCells /\ m.stamp <= round
        /\ UNCHANGED <<packets, round>> /\ ask' = [ask EXCEPT ![i] = Blank]
    BY <1>2, <1>7, <2>1, Fits DEF SendReply
  <2>3. \A p \in 0 .. ReplyCells - 1 : replies'.cell[p].stamp <= round
    BY <1>1, <1>2, <2>2, Fits, StampWritten
  <2>4. \A j \in Insts : ask'[j].stamp <= round
    BY <1>1, <1>2, <2>2
  <2> QED BY <1>2, <2>2, <2>3, <2>4 DEF Stamped
<1>8. ASSUME NEW i \in Insts, Take(i) PROVE Stamped'
  <2>1. PICK m \in {Blank, Facing(i)} : ask' = [ask EXCEPT ![i] = m]
    BY <1>8 DEF Take
  <2>2. Facing(i).stamp <= round
    BY <1>1, <1>2 DEF Facing
  <2>3. UNCHANGED <<packets, replies, round>>
    BY <1>8 DEF Take
  <2>4. \A j \in Insts : ask'[j].stamp <= round
    BY <1>1, <1>2, <2>1, <2>2
  <2> QED BY <1>2, <2>3, <2>4 DEF Stamped
<1>9. ASSUME NEW i \in Insts,
             \/ Begin(i) \/ Post(i) \/ PostReply(i) \/ Resync(i) \/ Skip(i) \/ AskNobody(i)
             \/ \E wanted \in SUBSET (Insts \ {i}) : AskReplies(i, wanted)
             \/ ReplyResync(i) \/ DropStale(i) \/ Accept(i) \/ GiveUp(i)
       PROVE  UNCHANGED <<packets, replies, ask, round>>
  BY <1>9 DEF Begin, Post, PostReply, Resync, Skip, AskNobody, AskReplies, ReplyResync,
              DropStale, Accept, GiveUp
<1>10. CASE UNCHANGED vars
  BY <1>3, <1>10
<1> QED BY <1>3, <1>4, <1>5, <1>6, <1>7, <1>8, <1>9, <1>10 DEF Next

\* Who plays which part.
LEMMA RolesNext ==
  ASSUME LocalMPAssumption, Alone, Typed, Roles, [Next]_vars
  PROVE  Roles'
<1> USE DEF vars, rings
<1>1. /\ at \in [Insts -> Whereabouts] /\ to \in [Insts -> SUBSET Insts] /\ hostInst \in Insts
      /\ connected \subseteq Insts /\ round \in Nat /\ task \in Tasks
  BY DEF Typed
<1>2. \A j \in Insts :
         /\ to[j] # {} => at[j] \in {"post", "command"}
         /\ at[j] \in {"command", "commanded", "collect"}
               => j \in connected /\ j \in Hosts /\ j = hostInst /\ task.round = round
  BY DEF Roles
<1> DEFINE Same == /\ connected \subseteq connected' /\ hostInst' = hostInst
                   /\ task'.round = task.round /\ round' = round
<1>3. ASSUME NEW i \in Insts, NEW x, at' = [at EXCEPT ![i] = x], to' = to, Same,
             to[i] = {}, x \in {"command", "commanded", "collect"}
                            => at[i] \in {"command", "commanded", "collect"}
      PROVE  Roles'
  BY <1>1, <1>2, <1>3 DEF Roles
<1>4. ASSUME UNCHANGED <<at, to>>, Same PROVE Roles'
  BY <1>2, <1>4 DEF Roles
<1>5. ASSUME NEW i \in Insts, Begin(i) \/ Resync(i) \/ Skip(i) \/ Take(i) \/ DropStale(i)
      PROVE  Roles'
  BY <1>4, <1>5 DEF Begin, Resync, Skip, Take, DropStale
<1>6. ASSUME NEW i \in Insts, End(i) PROVE Roles'
  <2>1. /\ at' = [at EXCEPT ![i] = "idle"] /\ connected' = connected \ {i}
        /\ UNCHANGED <<to, hostInst, task, round>> /\ at[i] \in {"idle", "commanded"}
    BY <1>6 DEF End
  <2> QED BY <1>1, <1>2, <2>1 DEF Roles
<1>7. ASSUME NEW i \in Insts, NEW len \in Lengths, SendPacket(i, len) PROVE Roles'
  <2>1. /\ at' = [at EXCEPT ![i] = "post"] /\ to' = [to EXCEPT ![i] = connected]
        /\ UNCHANGED <<connected, hostInst, task, round>>
    BY <1>7 DEF SendPacket
  <2> QED BY <1>1, <1>2, <2>1 DEF Roles
<1>8. ASSUME NEW i \in Insts, NEW len \in Lengths, SendCmd(i, len) PROVE Roles'
  <2>1. /\ at' = [at EXCEPT ![i] = "command"] /\ to' = [to EXCEPT ![i] = connected]
        /\ connected' = connected /\ hostInst' = i /\ round' = round + 1
        /\ i \in connected /\ i \in Hosts /\ at[i] = "idle"
    BY <1>8 DEF SendCmd
  <2>2. task'.round = round + 1
    BY <1>8 DEF SendCmd, NoTask
  <2>3. \A j \in Insts : j # i => at[j] \notin {"command", "commanded", "collect"}
    BY <1>2, <2>1 DEF Alone
  <2> QED BY <1>1, <1>2, <2>1, <2>2, <2>3 DEF Roles
<1>9. ASSUME NEW i \in Insts, NEW len \in ReplyLengths, SendReply(i, len) PROVE Roles'
  <2>1. at' = [at EXCEPT ![i] = "answer"] /\ UNCHANGED <<to, connected, hostInst, task, round>>
        /\ at[i] = "idle"
    BY <1>9 DEF SendReply
  <2> QED BY <1>2, <1>3, <2>1
<1>10. ASSUME NEW i \in Insts, Post(i) PROVE Roles'
  <2>1. PICK k \in to[i] :
           /\ to' = [to EXCEPT ![i] = @ \ {k}]
           /\ at' = [at EXCEPT ![i] = IF to[i] # {k} THEN @
                                      ELSE IF @ = "command" THEN "commanded" ELSE "idle"]
           /\ UNCHANGED <<connected, hostInst, task, round>>
    BY <1>10 DEF Post
  <2>2. ASSUME NEW j \in Insts
        PROVE  /\ to'[j] # {} => at'[j] \in {"post", "command"}
               /\ at'[j] \in {"command", "commanded", "collect"}
                     => j \in connected /\ j \in Hosts /\ j = hostInst /\ task.round = round
    <3>1. CASE j # i
      BY <1>1, <1>2, <2>1, <3>1
    <3>2. CASE j = i
      <4>1. at[i] \in {"post", "command"}
        BY <1>2, <2>1
      <4>2. to'[i] = to[i] \ {k} /\ at'[i] = IF to[i] # {k} THEN at[i]
                                             ELSE IF at[i] = "command" THEN "commanded" ELSE "idle"
        BY <1>1, <2>1
      <4> QED BY <1>2, <3>2, <4>1, <4>2
    <3> QED BY <3>1, <3>2
  <2> QED BY <2>1, <2>2 DEF Roles
<1>11. ASSUME NEW i \in Insts, PostReply(i) PROVE Roles'
  <2>1. at' = [at EXCEPT ![i] = "idle"] /\ UNCHANGED <<to, connected, hostInst, task, round>>
        /\ at[i] = "answer"
    BY <1>11 DEF PostReply
  <2> QED BY <1>2, <1>3, <2>1
<1>12. ASSUME NEW i \in Insts, AskNobody(i) \/ ReplyResync(i) \/ GiveUp(i) PROVE Roles'
  <2>1. /\ at' = [at EXCEPT ![i] = "idle"] /\ UNCHANGED <<to, connected, hostInst, round>>
        /\ at[i] \in {"commanded", "collect"}
    BY <1>12 DEF AskNobody, ReplyResync, GiveUp
  <2>2. \A j \in Insts : j # i => at[j] \notin {"command", "commanded", "collect"}
    BY <1>2, <2>1 DEF Alone
  <2> QED BY <1>1, <1>2, <2>1, <2>2 DEF Roles
<1>13. ASSUME NEW i \in Insts, NEW wanted \in SUBSET (Insts \ {i}), AskReplies(i, wanted)
       PROVE  Roles'
  <2>1. /\ at' = [at EXCEPT ![i] = "collect"] /\ UNCHANGED <<to, connected, hostInst, round>>
        /\ at[i] = "commanded"
    BY <1>13 DEF AskReplies
  <2>2. task'.round = task.round
    BY <1>1, <1>13 DEF AskReplies, Tasks
  <2> QED BY <1>2, <1>3, <2>1, <2>2
<1>14. ASSUME NEW i \in Insts, Accept(i) PROVE Roles'
  <2>1. /\ task'.round = task.round
        /\ UNCHANGED <<to, connected, hostInst, round>>
        /\ at[i] = "collect"
    BY <1>1, <1>14 DEF Accept, Tasks
  <2>2. PICK x : at' = [at EXCEPT ![i] = x]
    BY <1>14 DEF Accept
  <2> QED BY <1>2, <1>3, <2>1, <2>2
<1>15. CASE UNCHANGED vars
  BY <1>4, <1>15
<1> QED BY <1>5, <1>6, <1>7, <1>8, <1>9, <1>10, <1>11, <1>12, <1>13, <1>14, <1>15 DEF Next

-----------------------------------------------------------------------------
(* What the steps do to what waits in the packet ring: nothing, i takes the *)
(* first, a frame is put for everyone, or i joins.                          *)

Still == UNCHANGED <<packets, packetRead>> /\ \A j \in Insts : Waiting(j)' = Waiting(j)

PacketTaken(i) ==
    /\ UNCHANGED <<packets, connected>>
    /\ i \in connected /\ Waiting(i) \in Nat \ {0}
    /\ packetRead' = [packetRead EXCEPT ![i] = Behind(packets, packetRead[i])]
    /\ \A j \in Insts : Waiting(j)' = IF j = i THEN Waiting(i) - 1 ELSE Waiting(j)

PacketPut(m) ==
    /\ UNCHANGED <<packetRead, connected>>
    /\ m \in Frames /\ m.head /\ m.len + 1 < PacketCells
    /\ packets' = FIFOWrite(packets, m)
    /\ \A j \in Insts : Waiting(j)' = IF j \in connected THEN Waiting(j) + 1 ELSE Waiting(j)
    /\ ~torn' => ~torn /\ \A j \in connected : ~Overtakes(packets, packetRead[j], m)

Joined(i) ==
    /\ connected' = connected \cup {i}
    /\ packets' = packets
    /\ packetRead' = [packetRead EXCEPT ![i] = packets.write]
    /\ \A j \in Insts : Waiting(j)' = IF j = i THEN 0 ELSE Waiting(j)

\* And to what waits for the host in the reply ring.
Silent ==
    /\ UNCHANGED <<replies, hostInst>> /\ replyRead'[hostInst] = replyRead[hostInst]
    /\ Awaited' = Awaited

ReplyTaken ==
    /\ UNCHANGED <<replies, hostInst, connected>>
    /\ hostInst \in connected /\ Awaited \in Nat \ {0}
    /\ replyRead'[hostInst] = Behind(replies, replyRead[hostInst])
    /\ Awaited' = Awaited - 1

ReplyPut(m) ==
    /\ UNCHANGED <<replyRead, hostInst, connected>>
    /\ m \in Frames /\ m.head /\ m.len + 1 < ReplyCells
    /\ replies' = FIFOWrite(replies, m)
    /\ Awaited' = Awaited + 1
    /\ ~torn' => ~torn /\ (hostInst \in connected => ~Overtakes(replies, replyRead[hostInst], m))

ReplyReset ==
    /\ replies' = replies
    /\ replyRead'[hostInst'] = replies.write /\ Awaited' = 0

Unbroken == UNCHANGED <<connected, torn>>

\* Turning wifi on and off.
LEMMA BeginIs ==
  ASSUME LocalMPAssumption, Alone, Typed, NEW i \in Insts, Begin(i)
  PROVE  Joined(i) /\ (IF i = hostInst THEN ReplyReset ELSE Silent) /\ hostInst' = hostInst
<1>1. /\ packetRead' = [packetRead EXCEPT ![i] = packets.write]
      /\ replyRead' = [replyRead EXCEPT ![i] = replies.write]
      /\ packetSem' = [packetSem EXCEPT ![i] = 0] /\ replySem' = [replySem EXCEPT ![i] = 0]
      /\ connected' = connected \cup {i}
      /\ UNCHANGED <<packets, replies, hostInst, at, to>>
      /\ Due(i) = {} /\ (i = hostInst => Late = {})
  BY DEF Begin, Alone
<1>2. /\ packetRead \in [Insts -> 0 .. PacketCells - 1]
      /\ replyRead \in [Insts -> 0 .. ReplyCells - 1]
      /\ packetSem \in [Insts -> Nat] /\ replySem \in [Insts -> Nat] /\ hostInst \in Insts
  BY DEF Typed
<1>3. Cardinality({}) = 0
  BY FS_EmptySet
<1>4. ASSUME NEW j \in Insts PROVE Waiting(j)' = IF j = i THEN 0 ELSE Waiting(j)
  <2>1. Due(j)' = Due(j)
    BY <1>1 DEF Due
  <2>2. packetSem'[j] = IF j = i THEN 0 ELSE packetSem[j]
    BY <1>1, <1>2
  <2>3. CASE j = i
    <3>1. Cardinality(Due(j))' = 0
      BY <1>1, <1>3, <2>1, <2>3
    <3> QED BY <2>2, <2>3, <3>1 DEF Waiting
  <2>4. CASE j # i
    BY <2>1, <2>2, <2>4 DEF Waiting
  <2> QED BY <2>3, <2>4
<1>5. Joined(i)
  BY <1>1, <1>4 DEF Joined
<1>6. Late' = Late
  BY <1>1 DEF Late
<1>7. CASE i = hostInst
  <2>1. Cardinality(Late)' = 0
    BY <1>1, <1>3, <1>6, <1>7
  <2>2. replySem'[hostInst'] = 0 /\ replyRead'[hostInst'] = replies.write
    BY <1>1, <1>2, <1>7
  <2>3. Awaited' = 0
    BY <2>1, <2>2 DEF Awaited
  <2> QED BY <1>1, <1>5, <1>7, <2>2, <2>3 DEF ReplyReset
<1>8. CASE i # hostInst
  <2>1. replySem'[hostInst] = replySem[hostInst] /\ replyRead'[hostInst] = replyRead[hostInst]
    BY <1>1, <1>2, <1>8
  <2>2. Awaited' = Awaited
    BY <1>1, <1>6, <2>1 DEF Awaited
  <2> QED BY <1>1, <1>5, <1>8, <2>1, <2>2 DEF Silent
<1> QED BY <1>7, <1>8

\* Where `at', `to' and the semaphores stand for nothing new.
LEMMA StillIs ==
  ASSUME UNCHANGED <<packets, packetRead, packetSem, to>>
  PROVE  Still
BY DEF Still, Waiting, Due

LEMMA SilentIs ==
  ASSUME UNCHANGED <<replies, replyRead, replySem, hostInst>>, Late' = Late
  PROVE  Silent
BY DEF Silent, Awaited

LEMMA EndIs ==
  ASSUME Typed, NEW i \in Insts, End(i)
  PROVE  Still /\ Silent /\ torn' = torn /\ connected' = connected \ {i}
<1>1. /\ UNCHANGED <<packets, packetRead, packetSem, to, replies, replyRead, replySem,
                     hostInst, torn>>
      /\ at' = [at EXCEPT ![i] = "idle"] /\ at[i] # "answer" /\ connected' = connected \ {i}
  BY DEF End, rings
<1>2. Late' = Late
  BY <1>1, LateSame
<1> QED BY <1>1, <1>2, StillIs, SilentIs

\* The steps nobody's inbox sees.
LEMMA QuietIs ==
  ASSUME LocalMPAssumption, Typed, Roles, NEW i \in Insts,
         \/ Post(i) \/ PostReply(i) \/ AskNobody(i) \/ GiveUp(i)
         \/ \E wanted \in SUBSET (Insts \ {i}) : AskReplies(i, wanted)
  PROVE  Still /\ Silent /\ Unbroken
<1> USE DEF Unbroken, rings
<1>1. CASE Post(i)
  <2>1. PICK k \in to[i] :
           /\ packetSem' = [packetSem EXCEPT ![k] = @ + 1]
           /\ to' = [to EXCEPT ![i] = @ \ {k}]
           /\ at' = [at EXCEPT ![i] = IF to[i] # {k} THEN @
                                      ELSE IF @ = "command" THEN "commanded" ELSE "idle"]
           /\ UNCHANGED <<packets, replies, packetRead, replyRead, replySem, connected,
                          hostInst, torn>>
    BY <1>1 DEF Post
  <2>2. Still
    BY <2>1, DuePosted DEF Still
  <2>3. at[i] \in {"post", "command"}
    BY <2>1 DEF Roles
  <2>4. PICK x : x = IF to[i] # {k} THEN at[i]
                     ELSE IF at[i] = "command" THEN "commanded" ELSE "idle"
    OBVIOUS
  <2>5. x # "answer" /\ at[i] # "answer"
    BY <2>3, <2>4
  <2>6. Late' = Late
    BY <2>1, <2>4, <2>5, LateSame
  <2> QED BY <2>1, <2>2, <2>6, SilentIs
<1>2. CASE PostReply(i)
  <2>1. UNCHANGED <<packets, packetRead, packetSem, to, replies, replyRead, hostInst,
                    connected, torn>>
    BY <1>2 DEF PostReply
  <2>2. Awaited' = Awaited
    BY <1>2, LatePosted
  <2> QED BY <2>1, <2>2, StillIs DEF Silent
<1>3. CASE \/ AskNobody(i) \/ GiveUp(i)
           \/ \E wanted \in SUBSET (Insts \ {i}) : AskReplies(i, wanted)
  <2>1. /\ UNCHANGED <<packets, packetRead, packetSem, to, replies, replyRead, replySem,
                       hostInst, connected, torn>>
        /\ at[i] # "answer" /\ \E x \in {"idle", "collect"} : at' = [at EXCEPT ![i] = x]
    BY <1>3 DEF AskNobody, GiveUp, AskReplies
  <2>2. Late' = Late
    BY <2>1, LateSame
  <2> QED BY <2>1, <2>2, StillIs, SilentIs
<1> QED BY <1>1, <1>2, <1>3

\* A packet or a command is sent.
LEMMA SendPacketIs ==
  ASSUME LocalMPAssumption, Typed, Roles, NEW i \in Insts, NEW len \in Lengths, SendPacket(i, len)
  PROVE  PacketPut([head |-> TRUE, n |-> Number, from |-> i, type |-> 0, len |-> len,
                    stamp |-> 0]) /\ Silent
<1>1. PICK m \in Frames : m = [head |-> TRUE, n |-> Number, from |-> i, type |-> 0,
                               len |-> len, stamp |-> 0]
  BY Sent
<1>2. /\ packets' = FIFOWrite(packets, m) /\ m.head /\ m.len + 1 < PacketCells
      /\ torn' = (torn \/ \E j \in connected : Overtakes(packets, packetRead[j], m))
      /\ at[i] = "idle" /\ at' = [at EXCEPT ![i] = "post"] /\ to' = [to EXCEPT ![i] = connected]
      /\ UNCHANGED <<packetRead, packetSem, connected, replies, replyRead, replySem, hostInst>>
  BY <1>1, Fits DEF SendPacket
<1>3. to[i] = {}
  BY <1>2 DEF Roles
<1>4. \A j \in Insts : Waiting(j)' = IF j \in connected THEN Waiting(j) + 1 ELSE Waiting(j)
  BY <1>2, <1>3, DueSent
<1>5. PacketPut(m)
  BY <1>2, <1>4 DEF PacketPut
<1>6. Late' = Late
  BY <1>2, LateSame
<1> QED BY <1>1, <1>2, <1>5, <1>6, SilentIs

LEMMA SendCmdIs ==
  ASSUME LocalMPAssumption, Alone, Typed, Roles, NEW i \in Insts, NEW len \in Lengths,
         SendCmd(i, len)
  PROVE  PacketPut([head |-> TRUE, n |-> Number, from |-> i, type |-> 1, len |-> len,
                    stamp |-> round + 1]) /\ ReplyReset
<1>1. PICK m \in Frames : m = [head |-> TRUE, n |-> Number, from |-> i, type |-> 1,
                               len |-> len, stamp |-> round + 1]
  BY Sent
<1>2. /\ packets' = FIFOWrite(packets, m) /\ m.head /\ m.len + 1 < PacketCells
      /\ torn' = (torn \/ \E j \in connected : Overtakes(packets, packetRead[j], m))
      /\ at[i] = "idle" /\ at' = [at EXCEPT ![i] = "command"] /\ to' = [to EXCEPT ![i] = connected]
      /\ UNCHANGED <<packetRead, packetSem, connected, replies>>
      /\ hostInst' = i /\ replyRead' = [replyRead EXCEPT ![i] = replies.write]
      /\ replySem' = [replySem EXCEPT ![i] = 0] /\ Late = {}
  BY <1>1, Fits DEF SendCmd, Alone
<1>3. to[i] = {}
  BY <1>2 DEF Roles
<1>4. \A j \in Insts : Waiting(j)' = IF j \in connected THEN Waiting(j) + 1 ELSE Waiting(j)
  BY <1>2, <1>3, DueSent
<1>5. PacketPut(m)
  BY <1>2, <1>4 DEF PacketPut
<1>6. Cardinality(Late)' = 0
  <2>1. Late' = Late
    BY <1>2, LateSame
  <2> QED BY <1>2, <2>1, FS_EmptySet
<1>7. replySem'[hostInst'] = 0 /\ replyRead'[hostInst'] = replies.write
  BY <1>2 DEF Typed
<1>8. ReplyReset
  BY <1>2, <1>6, <1>7 DEF ReplyReset, Awaited
<1> QED BY <1>1, <1>5, <1>8

LEMMA SendReplyIs ==
  ASSUME LocalMPAssumption, Typed, NEW i \in Insts, NEW len \in ReplyLengths, SendReply(i, len)
  PROVE  ReplyPut([head |-> TRUE, n |-> 0, from |-> i, type |-> 2, len |-> len,
                   stamp |-> ask[i].stamp]) /\ Still
<1>1. PICK m \in Frames : m = [head |-> TRUE, n |-> 0, from |-> i, type |-> 2,
                               len |-> len, stamp |-> ask[i].stamp]
  BY Sent
<1>2. /\ replies' = FIFOWrite(replies, m) /\ m.head /\ m.len + 1 < ReplyCells
      /\ torn' = (torn \/ (hostInst \in connected
                             /\ Overtakes(replies, replyRead[hostInst], m)))
      /\ at[i] = "idle" /\ at' = [at EXCEPT ![i] = "answer"]
      /\ UNCHANGED <<packets, packetRead, packetSem, to, replyRead, replySem, hostInst, connected>>
  BY <1>1, Fits DEF SendReply
<1>3. Awaited' = Awaited + 1
  BY <1>2, LateSent
<1>4. ReplyPut(m)
  BY <1>2, <1>3 DEF ReplyPut
<1> QED BY <1>1, <1>2, <1>4, StillIs

\* A packet or a reply is taken.
LEMMA ReadIs ==
  ASSUME LocalMPAssumption, Typed, NEW i \in Insts, Skip(i) \/ Take(i)
  PROVE  PacketTaken(i) /\ Silent /\ torn' = torn /\ Ready(i)
<1>1. /\ packetSem' = [packetSem EXCEPT ![i] = @ - 1] /\ Ready(i)
      /\ packetRead' = [packetRead EXCEPT ![i] = Behind(packets, @)]
      /\ UNCHANGED <<packets, connected, replies, replyRead, replySem, hostInst, at, to, torn>>
  BY DEF Skip, Take
<1>2. /\ packetSem \in [Insts -> Nat] /\ packetRead \in [Insts -> 0 .. PacketCells - 1]
      /\ i \in connected /\ packetSem[i] > 0
  BY <1>1 DEF Typed, Ready
<1>3. /\ \A j \in Insts : Cardinality(Due(j)) \in Nat
      /\ Waiting(i) \in Nat \ {0}
  BY <1>2, Counts
<1>4. ASSUME NEW j \in Insts PROVE Waiting(j)' = IF j = i THEN Waiting(i) - 1 ELSE Waiting(j)
  <2>1. Due(j)' = Due(j)
    BY <1>1 DEF Due
  <2>2. packetSem'[j] = IF j = i THEN packetSem[i] - 1 ELSE packetSem[j]
    BY <1>1, <1>2
  <2>3. /\ Waiting(j)' = packetSem'[j] + Cardinality(Due(j))
        /\ Waiting(j) = packetSem[j] + Cardinality(Due(j))
    BY <2>1 DEF Waiting
  <2>4. Waiting(i) = packetSem[i] + Cardinality(Due(i)) /\ packetSem[i] \in Nat
    BY <1>2 DEF Waiting
  <2> QED BY <1>2, <1>3, <2>2, <2>3, <2>4
<1>5. Late' = Late
  BY <1>1 DEF Late
<1> QED BY <1>1, <1>2, <1>3, <1>4, <1>5, SilentIs DEF PacketTaken

LEMMA ReplyReadIs ==
  ASSUME LocalMPAssumption, Typed, Roles, NEW i \in Insts, DropStale(i) \/ Accept(i)
  PROVE  ReplyTaken /\ Still /\ torn' = torn /\ i = hostInst
<1>1. /\ replySem' = [replySem EXCEPT ![i] = @ - 1]
      /\ replyRead' = [replyRead EXCEPT ![i] = Behind(replies, @)]
      /\ at[i] = "collect" /\ replySem[i] > 0
      /\ \E x \in {"idle", "collect"} : at' = [at EXCEPT ![i] = x]
      /\ UNCHANGED <<packets, packetRead, packetSem, to, replies, hostInst, connected, torn>>
  <2>1. CASE DropStale(i)
    <3>1. at' = at /\ at[i] = "collect"
      BY <2>1 DEF DropStale
    <3>2. at' = [at EXCEPT ![i] = "collect"]
      BY <3>1 DEF Typed
    <3> QED BY <2>1, <3>2 DEF DropStale
  <2>2. CASE Accept(i)
    <3>1. PICK x : /\ at' = [at EXCEPT ![i] = x]
                   /\ x = IF \/ task.members \subseteq task'.heard
                             \/ task.wanted \subseteq task'.got THEN "idle" ELSE at[i]
      BY <2>2 DEF Accept
    <3>2. at[i] = "collect"
      BY <2>2 DEF Accept
    <3>3. x \in {"idle", "collect"}
      BY <3>1, <3>2
    <3> QED BY <2>2, <3>1, <3>3 DEF Accept
  <2> QED BY <2>1, <2>2
<1>2. i = hostInst /\ i \in connected
  BY <1>1 DEF Roles
<1>3. replySem \in [Insts -> Nat] /\ replyRead \in [Insts -> 0 .. ReplyCells - 1]
  BY DEF Typed
<1>4. Late' = Late
  BY <1>1, LateSame
<1>5. Cardinality(Late) \in Nat /\ Awaited \in Nat \ {0}
  BY <1>1, <1>2, <1>3, Counts
<1>6. Awaited' = Awaited - 1
  BY <1>1, <1>2, <1>3, <1>4, <1>5 DEF Awaited
<1>7. replyRead'[hostInst] = Behind(replies, replyRead[hostInst])
  BY <1>1, <1>2, <1>3
<1> QED BY <1>1, <1>2, <1>5, <1>6, <1>7, StillIs DEF ReplyTaken

-----------------------------------------------------------------------------
(* The rings stay queues.                                                  *)

LEMMA PacketsStill ==
  ASSUME PacketsQueued, Still, connected' \subseteq connected, connected \subseteq Insts,
         ~torn' => ~torn
  PROVE  PacketsQueued'
BY DEF PacketsQueued, Still

LEMMA PacketsTaken ==
  ASSUME LocalMPAssumption, Typed, PacketsQueued, NEW i \in Insts, PacketTaken(i),
         ~torn' => ~torn
  PROVE  PacketsQueued'
<1> SUFFICES ASSUME ~torn', NEW j \in connected' PROVE Queue(packets, packetRead[j], Waiting(j))'
  BY DEF PacketsQueued
<1>1. /\ packets' = packets /\ connected' = connected /\ i \in connected /\ Waiting(i) \in Nat \ {0}
      /\ packetRead' = [packetRead EXCEPT ![i] = Behind(packets, packetRead[i])]
      /\ \A k \in Insts : Waiting(k)' = IF k = i THEN Waiting(i) - 1 ELSE Waiting(k)
  BY DEF PacketTaken
<1>2. /\ packets \in RingOf(PacketCells) /\ packetRead \in [Insts -> 0 .. PacketCells - 1]
      /\ PacketCells \in Nat \ {0} /\ j \in connected /\ j \in Insts
  BY <1>1, Fits DEF Typed
<1>3. Queue(packets, packetRead[j], Waiting(j)) /\ Queue(packets, packetRead[i], Waiting(i))
  BY <1>1, <1>2 DEF PacketsQueued
<1>4. CASE j = i
  <2>1. Queue(packets, Behind(packets, packetRead[i]), Waiting(i) - 1)
    BY <1>1, <1>2, <1>3, QueueRead
  <2>2. packetRead'[j] = Behind(packets, packetRead[i]) /\ Waiting(j)' = Waiting(i) - 1
    BY <1>1, <1>2, <1>4
  <2> QED BY <1>1, <2>1, <2>2
<1>5. CASE j # i
  <2>1. packetRead'[j] = packetRead[j] /\ Waiting(j)' = Waiting(j)
    BY <1>1, <1>2, <1>5
  <2> QED BY <1>1, <1>3, <2>1
<1> QED BY <1>4, <1>5

LEMMA PacketsPut ==
  ASSUME LocalMPAssumption, Typed, PacketsQueued, NEW m, PacketPut(m)
  PROVE  PacketsQueued'
<1> SUFFICES ASSUME ~torn', NEW j \in connected' PROVE Queue(packets, packetRead[j], Waiting(j))'
  BY DEF PacketsQueued
<1>1. /\ packetRead' = packetRead /\ connected' = connected
      /\ m \in Frames /\ m.head /\ m.len + 1 < PacketCells /\ packets' = FIFOWrite(packets, m)
      /\ \A k \in Insts : Waiting(k)' = IF k \in connected THEN Waiting(k) + 1 ELSE Waiting(k)
      /\ ~torn /\ \A k \in connected : ~Overtakes(packets, packetRead[k], m)
  BY DEF PacketPut
<1>2. /\ packets \in RingOf(PacketCells) /\ packetRead \in [Insts -> 0 .. PacketCells - 1]
      /\ PacketCells \in Nat \ {0} /\ j \in connected /\ j \in Insts /\ Waiting(j) \in Nat
  BY <1>1, Fits, Counts DEF Typed
<1>3. Queue(packets, packetRead[j], Waiting(j))
  BY <1>1, <1>2 DEF PacketsQueued
<1>4. Queue(FIFOWrite(packets, m), packetRead[j], Waiting(j) + 1)
  BY <1>1, <1>2, <1>3, QueueWrite
<1> QED BY <1>1, <1>2, <1>4

LEMMA PacketsJoined ==
  ASSUME LocalMPAssumption, Typed, PacketsQueued, NEW i \in Insts, Joined(i), ~torn' => ~torn
  PROVE  PacketsQueued'
<1> SUFFICES ASSUME ~torn', NEW j \in connected' PROVE Queue(packets, packetRead[j], Waiting(j))'
  BY DEF PacketsQueued
<1>1. /\ packets' = packets /\ connected' = connected \cup {i}
      /\ packetRead' = [packetRead EXCEPT ![i] = packets.write]
      /\ \A k \in Insts : Waiting(k)' = IF k = i THEN 0 ELSE Waiting(k)
  BY DEF Joined
<1>2. /\ packets \in RingOf(PacketCells) /\ packetRead \in [Insts -> 0 .. PacketCells - 1]
      /\ PacketCells \in Nat \ {0} /\ connected \subseteq Insts
  BY Fits DEF Typed
<1>3. CASE j = i
  <2>1. packetRead'[j] = packets.write /\ Waiting(j)' = 0
    BY <1>1, <1>2, <1>3
  <2>2. Queue(packets, packets.write, 0)
    BY <1>2, QueueNone
  <2> QED BY <1>1, <2>1, <2>2
<1>4. CASE j # i
  <2>1. j \in connected /\ packetRead'[j] = packetRead[j] /\ Waiting(j)' = Waiting(j)
    BY <1>1, <1>2, <1>4
  <2> QED BY <1>1, <2>1 DEF PacketsQueued
<1> QED BY <1>3, <1>4

\* A reader that finds no header was overtaken.
LEMMA ResyncTorn ==
  ASSUME LocalMPAssumption, Typed, PacketsQueued, NEW i \in Insts, Resync(i)
  PROVE  torn
<1> SUFFICES ASSUME ~torn PROVE FALSE
  OBVIOUS
<1>1. i \in connected /\ packetSem[i] > 0 /\ ~packets.cell[packetRead[i]].head
  BY DEF Resync, Ready, Facing
<1>2. /\ packets \in RingOf(PacketCells) /\ packetRead[i] \in 0 .. PacketCells - 1
      /\ PacketCells \in Nat \ {0} /\ packetSem[i] \in Nat
  BY Fits DEF Typed
<1>3. Waiting(i) \in Nat \ {0}
  BY <1>1, <1>2, Counts
<1>4. Queue(packets, packetRead[i], Waiting(i))
  BY <1>1 DEF PacketsQueued
<1> QED BY <1>1, <1>2, <1>3, <1>4, QueueRead

LEMMA RepliesSilent ==
  ASSUME RepliesQueued, Silent, hostInst \in connected' => hostInst \in connected,
         round' = round, answers \subseteq answers', ~torn' => ~torn
  PROVE  RepliesQueued'
<1> SUFFICES ASSUME ~torn', hostInst' \in connected'
             PROVE  /\ Queue(replies, replyRead[hostInst], Awaited)'
                    /\ \A k \in (1 .. Awaited)' :
                          Honest(Unread(replies, replyRead[hostInst], Awaited)[k])'
  BY DEF RepliesQueued
<1>1. /\ replies' = replies /\ hostInst' = hostInst /\ replyRead'[hostInst] = replyRead[hostInst]
      /\ Awaited' = Awaited
  BY DEF Silent
<1>2. /\ Queue(replies, replyRead[hostInst], Awaited)
      /\ \A k \in 1 .. Awaited : Honest(Unread(replies, replyRead[hostInst], Awaited)[k])
  BY <1>1 DEF RepliesQueued
<1>3. \A m : Honest(m) => Honest(m)'
  BY DEF Honest
<1> QED BY <1>1, <1>2, <1>3

LEMMA RepliesTaken ==
  ASSUME LocalMPAssumption, Typed, RepliesQueued, ReplyTaken,
         UNCHANGED <<round, answers>>, ~torn' => ~torn
  PROVE  RepliesQueued'
<1> SUFFICES ASSUME ~torn', hostInst' \in connected'
             PROVE  /\ Queue(replies, replyRead[hostInst], Awaited)'
                    /\ \A k \in (1 .. Awaited)' :
                          Honest(Unread(replies, replyRead[hostInst], Awaited)[k])'
  BY DEF RepliesQueued
<1>1. /\ replies' = replies /\ hostInst' = hostInst /\ hostInst \in connected
      /\ replyRead'[hostInst] = Behind(replies, replyRead[hostInst])
      /\ Awaited' = Awaited - 1 /\ Awaited \in Nat \ {0}
  BY DEF ReplyTaken
<1>2. /\ replies \in RingOf(ReplyCells) /\ replyRead[hostInst] \in 0 .. ReplyCells - 1
      /\ ReplyCells \in Nat \ {0}
  BY Fits DEF Typed
<1>3. PICK p \in 0 .. ReplyCells - 1 : p = replyRead[hostInst]
  BY <1>2
<1>4. PICK n \in Nat \ {0} : n = Awaited
  BY <1>1
<1>5. /\ Queue(replies, p, n)
      /\ \A k \in 1 .. n : Honest(Unread(replies, p, n)[k])
  BY <1>1, <1>3, <1>4 DEF RepliesQueued
<1>6. PICK q : q = Behind(replies, p)
  OBVIOUS
<1>7. Queue(replies, q, n - 1) /\ Unread(replies, q, n - 1) = Tail(Unread(replies, p, n))
      /\ Unread(replies, p, n) # <<>>
  BY <1>2, <1>5, <1>6, QueueRead
<1>8. Unread(replies, p, n) \in Seq(Frames) /\ Len(Unread(replies, p, n)) = n
  BY <1>2, <1>5, QueueHolds
<1>9. \A k \in 1 .. n - 1 : Unread(replies, q, n - 1)[k] = Unread(replies, p, n)[k + 1]
  BY <1>7, <1>8, HeadTailProperties
<1>10. \A k \in 1 .. n - 1 : Honest(Unread(replies, q, n - 1)[k])
  <2>1. \A k \in 1 .. n - 1 : k + 1 \in 1 .. n
    OBVIOUS
  <2> QED BY <1>5, <1>9, <2>1
<1>11. \A m : Honest(m)' <=> Honest(m)
  BY DEF Honest
<1>12. replies' = replies /\ replyRead'[hostInst'] = q /\ Awaited' = n - 1
  BY <1>1, <1>3, <1>4, <1>6
<1> QED BY <1>7, <1>10, <1>11, <1>12

LEMMA RepliesPut ==
  ASSUME LocalMPAssumption, Typed, RepliesQueued, NEW m, ReplyPut(m), Honest(m)',
         round' = round, answers \subseteq answers'
  PROVE  RepliesQueued'
<1> SUFFICES ASSUME ~torn', hostInst' \in connected'
             PROVE  /\ Queue(replies, replyRead[hostInst], Awaited)'
                    /\ \A k \in (1 .. Awaited)' :
                          Honest(Unread(replies, replyRead[hostInst], Awaited)[k])'
  BY DEF RepliesQueued
<1>1. /\ replyRead' = replyRead /\ hostInst' = hostInst /\ hostInst \in connected
      /\ m \in Frames /\ m.head /\ m.len + 1 < ReplyCells /\ replies' = FIFOWrite(replies, m)
      /\ Awaited' = Awaited + 1 /\ ~torn /\ ~Overtakes(replies, replyRead[hostInst], m)
  BY DEF ReplyPut
<1>2. /\ replies \in RingOf(ReplyCells) /\ replyRead[hostInst] \in 0 .. ReplyCells - 1
      /\ ReplyCells \in Nat \ {0} /\ Awaited \in Nat
  BY Fits, Counts DEF Typed
<1>3. PICK p \in 0 .. ReplyCells - 1 : p = replyRead[hostInst]
  BY <1>2
<1>4. PICK n \in Nat : n = Awaited
  BY <1>2
<1>5. /\ Queue(replies, p, n)
      /\ \A k \in 1 .. n : Honest(Unread(replies, p, n)[k])
  BY <1>1, <1>3, <1>4 DEF RepliesQueued
<1>6. PICK r : r = FIFOWrite(replies, m)
  OBVIOUS
<1>7. Queue(r, p, n + 1) /\ Unread(r, p, n + 1) = Append(Unread(replies, p, n), m)
  BY <1>1, <1>2, <1>3, <1>5, <1>6, QueueWrite
<1>8. Unread(replies, p, n) \in Seq(Frames) /\ Len(Unread(replies, p, n)) = n
  BY <1>2, <1>5, QueueHolds
<1>9. \A k \in 1 .. n : Unread(r, p, n + 1)[k] = Unread(replies, p, n)[k]
  BY <1>1, <1>7, <1>8
<1>10. Unread(r, p, n + 1)[n + 1] = m
  BY <1>1, <1>7, <1>8
<1>11. \A f : Honest(f) => Honest(f)'
  BY DEF Honest
<1>12. \A k \in 1 .. n + 1 : Honest(Unread(r, p, n + 1)[k])'
  <2> SUFFICES ASSUME NEW k \in 1 .. n + 1 PROVE Honest(Unread(r, p, n + 1)[k])'
    OBVIOUS
  <2>1. k \in 1 .. n \/ k = n + 1
    OBVIOUS
  <2> QED BY <1>5, <1>9, <1>10, <1>11, <2>1
<1>13. replies' = r /\ replyRead'[hostInst'] = p /\ Awaited' = n + 1
  BY <1>1, <1>3, <1>4, <1>6
<1> QED BY <1>7, <1>12, <1>13

LEMMA RepliesReset ==
  ASSUME LocalMPAssumption, Typed, ReplyReset
  PROVE  RepliesQueued'
<1>1. replies' = replies /\ replyRead'[hostInst'] = replies.write /\ Awaited' = 0
  BY DEF ReplyReset
<1>2. replies \in RingOf(ReplyCells) /\ ReplyCells \in Nat \ {0}
  BY Fits DEF Typed
<1>3. Queue(replies, replies.write, 0)
  BY <1>2, QueueNone
<1>4. Queue(replies, replyRead[hostInst], Awaited)'
  BY <1>1, <1>3
<1>5. (1 .. Awaited)' = {}
  BY <1>1
<1> QED BY <1>4, <1>5 DEF RepliesQueued

LEMMA ReplyResyncTorn ==
  ASSUME LocalMPAssumption, Typed, Roles, RepliesQueued, NEW i \in Insts, ReplyResync(i)
  PROVE  torn
<1> SUFFICES ASSUME ~torn PROVE FALSE
  OBVIOUS
<1>1. at[i] = "collect" /\ replySem[i] > 0 /\ ~replies.cell[replyRead[i]].head
  BY DEF ReplyResync, First
<1>2. i = hostInst /\ i \in connected
  BY <1>1 DEF Roles
<1>3. /\ replies \in RingOf(ReplyCells) /\ replyRead[i] \in 0 .. ReplyCells - 1
      /\ ReplyCells \in Nat \ {0} /\ replySem[i] \in Nat
  BY Fits DEF Typed
<1>4. Awaited \in Nat \ {0}
  <2>1. Awaited \in Nat /\ Awaited >= replySem[hostInst]
    BY Counts
  <2> QED BY <1>1, <1>2, <1>3, <2>1
<1>5. Queue(replies, replyRead[i], Awaited)
  BY <1>2 DEF RepliesQueued
<1> QED BY <1>1, <1>3, <1>4, <1>5, QueueRead

\* Every step keeps both rings queues.
LEMMA QueuesNext ==
  ASSUME LocalMPAssumption, Alone, Kept, [Next]_vars
  PROVE  PacketsQueued' /\ RepliesQueued'
<1> USE DEF vars, rings, Kept
<1>1. connected \subseteq Insts /\ hostInst \in Insts /\ round \in Nat
  BY DEF Typed
<1>2. ASSUME NEW i \in Insts, Begin(i) PROVE PacketsQueued' /\ RepliesQueued'
  <2>1. Joined(i) /\ (IF i = hostInst THEN ReplyReset ELSE Silent)
    BY <1>2, BeginIs
  <2>2. connected' = connected \cup {i} /\ UNCHANGED <<round, answers, torn>>
    BY <1>2 DEF Begin
  <2>3. PacketsQueued'
    BY <2>1, <2>2, PacketsJoined
  <2>4. CASE i = hostInst
    BY <2>1, <2>3, <2>4, RepliesReset
  <2>5. CASE i # hostInst
    BY <2>1, <2>2, <2>3, <2>5, RepliesSilent
  <2> QED BY <2>4, <2>5
<1>3. ASSUME NEW i \in Insts, End(i) PROVE PacketsQueued' /\ RepliesQueued'
  <2>1. Still /\ Silent /\ torn' = torn /\ connected' = connected \ {i}
    BY <1>3, EndIs
  <2>2. UNCHANGED <<round, answers>>
    BY <1>3 DEF End
  <2> QED BY <1>1, <2>1, <2>2, PacketsStill, RepliesSilent
<1>4. ASSUME NEW i \in Insts, NEW len \in Lengths, SendPacket(i, len)
      PROVE  PacketsQueued' /\ RepliesQueued'
  <2>1. PICK m : PacketPut(m) /\ Silent
    BY <1>4, SendPacketIs
  <2>2. UNCHANGED <<round, answers, connected>> /\ (~torn' => ~torn)
    BY <1>4 DEF SendPacket
  <2> QED BY <2>1, <2>2, PacketsPut, RepliesSilent
<1>5. ASSUME NEW i \in Insts, NEW len \in Lengths, SendCmd(i, len)
      PROVE  PacketsQueued' /\ RepliesQueued'
  <2>1. PICK m : PacketPut(m) /\ ReplyReset
    BY <1>5, SendCmdIs
  <2> QED BY <2>1, PacketsPut, RepliesReset
<1>6. ASSUME NEW i \in Insts, NEW len \in ReplyLengths, SendReply(i, len)
      PROVE  PacketsQueued' /\ RepliesQueued'
  <2>1. PICK m : /\ m = [head |-> TRUE, n |-> 0, from |-> i, type |-> 2, len |-> len,
                         stamp |-> ask[i].stamp]
                 /\ ReplyPut(m) /\ Still
    BY <1>6, SendReplyIs
  <2>2. /\ answers' = IF len > 0 /\ ask[i].stamp = round THEN answers \cup {i} ELSE answers
        /\ UNCHANGED <<round, connected>> /\ (~torn' => ~torn)
    BY <1>6 DEF SendReply
  <2>3. Honest(m)' /\ answers \subseteq answers'
    BY <2>1, <2>2 DEF Honest
  <2> QED BY <1>1, <2>1, <2>2, <2>3, PacketsStill, RepliesPut
<1>7. ASSUME NEW i \in Insts,
             \/ Post(i) \/ PostReply(i) \/ AskNobody(i) \/ GiveUp(i)
             \/ \E wanted \in SUBSET (Insts \ {i}) : AskReplies(i, wanted)
      PROVE  PacketsQueued' /\ RepliesQueued'
  <2>1. Still /\ Silent /\ Unbroken
    BY <1>7, QuietIs
  <2>2. UNCHANGED <<round, answers>>
    BY <1>7 DEF Post, PostReply, AskNobody, GiveUp, AskReplies
  <2> QED BY <1>1, <2>1, <2>2, PacketsStill, RepliesSilent DEF Unbroken
<1>8. ASSUME NEW i \in Insts, Skip(i) \/ Take(i) PROVE PacketsQueued' /\ RepliesQueued'
  <2>1. PacketTaken(i) /\ Silent /\ torn' = torn
    BY <1>8, ReadIs
  <2>2. UNCHANGED <<round, answers, connected>>
    BY <1>8 DEF Skip, Take
  <2> QED BY <2>1, <2>2, PacketsTaken, RepliesSilent
<1>9. ASSUME NEW i \in Insts, DropStale(i) \/ Accept(i) PROVE PacketsQueued' /\ RepliesQueued'
  <2>1. ReplyTaken /\ Still /\ torn' = torn
    BY <1>9, ReplyReadIs
  <2>2. UNCHANGED <<round, answers, connected>>
    BY <1>9 DEF DropStale, Accept
  <2> QED BY <1>1, <2>1, <2>2, PacketsStill, RepliesTaken
<1>10. ASSUME NEW i \in Insts, Resync(i) \/ ReplyResync(i)
       PROVE  PacketsQueued' /\ RepliesQueued'
  <2>1. torn
    BY <1>10, ResyncTorn, ReplyResyncTorn
  <2>2. torn'
    BY <1>10, <2>1 DEF Resync, ReplyResync
  <2> QED BY <2>2 DEF PacketsQueued, RepliesQueued
<1>11. CASE UNCHANGED vars
  <2>1. Still /\ Silent
    BY <1>11, StillIs, SilentIs DEF Late
  <2> QED BY <1>1, <1>11, <2>1, PacketsStill, RepliesSilent
<1> QED BY <1>2, <1>3, <1>4, <1>5, <1>6, <1>7, <1>8, <1>9, <1>10, <1>11 DEF Next

\* What the host is handed are answers to its command.
LEMMA FreshNext ==
  ASSUME LocalMPAssumption, Alone, Kept, [Next]_vars
  PROVE  RepliesFresh'
<1> USE DEF vars, rings, Kept
<1>1. task.got \subseteq Insts /\ task \in Tasks
  BY DEF Typed, Tasks
<1>2. ASSUME task'.got \subseteq task.got, answers \subseteq answers', ~torn' => ~torn
      PROVE  RepliesFresh'
  BY <1>2 DEF RepliesFresh
<1>3. ASSUME task' = NoTask PROVE RepliesFresh'
  BY <1>3 DEF RepliesFresh, NoTask
<1>4. ASSUME NEW i \in Insts,
             \/ Begin(i) \/ End(i) \/ Post(i) \/ PostReply(i) \/ Resync(i) \/ Skip(i) \/ Take(i)
             \/ DropStale(i) \/ \E len \in Lengths : SendPacket(i, len)
      PROVE  RepliesFresh'
  <2>1. UNCHANGED <<task, answers>>
    BY <1>4 DEF Begin, End, Post, PostReply, Resync, Skip, Take, DropStale, SendPacket
  <2>2. CASE \E len \in Lengths : SendPacket(i, len)
    BY <1>2, <2>1, <2>2 DEF SendPacket
  <2>3. CASE ~ \E len \in Lengths : SendPacket(i, len)
    <3>1. torn' = torn
      BY <1>4, <2>3 DEF Begin, End, Post, PostReply, Resync, Skip, Take, DropStale
    <3> QED BY <1>2, <2>1, <3>1
  <2> QED BY <2>2, <2>3
<1>5. ASSUME NEW i \in Insts, NEW len \in Lengths, SendCmd(i, len) PROVE RepliesFresh'
  <2>1. task'.got = {}
    BY <1>5 DEF SendCmd, NoTask
  <2> QED BY <2>1 DEF RepliesFresh
<1>6. ASSUME NEW i \in Insts, NEW len \in ReplyLengths, SendReply(i, len) PROVE RepliesFresh'
  <2>1. task' = task /\ answers \subseteq answers' /\ (~torn' => ~torn)
    BY <1>6 DEF SendReply
  <2> QED BY <1>2, <2>1
<1>7. ASSUME NEW i \in Insts, AskNobody(i) \/ ReplyResync(i) \/ GiveUp(i) PROVE RepliesFresh'
  BY <1>3, <1>7 DEF AskNobody, ReplyResync, GiveUp
<1>8. ASSUME NEW i \in Insts, NEW wanted \in SUBSET (Insts \ {i}), AskReplies(i, wanted)
      PROVE  RepliesFresh'
  <2>1. task'.got = task.got /\ UNCHANGED <<answers, torn>>
    BY <1>1, <1>8 DEF AskReplies, Tasks
  <2> QED BY <1>2, <2>1
<1>9. ASSUME NEW i \in Insts, Accept(i) PROVE RepliesFresh'
  <2> SUFFICES ASSUME ~torn PROVE task'.got \subseteq answers'
    BY <1>9 DEF RepliesFresh, Accept
  <2>1. /\ at[i] = "collect" /\ ~Stale(i) /\ UNCHANGED <<answers, torn>>
        /\ task'.got = IF First(i).len > 0 THEN task.got \cup {First(i).from} ELSE task.got
    BY <1>1, <1>9 DEF Accept, Tasks
  <2>2. i = hostInst /\ i \in connected /\ task.round = round
    BY <2>1 DEF Roles
  <2>3. Awaited \in Nat \ {0}
    BY <1>9, ReplyReadIs DEF ReplyTaken
  <2>4. /\ replies \in RingOf(ReplyCells) /\ replyRead[i] \in 0 .. ReplyCells - 1
        /\ ReplyCells \in Nat \ {0} /\ round \in Nat
    BY Fits DEF Typed
  <2>5. /\ Queue(replies, replyRead[i], Awaited)
        /\ \A k \in 1 .. Awaited : Honest(Unread(replies, replyRead[i], Awaited)[k])
    BY <2>2 DEF RepliesQueued
  <2>6. Unread(replies, replyRead[i], Awaited)[1] = First(i)
    BY <2>3, <2>4, <2>5, QueueRead DEF First
  <2>7. Honest(First(i))
    BY <2>3, <2>5, <2>6
  <2>8. First(i).stamp \in Nat /\ First(i).stamp <= round
    <3>1. First(i) \in Frames
      BY <2>4, BehindIn DEF First
    <3> QED BY <2>4, <3>1 DEF Stamped, First, Frames
  <2>9. First(i).stamp = round
    BY <2>1, <2>2, <2>4, <2>8 DEF Stale
  <2>10. task.got \subseteq answers
    BY DEF RepliesFresh
  <2> QED BY <2>1, <2>7, <2>9, <2>10 DEF Honest
<1>10. CASE UNCHANGED vars
  BY <1>2, <1>10
<1> QED BY <1>4, <1>5, <1>6, <1>7, <1>8, <1>9, <1>10 DEF Next

LEMMA KeptInit ==
  ASSUME LocalMPAssumption, Init
  PROVE  Kept
<1>1. /\ packets = Ring(PacketCells) /\ replies = Ring(ReplyCells)
      /\ packetRead = [i \in Insts |-> 0] /\ replyRead = [i \in Insts |-> 0]
      /\ packetSem = [i \in Insts |-> 0] /\ replySem = [i \in Insts |-> 0]
      /\ connected = {} /\ hostInst = CHOOSE i \in Insts : TRUE
      /\ at = [i \in Insts |-> "idle"] /\ to = [i \in Insts |-> {}]
      /\ ask = [i \in Insts |-> Blank] /\ task = NoTask /\ answers = {}
      /\ round = 0 /\ budget \in Budgets /\ torn = FALSE
  BY DEF Init
<1>2. Ring(PacketCells) \in RingOf(PacketCells) /\ Ring(ReplyCells) \in RingOf(ReplyCells)
      /\ Blank \in Frames
  BY Fits, FreshRing
<1>3. hostInst \in Insts
  <2>1. \E i \in Insts : TRUE
    BY DEF LocalMPAssumption
  <2> QED BY <1>1, <2>1
<1>4. NoTask \in Tasks /\ NoTask.got = {} /\ budget \in Purses
  BY <1>1 DEF NoTask, Tasks, Purses, LocalMPAssumption
<1>5. 0 \in 0 .. PacketCells - 1 /\ 0 \in 0 .. ReplyCells - 1 /\ "idle" \in Whereabouts
  BY Fits DEF Whereabouts
<1>6. Typed
  BY <1>1, <1>2, <1>3, <1>4, <1>5 DEF Typed
<1>7. Stamped
  <2>1. /\ \A p \in 0 .. PacketCells - 1 : packets.cell[p] = Blank
        /\ \A p \in 0 .. ReplyCells - 1 : replies.cell[p] = Blank
    BY <1>1 DEF Ring
  <2>2. Blank.stamp = 0
    BY DEF Blank
  <2> QED BY <1>1, <2>1, <2>2 DEF Stamped
<1>8. Roles
  BY <1>1 DEF Roles
<1> QED BY <1>1, <1>4, <1>6, <1>7, <1>8
        DEF Kept, PacketsQueued, RepliesQueued, RepliesFresh

\* The inductive invariant.
THEOREM QueuesHold ==
  ASSUME LocalMPAssumption, Alone
  PROVE  Spec => []Kept
<1>1. Init => Kept
  BY KeptInit
<1>2. Kept /\ [Next]_vars => Kept'
  BY TypedNext, StampedNext, RolesNext, QueuesNext, FreshNext DEF Kept
<1> QED BY <1>1, <1>2, PTL DEF Spec

\* Whoever finds a token finds a frame, and what RecvReplies hands to the host are answers to
\* the command it has just sent, as long as nobody is overtaken.
THEOREM TokensMatch ==
  ASSUME LocalMPAssumption, Alone
  PROVE  Spec => []Matched
<1>1. ASSUME Kept PROVE Matched
  <2>1. Typed /\ RepliesFresh /\ PacketsQueued /\ RepliesQueued
    BY <1>1 DEF Kept
  <2>2. ASSUME ~torn, NEW i \in connected, packetSem[i] > 0 PROVE packetRead[i] # packets.write
    <3>1. /\ packets \in RingOf(PacketCells) /\ packetRead[i] \in 0 .. PacketCells - 1
          /\ PacketCells \in Nat \ {0} /\ packetSem[i] \in Nat /\ i \in Insts
      BY <2>1, Fits DEF Typed
    <3>2. Waiting(i) \in Nat /\ Waiting(i) >= packetSem[i]
      BY <2>1, <3>1, Counts
    <3>3. Waiting(i) \in Nat \ {0}
      BY <2>2, <3>1, <3>2
    <3>4. Queue(packets, packetRead[i], Waiting(i))
      BY <2>1, <2>2 DEF PacketsQueued
    <3> QED BY <3>1, <3>3, <3>4, QueueRead
  <2>3. ASSUME ~torn, hostInst \in connected, replySem[hostInst] > 0
        PROVE  replyRead[hostInst] # replies.write
    <3>1. /\ replies \in RingOf(ReplyCells) /\ replyRead[hostInst] \in 0 .. ReplyCells - 1
          /\ ReplyCells \in Nat \ {0} /\ replySem[hostInst] \in Nat
      BY <2>1, Fits DEF Typed
    <3>2. Awaited \in Nat /\ Awaited >= replySem[hostInst]
      BY <2>1, Counts
    <3>3. Awaited \in Nat \ {0}
      BY <2>3, <3>1, <3>2
    <3>4. Queue(replies, replyRead[hostInst], Awaited)
      BY <2>1, <2>3 DEF RepliesQueued
    <3> QED BY <3>1, <3>3, <3>4, QueueRead
  <2> QED BY <2>1, <2>2, <2>3 DEF Matched, PostedForUnread
<1> QED BY <1>1, QueuesHold, PTL

-----------------------------------------------------------------------------
(* The rings implement Broadcast.  Headers counts up to what the budgets   *)
(* allow, which has to be bounded.                                         *)

Thrifty ==
    \E m \in Nat : \A b \in Budgets : b.packets <= m /\ b.commands <= m /\ b.stays <= m

Bounded ==
    /\ Most \in Purses
    /\ budget.packets <= Most.packets /\ round + budget.commands <= Most.commands
    /\ budget.stays <= Most.stays

LEMMA Greatest ==
  ASSUME NEW S, S \subseteq Nat, NEW m \in Nat, \A x \in S : x <= m, NEW y \in S
  PROVE  Max(S) \in S /\ \A x \in S : x <= Max(S)
<1>1. PICK U : U = {u \in Nat : \A x \in S : x <= u}
  OBVIOUS
<1>2. U \subseteq Nat /\ U # {}
  BY <1>1
<1>3. PICK u \in U : \A v \in U : u <= v
  BY <1>2, Least
<1>4. u \in S
  <2> SUFFICES ASSUME u \notin S PROVE FALSE
    OBVIOUS
  <2>1. u \in Nat /\ \A x \in S : x <= u /\ x # u
    BY <1>1, <1>3
  <2>2. u - 1 \in Nat /\ \A x \in S : x <= u - 1
    BY <2>1
  <2>3. u - 1 \in U
    BY <1>1, <2>2
  <2> QED BY <1>3, <2>1, <2>3
<1>5. \A x \in S : u >= x
  BY <1>1, <1>3
<1>6. Max(S) \in S /\ \A x \in S : Max(S) >= x
  BY <1>4, <1>5 DEF Max
<1> QED BY <1>6

LEMMA MostIs ==
  ASSUME LocalMPAssumption, Thrifty, NEW b \in Budgets
  PROVE  /\ Most \in Purses
         /\ b.packets <= Most.packets /\ b.commands <= Most.commands /\ b.stays <= Most.stays
<1>1. \A c \in Budgets : c.packets \in Nat /\ c.commands \in Nat /\ c.stays \in Nat
  BY DEF LocalMPAssumption
<1>2. PICK m \in Nat : \A c \in Budgets : c.packets <= m /\ c.commands <= m /\ c.stays <= m
  BY DEF Thrifty
<1>3. PICK P : P = {c.packets : c \in Budgets}
  OBVIOUS
<1>4. PICK C : C = {c.commands : c \in Budgets}
  OBVIOUS
<1>5. PICK T : T = {c.stays : c \in Budgets}
  OBVIOUS
<1>6. P \subseteq Nat /\ (\A x \in P : x <= m) /\ b.packets \in P
  BY <1>1, <1>2, <1>3
<1>7. C \subseteq Nat /\ (\A x \in C : x <= m) /\ b.commands \in C
  BY <1>1, <1>2, <1>4
<1>8. T \subseteq Nat /\ (\A x \in T : x <= m) /\ b.stays \in T
  BY <1>1, <1>2, <1>5
<1>9. Max(P) \in Nat /\ b.packets <= Max(P)
  BY <1>6, Greatest
<1>10. Max(C) \in Nat /\ b.commands <= Max(C)
  BY <1>7, Greatest
<1>11. Max(T) \in Nat /\ b.stays <= Max(T)
  BY <1>8, Greatest
<1>12. Most = [packets |-> Max(P), commands |-> Max(C), stays |-> Max(T)]
  BY <1>3, <1>4, <1>5 DEF Most
<1> QED BY <1>9, <1>10, <1>11, <1>12 DEF Purses

LEMMA BoundedInit ==
  ASSUME LocalMPAssumption, Thrifty, Init
  PROVE  Bounded
<1>1. budget \in Budgets /\ round = 0
  BY DEF Init
<1>2. /\ Most \in Purses /\ budget.packets <= Most.packets
      /\ budget.commands <= Most.commands /\ budget.stays <= Most.stays
  BY <1>1, MostIs
<1>3. budget.commands \in Nat
  BY <1>1 DEF LocalMPAssumption
<1> QED BY <1>1, <1>2, <1>3 DEF Bounded

LEMMA BoundedNext ==
  ASSUME Typed, Bounded, [Next]_vars
  PROVE  Bounded'
<1> USE DEF vars, rings
<1>1. /\ budget.packets \in Nat /\ budget.commands \in Nat /\ budget.stays \in Nat
      /\ round \in Nat /\ budget \in Purses
  BY DEF Typed, Purses
<1>2. Most \in Purses /\ Most' = Most
  BY DEF Bounded, Most
<1>3. /\ Most.packets \in Nat /\ Most.commands \in Nat /\ Most.stays \in Nat
      /\ budget.packets <= Most.packets /\ round + budget.commands <= Most.commands
      /\ budget.stays <= Most.stays
  BY <1>2 DEF Bounded, Purses
<1>4. ASSUME UNCHANGED <<budget, round>> PROVE Bounded'
  BY <1>2, <1>3, <1>4 DEF Bounded
<1>5. ASSUME NEW i \in Insts, Begin(i) PROVE Bounded'
  <2>1. /\ round' = round /\ budget'.packets = budget.packets
        /\ budget'.commands = budget.commands /\ budget'.stays = budget.stays - 1
    BY <1>1, <1>5 DEF Begin, Purses
  <2> QED BY <1>1, <1>2, <1>3, <2>1 DEF Bounded
<1>6. ASSUME NEW i \in Insts, NEW len \in Lengths, SendPacket(i, len) PROVE Bounded'
  <2>1. /\ round' = round /\ budget'.packets = budget.packets - 1
        /\ budget'.commands = budget.commands /\ budget'.stays = budget.stays
    BY <1>1, <1>6 DEF SendPacket, Purses
  <2> QED BY <1>1, <1>2, <1>3, <2>1 DEF Bounded
<1>7. ASSUME NEW i \in Insts, NEW len \in Lengths, SendCmd(i, len) PROVE Bounded'
  <2>1. /\ round' = round + 1 /\ budget'.packets = budget.packets
        /\ budget'.commands = budget.commands - 1 /\ budget'.stays = budget.stays
    BY <1>1, <1>7 DEF SendCmd, Purses
  <2> QED BY <1>1, <1>2, <1>3, <2>1 DEF Bounded
<1>8. ASSUME NEW i \in Insts,
             \/ End(i) \/ \E len \in ReplyLengths : SendReply(i, len)
             \/ Post(i) \/ PostReply(i) \/ Resync(i) \/ Skip(i) \/ Take(i)
      PROVE  UNCHANGED <<budget, round>>
  BY <1>8 DEF End, SendReply, Post, PostReply, Resync, Skip, Take
<1>9. ASSUME NEW i \in Insts,
             \/ AskNobody(i) \/ \E wanted \in SUBSET (Insts \ {i}) : AskReplies(i, wanted)
             \/ ReplyResync(i) \/ DropStale(i) \/ Accept(i) \/ GiveUp(i)
      PROVE  UNCHANGED <<budget, round>>
  BY <1>9 DEF AskNobody, AskReplies, ReplyResync, DropStale, Accept, GiveUp
<1> QED BY <1>4, <1>5, <1>6, <1>7, <1>8, <1>9 DEF Next

\* The frames that are sent are headers.
LEMMA SentHeaders ==
  ASSUME LocalMPAssumption, Typed, Stamped, Bounded, NEW i \in Insts
  PROVE  /\ \A len \in Lengths : budget.packets > 0 =>
               [head |-> TRUE, n |-> Number, from |-> i, type |-> 0, len |-> len, stamp |-> 0]
                     \in Headers
         /\ \A len \in Lengths : budget.commands > 0 =>
               [head |-> TRUE, n |-> Number, from |-> i, type |-> 1, len |-> len,
                stamp |-> round + 1] \in Headers
         /\ \A len \in ReplyLengths :
               [head |-> TRUE, n |-> 0, from |-> i, type |-> 2, len |-> len,
                stamp |-> ask[i].stamp] \in Headers
<1>1. budget.packets \in Nat /\ budget.commands \in Nat /\ round \in Nat /\ ask[i].stamp \in Nat
  BY DEF Typed, Purses, Frames
<1>5. Most.packets \in Nat /\ Most.commands \in Nat
  BY DEF Bounded, Purses
<1>2. Number \in 0 .. Most.packets + Most.commands /\ 0 \in 0 .. Most.packets + Most.commands
  BY <1>1, <1>5 DEF Bounded, Number
<1>3. budget.commands > 0 => round + 1 \in 0 .. Most.commands
  BY <1>1, <1>5 DEF Bounded
<1>4. ask[i].stamp \in 0 .. Most.commands /\ 0 \in 0 .. Most.commands
  <2>1. ask[i].stamp <= round
    BY DEF Stamped
  <2>2. round <= Most.commands
    BY <1>1, <1>5 DEF Bounded
  <2> QED BY <1>1, <1>5, <2>1, <2>2
<1> QED BY <1>2, <1>3, <1>4 DEF Headers

\* Broadcast's variables.
Inbox == [i \in Insts |-> IF torn \/ i \notin connected THEN <<>>
                          ELSE Unread(packets, packetRead[i], Waiting(i))]
Box   == IF torn \/ hostInst \notin connected THEN <<>>
         ELSE Unread(replies, replyRead[hostInst], Awaited)

LEMMA ToJoin ==
  ASSUME NEW i \in Insts, connected' = connected \cup {i}, torn' = torn,
         Box' = <<>> \/ Box' = Box, Inbox' = [Inbox EXCEPT ![i] = <<>>]
  PROVE  Abstract!Join(i)
BY DEF Abstract!Join, Abstract!Forget, Inbox, Box, Waiting, Awaited

LEMMA ToLeave ==
  ASSUME NEW i \in Insts, connected' = connected \ {i}, torn' = torn,
         Box' = <<>> \/ Box' = Box, Inbox' = [Inbox EXCEPT ![i] = <<>>]
  PROVE  Abstract!Leave(i)
BY DEF Abstract!Leave, Abstract!Forget, Inbox, Box, Waiting, Awaited

LEMMA ToSend ==
  ASSUME NEW i \in connected, connected \subseteq Insts, connected' = connected, torn' = torn,
         Box' = <<>> \/ Box' = Box, NEW m \in Headers,
         Inbox' = [j \in Insts |-> IF j \in connected THEN Append(Inbox[j], m) ELSE Inbox[j]],
         NEW T, Inbox[i] \in Seq(T), m \in T
  PROVE  Abstract!Send(i)
<1>1. Inbox'[i] = Append(Inbox[i], m)
  OBVIOUS
<1>3. PICK s \in Seq(T) : s = Inbox[i]
  OBVIOUS
<1>4. Append(s, m) # <<>> /\ Append(s, m)[Len(Append(s, m))] = m
  OBVIOUS
<1>2. Inbox'[i] # <<>> /\ Inbox'[i][Len(Inbox'[i])] = m
  BY <1>1, <1>3, <1>4
<1> QED BY <1>2 DEF Abstract!Send, Abstract!Forget, Inbox, Box, Waiting, Awaited

LEMMA ToReceive ==
  ASSUME NEW i \in Insts, UNCHANGED <<connected, torn, Box>>, Inbox[i] # <<>>,
         Inbox' = [Inbox EXCEPT ![i] = Tail(Inbox[i])]
  PROVE  Abstract!Receive(i)
BY DEF Abstract!Receive, Inbox, Box, Waiting, Awaited

LEMMA ToReply ==
  ASSUME UNCHANGED <<connected, torn, Inbox>>, NEW m \in Headers, Box' = Append(Box, m),
         NEW T, Box \in Seq(T), m \in T
  PROVE  Abstract!Reply
<1>1. Box' # <<>> /\ Box'[Len(Box')] = m
  OBVIOUS
<1> QED BY <1>1 DEF Abstract!Reply, Inbox, Box, Waiting, Awaited

LEMMA ToCollect ==
  ASSUME UNCHANGED <<connected, torn, Inbox>>, Box # <<>>, Box' = Tail(Box)
  PROVE  Abstract!Collect
BY DEF Abstract!Collect, Inbox, Box, Waiting, Awaited

LEMMA ToBreak ==
  ASSUME torn', connected' = connected, torn' \in BOOLEAN
  PROVE  Abstract!Break
BY DEF Abstract!Break

LEMMA ToBroken ==
  ASSUME torn, torn', torn \in BOOLEAN, torn' \in BOOLEAN
  PROVE  Abstract!Next
BY DEF Abstract!Next

LEMMA ToNothing ==
  ASSUME UNCHANGED <<connected, torn, Inbox, Box>>
  PROVE  UNCHANGED Abstract!vars
BY DEF Abstract!vars, Inbox, Box, Waiting, Awaited

\* What the steps do to them.
LEMMA InboxStill ==
  ASSUME Still, connected' = connected, torn' = torn
  PROVE  Inbox' = Inbox
BY DEF Still, Inbox

LEMMA BoxSilent ==
  ASSUME Silent, torn' = torn, hostInst \in connected' <=> hostInst \in connected
  PROVE  Box' = Box
BY DEF Silent, Box

LEMMA InboxPut ==
  ASSUME LocalMPAssumption, Typed, PacketsQueued, NEW m, PacketPut(m), ~torn'
  PROVE  /\ Inbox' = [j \in Insts |-> IF j \in connected THEN Append(Inbox[j], m) ELSE Inbox[j]]
         /\ \A j \in connected : Inbox[j] \in Seq(Frames)
         /\ m \in Frames
<1>1. /\ packetRead' = packetRead /\ connected' = connected
      /\ m \in Frames /\ m.head /\ m.len + 1 < PacketCells /\ packets' = FIFOWrite(packets, m)
      /\ \A k \in Insts : Waiting(k)' = IF k \in connected THEN Waiting(k) + 1 ELSE Waiting(k)
      /\ ~torn /\ \A k \in connected : ~Overtakes(packets, packetRead[k], m)
  BY DEF PacketPut
<1>2. ASSUME NEW j \in connected
      PROVE  /\ Inbox[j] \in Seq(Frames)
             /\ Unread(packets, packetRead[j], Waiting(j))' = Append(Inbox[j], m)
  <2>1. /\ packets \in RingOf(PacketCells) /\ packetRead[j] \in 0 .. PacketCells - 1
        /\ PacketCells \in Nat \ {0} /\ j \in Insts /\ Waiting(j) \in Nat
    BY Fits, Counts DEF Typed
  <2>2. Queue(packets, packetRead[j], Waiting(j))
    BY <1>1 DEF PacketsQueued
  <2>3. Inbox[j] = Unread(packets, packetRead[j], Waiting(j))
    BY <1>1, <2>1 DEF Inbox
  <2>4. Inbox[j] \in Seq(Frames)
    BY <2>1, <2>2, <2>3, QueueHolds
  <2>5. Unread(FIFOWrite(packets, m), packetRead[j], Waiting(j) + 1) = Append(Inbox[j], m)
    BY <1>1, <2>1, <2>2, <2>3, QueueWrite
  <2>6. packets' = FIFOWrite(packets, m) /\ packetRead'[j] = packetRead[j]
        /\ Waiting(j)' = Waiting(j) + 1
    BY <1>1, <2>1
  <2> QED BY <2>4, <2>5, <2>6
<1>3. ASSUME NEW j \in Insts
      PROVE  (IF torn \/ j \notin connected THEN <<>>
              ELSE Unread(packets, packetRead[j], Waiting(j)))'
                = IF j \in connected THEN Append(Inbox[j], m) ELSE Inbox[j]
  <2>1. CASE j \in connected
    BY <1>1, <1>2, <2>1
  <2>2. CASE j \notin connected
    BY <1>1, <2>2 DEF Inbox
  <2> QED BY <2>1, <2>2
<1>4. Inbox' = [j \in Insts |-> IF j \in connected THEN Append(Inbox[j], m) ELSE Inbox[j]]
  BY <1>3 DEF Inbox
<1> QED BY <1>1, <1>2, <1>4

LEMMA InboxTaken ==
  ASSUME LocalMPAssumption, Typed, PacketsQueued, NEW i \in Insts, PacketTaken(i), ~torn, ~torn'
  PROVE  Inbox[i] # <<>> /\ Inbox' = [Inbox EXCEPT ![i] = Tail(Inbox[i])]
<1>1. /\ packets' = packets /\ connected' = connected /\ i \in connected /\ Waiting(i) \in Nat \ {0}
      /\ packetRead' = [packetRead EXCEPT ![i] = Behind(packets, packetRead[i])]
      /\ \A k \in Insts : Waiting(k)' = IF k = i THEN Waiting(i) - 1 ELSE Waiting(k)
  BY DEF PacketTaken
<1>2. /\ packets \in RingOf(PacketCells) /\ packetRead \in [Insts -> 0 .. PacketCells - 1]
      /\ PacketCells \in Nat \ {0}
  BY Fits DEF Typed
<1>3. Queue(packets, packetRead[i], Waiting(i))
  BY <1>1 DEF PacketsQueued
<1>4. Inbox[i] = Unread(packets, packetRead[i], Waiting(i))
  BY <1>1 DEF Inbox
<1>5. /\ Inbox[i] # <<>>
      /\ Unread(packets, Behind(packets, packetRead[i]), Waiting(i) - 1) = Tail(Inbox[i])
  BY <1>1, <1>2, <1>3, <1>4, QueueRead
<1>6. Unread(packets, packetRead[i], Waiting(i))' = Tail(Inbox[i])
  <2>1. packetRead'[i] = Behind(packets, packetRead[i]) /\ Waiting(i)' = Waiting(i) - 1
    BY <1>1, <1>2
  <2> QED BY <1>1, <1>5, <2>1
<1>7. ASSUME NEW j \in Insts
      PROVE  (IF torn \/ j \notin connected THEN <<>>
              ELSE Unread(packets, packetRead[j], Waiting(j)))'
                = IF j = i THEN Tail(Inbox[i]) ELSE Inbox[j]
  <2>1. CASE j = i
    BY <1>1, <1>6, <2>1
  <2>2. CASE j # i
    <3>1. packetRead'[j] = packetRead[j] /\ Waiting(j)' = Waiting(j)
      BY <1>1, <1>2, <2>2
    <3> QED BY <1>1, <2>2, <3>1 DEF Inbox
  <2> QED BY <2>1, <2>2
<1>8. Inbox' = [Inbox EXCEPT ![i] = Tail(Inbox[i])]
  <2>1. Inbox' = [j \in Insts |-> IF j = i THEN Tail(Inbox[i]) ELSE Inbox[j]]
    BY <1>7 DEF Inbox
  <2>2. Inbox = [j \in Insts |-> Inbox[j]]
    BY DEF Inbox
  <2> QED BY <2>1, <2>2
<1> QED BY <1>5, <1>8

LEMMA InboxJoined ==
  ASSUME LocalMPAssumption, Typed, NEW i \in Insts, Joined(i), ~torn, ~torn'
  PROVE  Inbox' = [Inbox EXCEPT ![i] = <<>>]
<1>1. /\ packets' = packets /\ connected' = connected \cup {i}
      /\ packetRead' = [packetRead EXCEPT ![i] = packets.write]
      /\ \A k \in Insts : Waiting(k)' = IF k = i THEN 0 ELSE Waiting(k)
  BY DEF Joined
<1>2. /\ packets \in RingOf(PacketCells) /\ packetRead \in [Insts -> 0 .. PacketCells - 1]
      /\ PacketCells \in Nat \ {0}
  BY Fits DEF Typed
<1>3. Unread(packets, packetRead[i], Waiting(i))' = <<>>
  <2>1. packetRead'[i] = packets.write /\ Waiting(i)' = 0
    BY <1>1, <1>2
  <2>2. Unread(packets, packets.write, 0) = <<>>
    BY <1>2, QueueNone
  <2> QED BY <1>1, <2>1, <2>2
<1>4. ASSUME NEW j \in Insts
      PROVE  (IF torn \/ j \notin connected THEN <<>>
              ELSE Unread(packets, packetRead[j], Waiting(j)))'
                = IF j = i THEN <<>> ELSE Inbox[j]
  <2>1. CASE j = i
    BY <1>3, <2>1
  <2>2. CASE j # i
    <3>1. packetRead'[j] = packetRead[j] /\ Waiting(j)' = Waiting(j)
      BY <1>1, <1>2, <2>2
    <3> QED BY <1>1, <2>2, <3>1 DEF Inbox
  <2> QED BY <2>1, <2>2
<1>5. Inbox' = [j \in Insts |-> IF j = i THEN <<>> ELSE Inbox[j]]
  BY <1>4 DEF Inbox
<1>6. Inbox = [j \in Insts |-> Inbox[j]]
  BY DEF Inbox
<1> QED BY <1>5, <1>6

LEMMA InboxLeft ==
  ASSUME NEW i \in Insts, Still, connected' = connected \ {i}, torn' = torn
  PROVE  Inbox' = [Inbox EXCEPT ![i] = <<>>]
<1>1. Inbox' = [j \in Insts |-> IF j = i THEN <<>> ELSE Inbox[j]]
  BY DEF Still, Inbox
<1>2. Inbox = [j \in Insts |-> Inbox[j]]
  BY DEF Inbox
<1> QED BY <1>1, <1>2

LEMMA BoxReset ==
  ASSUME LocalMPAssumption, Typed, ReplyReset
  PROVE  Box' = <<>>
<1>1. replies' = replies /\ replyRead'[hostInst'] = replies.write /\ Awaited' = 0
  BY DEF ReplyReset
<1>2. Unread(replies, replies.write, 0) = <<>>
  BY Fits, QueueNone DEF Typed
<1>3. Unread(replies, replyRead[hostInst], Awaited)' = <<>>
  BY <1>1, <1>2
<1> QED BY <1>3 DEF Box

LEMMA BoxTaken ==
  ASSUME LocalMPAssumption, Typed, RepliesQueued, ReplyTaken, ~torn, ~torn'
  PROVE  Box # <<>> /\ Box' = Tail(Box)
<1>1. /\ replies' = replies /\ hostInst' = hostInst /\ connected' = connected
      /\ hostInst \in connected /\ Awaited \in Nat \ {0} /\ Awaited' = Awaited - 1
      /\ replyRead'[hostInst] = Behind(replies, replyRead[hostInst])
  BY DEF ReplyTaken
<1>2. /\ replies \in RingOf(ReplyCells) /\ replyRead[hostInst] \in 0 .. ReplyCells - 1
      /\ ReplyCells \in Nat \ {0}
  BY Fits DEF Typed
<1>3. Queue(replies, replyRead[hostInst], Awaited)
  BY <1>1 DEF RepliesQueued
<1>4. Box = Unread(replies, replyRead[hostInst], Awaited)
  BY <1>1 DEF Box
<1>5. /\ Box # <<>>
      /\ Unread(replies, Behind(replies, replyRead[hostInst]), Awaited - 1) = Tail(Box)
  BY <1>1, <1>2, <1>3, <1>4, QueueRead
<1>6. Unread(replies, replyRead[hostInst], Awaited)' = Tail(Box)
  BY <1>1, <1>5
<1>7. Box' = Unread(replies, replyRead[hostInst], Awaited)'
  BY <1>1 DEF Box
<1> QED BY <1>5, <1>6, <1>7

LEMMA BoxPut ==
  ASSUME LocalMPAssumption, Typed, RepliesQueued, NEW m, ReplyPut(m), ~torn'
  PROVE  IF hostInst \in connected
         THEN Box' = Append(Box, m) /\ Box \in Seq(Frames) /\ m \in Frames
         ELSE Box' = Box
<1>1. /\ replyRead' = replyRead /\ hostInst' = hostInst /\ connected' = connected
      /\ m \in Frames /\ m.head /\ m.len + 1 < ReplyCells /\ replies' = FIFOWrite(replies, m)
      /\ Awaited' = Awaited + 1 /\ ~torn
      /\ hostInst \in connected => ~Overtakes(replies, replyRead[hostInst], m)
  BY DEF ReplyPut
<1>2. /\ replies \in RingOf(ReplyCells) /\ replyRead[hostInst] \in 0 .. ReplyCells - 1
      /\ ReplyCells \in Nat \ {0} /\ Awaited \in Nat
  BY Fits, Counts DEF Typed
<1>3. CASE hostInst \in connected
  <2>1. Queue(replies, replyRead[hostInst], Awaited)
    BY <1>1, <1>3 DEF RepliesQueued
  <2>2. Box = Unread(replies, replyRead[hostInst], Awaited)
    BY <1>1, <1>3 DEF Box
  <2>3. Box \in Seq(Frames)
    BY <1>2, <2>1, <2>2, QueueHolds
  <2>4. Unread(FIFOWrite(replies, m), replyRead[hostInst], Awaited + 1) = Append(Box, m)
    BY <1>1, <1>2, <1>3, <2>1, <2>2, QueueWrite
  <2>5. Box' = Unread(replies, replyRead[hostInst], Awaited)'
    BY <1>1, <1>3 DEF Box
  <2> QED BY <1>1, <1>3, <2>3, <2>4, <2>5
<1>4. CASE hostInst \notin connected
  BY <1>1, <1>4 DEF Box
<1> QED BY <1>3, <1>4

\* Every step is one of Broadcast's, or none.
LEMMA StepImplements ==
  ASSUME LocalMPAssumption, Alone, Kept, Bounded, Typed', [Next]_vars
  PROVE  [Abstract!Next]_(Abstract!vars)
<1> USE DEF vars, rings, Kept
<1>1. /\ connected \subseteq Insts /\ hostInst \in Insts /\ torn \in BOOLEAN /\ torn' \in BOOLEAN
  BY DEF Typed
<1>2. CASE torn /\ torn'
  BY <1>1, <1>2, ToBroken
<1>3. CASE ~torn /\ torn' /\ connected' = connected
  BY <1>1, <1>3, ToBreak DEF Abstract!Next
<1>4. ASSUME ~torn, ~torn', NEW i \in Insts, Begin(i) PROVE Abstract!Next
  <2>1. Joined(i) /\ (IF i = hostInst THEN ReplyReset ELSE Silent) /\ hostInst' = hostInst
    BY <1>4, BeginIs
  <2>2. torn' = torn /\ connected' = connected \cup {i}
    BY <1>4 DEF Begin
  <2>3. Inbox' = [Inbox EXCEPT ![i] = <<>>]
    BY <1>4, <2>1, InboxJoined
  <2>4. Box' = <<>> \/ Box' = Box
    <3>1. CASE i = hostInst
      BY <2>1, <3>1, BoxReset
    <3>2. CASE i # hostInst
      BY <2>1, <2>2, <3>2, BoxSilent
    <3> QED BY <3>1, <3>2
  <2> QED BY <2>2, <2>3, <2>4, ToJoin DEF Abstract!Next
<1>5. ASSUME ~torn, ~torn', NEW i \in Insts, End(i) PROVE Abstract!Next
  <2>1. Still /\ Silent /\ torn' = torn /\ connected' = connected \ {i}
    BY <1>5, EndIs
  <2>2. Inbox' = [Inbox EXCEPT ![i] = <<>>]
    BY <2>1, InboxLeft
  <2>3. Box' = <<>> \/ Box' = Box
    <3>1. CASE i = hostInst
      BY <2>1, <3>1 DEF Box, Silent
    <3>2. CASE i # hostInst
      BY <2>1, <3>2, BoxSilent
    <3> QED BY <3>1, <3>2
  <2> QED BY <2>1, <2>2, <2>3, ToLeave DEF Abstract!Next
<1>6. ASSUME ~torn, ~torn', NEW i \in Insts, NEW len \in Lengths, SendPacket(i, len)
      PROVE  Abstract!Next
  <2>1. PICK m : /\ m = [head |-> TRUE, n |-> Number, from |-> i, type |-> 0, len |-> len,
                         stamp |-> 0]
                 /\ PacketPut(m) /\ Silent
    BY <1>6, SendPacketIs
  <2>2. i \in connected /\ connected' = connected /\ torn' = torn /\ budget.packets > 0
    BY <1>1, <1>6 DEF SendPacket
  <2>3. m \in Headers
    BY <2>1, <2>2, SentHeaders
  <2>4. /\ Inbox' = [j \in Insts |-> IF j \in connected THEN Append(Inbox[j], m) ELSE Inbox[j]]
        /\ Inbox[i] \in Seq(Frames) /\ m \in Frames
    BY <1>6, <2>1, <2>2, InboxPut
  <2>5. Box' = Box
    BY <2>1, <2>2, BoxSilent
  <2> QED BY <1>1, <2>2, <2>3, <2>4, <2>5, ToSend DEF Abstract!Next
<1>7. ASSUME ~torn, ~torn', NEW i \in Insts, NEW len \in Lengths, SendCmd(i, len)
      PROVE  Abstract!Next
  <2>1. PICK m : /\ m = [head |-> TRUE, n |-> Number, from |-> i, type |-> 1, len |-> len,
                         stamp |-> round + 1]
                 /\ PacketPut(m) /\ ReplyReset
    BY <1>7, SendCmdIs
  <2>2. i \in connected /\ connected' = connected /\ torn' = torn /\ budget.commands > 0
    BY <1>1, <1>7 DEF SendCmd
  <2>3. m \in Headers
    BY <2>1, <2>2, SentHeaders
  <2>4. /\ Inbox' = [j \in Insts |-> IF j \in connected THEN Append(Inbox[j], m) ELSE Inbox[j]]
        /\ Inbox[i] \in Seq(Frames) /\ m \in Frames
    BY <1>7, <2>1, <2>2, InboxPut
  <2>5. Box' = <<>>
    BY <2>1, BoxReset
  <2> QED BY <1>1, <2>2, <2>3, <2>4, <2>5, ToSend DEF Abstract!Next
<1>8. ASSUME ~torn, ~torn', NEW i \in Insts, NEW len \in ReplyLengths, SendReply(i, len)
      PROVE  Abstract!Next \/ UNCHANGED Abstract!vars
  <2>1. PICK m : /\ m = [head |-> TRUE, n |-> 0, from |-> i, type |-> 2, len |-> len,
                         stamp |-> ask[i].stamp]
                 /\ ReplyPut(m) /\ Still
    BY <1>8, SendReplyIs
  <2>2. connected' = connected /\ torn' = torn
    BY <1>1, <1>8 DEF SendReply
  <2>3. m \in Headers
    BY <2>1, SentHeaders
  <2>4. Inbox' = Inbox
    BY <2>1, <2>2, InboxStill
  <2>5. IF hostInst \in connected
        THEN Box' = Append(Box, m) /\ Box \in Seq(Frames) /\ m \in Frames
        ELSE Box' = Box
    BY <1>8, <2>1, BoxPut
  <2>6. CASE hostInst \in connected
    <3>1. Abstract!Reply
      BY <2>2, <2>3, <2>4, <2>5, <2>6, ToReply
    <3> QED BY <3>1 DEF Abstract!Next
  <2>7. CASE hostInst \notin connected
    BY <2>2, <2>4, <2>5, <2>7, ToNothing
  <2> QED BY <2>6, <2>7
<1>9. ASSUME NEW i \in Insts,
             \/ Post(i) \/ PostReply(i) \/ AskNobody(i) \/ GiveUp(i)
             \/ \E wanted \in SUBSET (Insts \ {i}) : AskReplies(i, wanted)
      PROVE  UNCHANGED Abstract!vars
  <2>1. Still /\ Silent /\ Unbroken
    BY <1>9, QuietIs
  <2>2. Inbox' = Inbox /\ Box' = Box /\ connected' = connected /\ torn' = torn
    BY <2>1, InboxStill, BoxSilent DEF Unbroken
  <2> QED BY <2>2, ToNothing
<1>10. ASSUME ~torn, ~torn', NEW i \in Insts, Skip(i) \/ Take(i) PROVE Abstract!Next
  <2>1. PacketTaken(i) /\ Silent /\ torn' = torn
    BY <1>10, ReadIs
  <2>2. connected' = connected
    BY <2>1 DEF PacketTaken
  <2>3. Box' = Box
    BY <2>1, <2>2, BoxSilent
  <2>4. Inbox[i] # <<>> /\ Inbox' = [Inbox EXCEPT ![i] = Tail(Inbox[i])]
    BY <1>10, <2>1, InboxTaken
  <2> QED BY <2>1, <2>2, <2>3, <2>4, ToReceive DEF Abstract!Next
<1>11. ASSUME ~torn, ~torn', NEW i \in Insts, DropStale(i) \/ Accept(i) PROVE Abstract!Next
  <2>1. ReplyTaken /\ Still /\ torn' = torn
    BY <1>11, ReplyReadIs
  <2>2. connected' = connected
    BY <2>1 DEF ReplyTaken
  <2>3. Inbox' = Inbox
    BY <2>1, <2>2, InboxStill
  <2>4. Box # <<>> /\ Box' = Tail(Box)
    BY <1>11, <2>1, BoxTaken
  <2> QED BY <2>1, <2>2, <2>3, <2>4, ToCollect DEF Abstract!Next
<1>12. ASSUME NEW i \in Insts, Resync(i) \/ ReplyResync(i) PROVE torn /\ torn'
  <2>1. torn
    BY <1>12, ResyncTorn, ReplyResyncTorn
  <2> QED BY <1>12, <2>1 DEF Resync, ReplyResync
<1>13. CASE UNCHANGED vars
  <2>1. Still /\ Silent
    BY <1>13, StillIs, SilentIs DEF Late
  <2>2. Inbox' = Inbox /\ Box' = Box
    BY <1>13, <2>1, InboxStill, BoxSilent
  <2> QED BY <1>13, <2>2, ToNothing
<1>14. torn => torn'
  <2>1. ASSUME NEW i \in Insts, torn,
               \/ \E len \in Lengths : SendPacket(i, len) \/ SendCmd(i, len)
               \/ \E len \in ReplyLengths : SendReply(i, len)
        PROVE  torn'
    BY <2>1 DEF SendPacket, SendCmd, SendReply
  <2>2. ASSUME NEW i \in Insts, \/ Begin(i) \/ End(i) \/ Post(i) \/ PostReply(i) \/ Resync(i)
                                \/ Skip(i) \/ Take(i) \/ AskNobody(i)
        PROVE  torn' = torn
    BY <2>2 DEF Begin, End, Post, PostReply, Resync, Skip, Take, AskNobody
  <2>3. ASSUME NEW i \in Insts,
               \/ \E wanted \in SUBSET (Insts \ {i}) : AskReplies(i, wanted)
               \/ ReplyResync(i) \/ DropStale(i) \/ Accept(i) \/ GiveUp(i)
        PROVE  torn' = torn
    BY <2>3 DEF AskReplies, ReplyResync, DropStale, Accept, GiveUp
  <2> QED BY <1>13, <2>1, <2>2, <2>3 DEF Next
<1>15. ASSUME NEW i \in Insts,
              \/ \E len \in Lengths : SendPacket(i, len) \/ SendCmd(i, len)
              \/ \E len \in ReplyLengths : SendReply(i, len)
       PROVE  connected' = connected
  BY <1>15 DEF SendPacket, SendCmd, SendReply
<1>16. ASSUME NEW i \in Insts, Begin(i) \/ End(i) \/ Skip(i) \/ Take(i) \/ DropStale(i) \/ Accept(i)
       PROVE  torn' = torn
  BY <1>16 DEF Begin, End, Skip, Take, DropStale, Accept
<1>17. CASE Next
  <2> SUFFICES ASSUME ~(torn /\ torn'), ~(~torn /\ torn' /\ connected' = connected)
               PROVE  [Abstract!Next]_(Abstract!vars)
    BY <1>2, <1>3
  <2>1. PICK i \in Insts :
           \/ Begin(i) \/ End(i)
           \/ \E len \in Lengths : SendPacket(i, len) \/ SendCmd(i, len)
           \/ \E len \in ReplyLengths : SendReply(i, len)
           \/ Post(i) \/ PostReply(i)
           \/ Resync(i) \/ Skip(i) \/ Take(i)
           \/ AskNobody(i) \/ \E wanted \in SUBSET (Insts \ {i}) : AskReplies(i, wanted)
           \/ ReplyResync(i) \/ DropStale(i) \/ Accept(i) \/ GiveUp(i)
    BY <1>17 DEF Next
  <2>2. ~torn
    BY <1>14
  <2>3. CASE Begin(i) \/ End(i)
    BY <1>4, <1>5, <1>16, <2>2, <2>3
  <2>4. CASE \/ \E len \in Lengths : SendPacket(i, len) \/ SendCmd(i, len)
             \/ \E len \in ReplyLengths : SendReply(i, len)
    BY <1>6, <1>7, <1>8, <1>15, <2>2, <2>4
  <2>5. CASE \/ Post(i) \/ PostReply(i) \/ AskNobody(i) \/ GiveUp(i)
             \/ \E wanted \in SUBSET (Insts \ {i}) : AskReplies(i, wanted)
    BY <1>9, <2>5
  <2>6. CASE Skip(i) \/ Take(i) \/ DropStale(i) \/ Accept(i)
    BY <1>10, <1>11, <1>16, <2>2, <2>6
  <2>7. CASE Resync(i) \/ ReplyResync(i)
    BY <1>12, <2>7
  <2> QED BY <2>1, <2>3, <2>4, <2>5, <2>6, <2>7
<1> QED BY <1>13, <1>17

LEMMA InitImplements ==
  ASSUME Init
  PROVE  Abstract!Init
BY DEF Init, Abstract!Init

\* As long as nobody is overtaken everyone who is connected reads each frame sent since it
\* joined once, whole and in order, and the host the replies sent since its command.
THEOREM RingsBroadcast ==
  ASSUME LocalMPAssumption, Alone, Thrifty
  PROVE  Spec => ImplementsBroadcast
<1>1. Init => Kept /\ Bounded
  BY KeptInit, BoundedInit
<1>2. Kept /\ Bounded /\ [Next]_vars => Kept' /\ Bounded'
  BY TypedNext, StampedNext, RolesNext, QueuesNext, FreshNext, BoundedNext DEF Kept
<1>3. Init => Abstract!Init
  BY InitImplements
<1>4. Kept /\ Kept' /\ Bounded /\ [Next]_vars => [Abstract!Next]_(Abstract!vars)
  BY StepImplements DEF Kept
<1> QED BY <1>1, <1>2, <1>3, <1>4, PTL DEF Spec, ImplementsBroadcast, Abstract!Spec

-----------------------------------------------------------------------------
(* The types, with what the budgets allow.                                 *)

\* Frames and requests are headers, and nobody is promised more than was sent.
Headed ==
    /\ \A p \in 0 .. PacketCells - 1 : packets.cell[p] \in Headers
    /\ ask \in [Insts -> Headers]

Counted ==
    \A i \in Insts :
       Waiting(i) + budget.packets + budget.commands <= Most.packets + Most.commands

\* A ring has room for one frame less than it has cells.
LEMMA ChainFits ==
  ASSUME NEW N \in Nat \ {0}, NEW ring \in RingOf(N), NEW p \in 0 .. N - 1,
         NEW n \in Nat, Queue(ring, p, n)
  PROVE  n < N
<1>1. ring.size = N /\ ring.cell \in [0 .. N - 1 -> Frames]
  BY DEF RingOf
<1>2. PICK d : Chain(ring, p, n, d)
  BY DEF Queue
<1>3. /\ d \in [0 .. n -> 0 .. N - 1] /\ d[0] = 0
      /\ \A k \in 0 .. n - 1 : d[k + 1] = d[k] + ring.cell[Place(N, p, d[k])].len + 1
  BY <1>1, <1>2 DEF Chain
<1>4. ASSUME NEW k \in 0 .. n - 1 PROVE d[k + 1] >= d[k] + 1
  <2>1. PICK x \in 0 .. N - 1 : x = d[k]
    BY <1>3
  <2>2. PICK l \in Nat : l = ring.cell[Place(N, p, x)].len
    BY <1>1, Places DEF Frames
  <2>3. d[k + 1] = x + l + 1
    BY <1>3, <2>1, <2>2
  <2> QED BY <2>1, <2>3
<1>5. PICK S : S = {k \in 0 .. n : d[k] < k}
  OBVIOUS
<1>6. S = {}
  <2> SUFFICES ASSUME S # {} PROVE FALSE
    OBVIOUS
  <2>1. S \subseteq Nat
    BY <1>5
  <2>2. PICK x \in S : \A y \in S : x <= y
    BY <2>1, Least
  <2>3. x \in 0 .. n /\ d[x] < x
    BY <1>5, <2>2
  <2>4. x # 0
    BY <1>3, <2>3
  <2>5. x - 1 \in 0 .. n /\ x - 1 \in 0 .. n - 1 /\ (x - 1) + 1 = x /\ x - 1 \notin S
    BY <2>2, <2>3, <2>4
  <2>6. d[x] >= d[x - 1] + 1 /\ d[x - 1] \in Nat /\ d[x] \in Nat
    BY <1>3, <1>4, <2>3, <2>5
  <2>7. ~(d[x - 1] < x - 1)
    BY <1>5, <2>5
  <2> QED BY <2>3, <2>6, <2>7
<1>7. n \in 0 .. n /\ d[n] \in 0 .. N - 1 /\ ~(d[n] < n)
  <2>1. n \in 0 .. n
    OBVIOUS
  <2>2. d[n] \in 0 .. N - 1
    BY <1>3, <2>1
  <2>3. n \notin S
    BY <1>6
  <2> QED BY <1>5, <2>1, <2>2, <2>3
<1> QED BY <1>7

LEMMA HeadWritten ==
  ASSUME NEW N \in Nat \ {0}, NEW ring \in RingOf(N), NEW m \in Frames, m.len + 1 < N,
         m \in Headers, \A p \in 0 .. N - 1 : ring.cell[p] \in Headers
  PROVE  \A p \in 0 .. N - 1 : FIFOWrite(ring, m).cell[p] \in Headers
<1> SUFFICES ASSUME NEW p \in 0 .. N - 1 PROVE FIFOWrite(ring, m).cell[p] \in Headers
  OBVIOUS
<1>1. PICK h : h = ((p - ring.write) % N = 0)
  OBVIOUS
<1>2. h \in BOOLEAN
  BY <1>1
<1>3. FIFOWrite(ring, m).cell[p] = IF (p - ring.write) % N > m.len THEN ring.cell[p]
                                   ELSE [m EXCEPT !.head = h]
  BY <1>1, WriteIs
<1>4. [m EXCEPT !.head = h] \in Headers
  BY <1>2 DEF Headers
<1> QED BY <1>3, <1>4

LEMMA HeadedNext ==
  ASSUME LocalMPAssumption, Typed, Stamped, Bounded, Headed, Blank \in Headers, [Next]_vars
  PROVE  Headed'
<1> USE DEF vars, rings
<1>1. /\ packets \in RingOf(PacketCells) /\ ask \in [Insts -> Headers]
      /\ \A p \in 0 .. PacketCells - 1 : packets.cell[p] \in Headers
      /\ packetRead \in [Insts -> 0 .. PacketCells - 1]
  BY DEF Typed, Headed
<1>2. ASSUME UNCHANGED packets, ask' \in [Insts -> Headers] PROVE Headed'
  BY <1>1, <1>2 DEF Headed
<1>3. ASSUME NEW i \in Insts, End(i) \/ \E len \in ReplyLengths : SendReply(i, len) PROVE Headed'
  <2>1. ask' = [ask EXCEPT ![i] = Blank] /\ UNCHANGED packets
    BY <1>3 DEF End, SendReply
  <2> QED BY <1>1, <1>2, <2>1
<1>4. ASSUME NEW i \in Insts, NEW len \in Lengths, SendPacket(i, len) PROVE Headed'
  <2>1. PICK m \in Frames : m = [head |-> TRUE, n |-> Number, from |-> i, type |-> 0,
                                 len |-> len, stamp |-> 0]
    BY Sent
  <2>2. packets' = FIFOWrite(packets, m) /\ m.len + 1 < PacketCells /\ ask' = ask
        /\ budget.packets > 0
    BY <1>4, <2>1, Fits DEF SendPacket
  <2>3. m \in Headers
    BY <2>1, <2>2, SentHeaders
  <2>4. \A p \in 0 .. PacketCells - 1 : packets'.cell[p] \in Headers
    BY <1>1, <2>2, <2>3, Fits, HeadWritten
  <2> QED BY <1>1, <2>2, <2>4 DEF Headed
<1>5. ASSUME NEW i \in Insts, NEW len \in Lengths, SendCmd(i, len) PROVE Headed'
  <2>1. PICK m \in Frames : m = [head |-> TRUE, n |-> Number, from |-> i, type |-> 1,
                                 len |-> len, stamp |-> round + 1]
    BY Sent
  <2>2. packets' = FIFOWrite(packets, m) /\ m.len + 1 < PacketCells /\ ask' = ask
        /\ budget.commands > 0
    BY <1>5, <2>1, Fits DEF SendCmd
  <2>3. m \in Headers
    BY <2>1, <2>2, SentHeaders
  <2>4. \A p \in 0 .. PacketCells - 1 : packets'.cell[p] \in Headers
    BY <1>1, <2>2, <2>3, Fits, HeadWritten
  <2> QED BY <1>1, <2>2, <2>4 DEF Headed
<1>6. ASSUME NEW i \in Insts, Take(i) PROVE Headed'
  <2>1. PICK m \in {Blank, Facing(i)} : ask' = [ask EXCEPT ![i] = m]
    BY <1>6 DEF Take
  <2>2. Facing(i) \in Headers
    BY <1>1 DEF Facing
  <2>3. UNCHANGED packets
    BY <1>6 DEF Take
  <2>4. ask' \in [Insts -> Headers]
    BY <1>1, <2>1, <2>2
  <2> QED BY <1>2, <2>3, <2>4
<1>7. ASSUME NEW i \in Insts,
             \/ Begin(i) \/ Post(i) \/ PostReply(i) \/ Resync(i) \/ Skip(i) \/ AskNobody(i)
             \/ \E wanted \in SUBSET (Insts \ {i}) : AskReplies(i, wanted)
             \/ ReplyResync(i) \/ DropStale(i) \/ Accept(i) \/ GiveUp(i)
       PROVE  UNCHANGED <<packets, ask>>
  BY <1>7 DEF Begin, Post, PostReply, Resync, Skip, AskNobody, AskReplies, ReplyResync,
              DropStale, Accept, GiveUp
<1>8. CASE UNCHANGED vars
  BY <1>1, <1>2, <1>8
<1> QED BY <1>1, <1>2, <1>3, <1>4, <1>5, <1>6, <1>7, <1>8 DEF Next

LEMMA CountedNext ==
  ASSUME LocalMPAssumption, Alone, Typed, Roles, Bounded, Counted, [Next]_vars
  PROVE  Counted'
<1> USE DEF vars, rings
<1>1. /\ budget \in Purses /\ budget.packets \in Nat /\ budget.commands \in Nat
      /\ Most.packets \in Nat /\ Most.commands \in Nat
      /\ packetSem \in [Insts -> Nat] /\ connected \subseteq Insts
  BY DEF Typed, Bounded, Purses
<1>2. \A j \in Insts :
         /\ Waiting(j) \in Nat
         /\ Waiting(j) + budget.packets + budget.commands <= Most.packets + Most.commands
  BY Counts DEF Counted
<1>3. Most' = Most
  BY DEF Most
<1>4. ASSUME budget'.packets = budget.packets, budget'.commands = budget.commands,
             \A j \in Insts : Waiting(j)' \in Nat /\ Waiting(j)' <= Waiting(j)
      PROVE  Counted'
  BY <1>1, <1>2, <1>3, <1>4 DEF Counted
<1>5. ASSUME NEW m, PacketPut(m),
             budget'.packets + budget'.commands = budget.packets + budget.commands - 1,
             budget'.packets \in Nat, budget'.commands \in Nat
      PROVE  Counted'
  <2> SUFFICES ASSUME NEW j \in Insts
               PROVE  Waiting(j)' + budget'.packets + budget'.commands
                         <= Most.packets + Most.commands
    BY <1>3 DEF Counted
  <2>1. Waiting(j)' = Waiting(j) + 1 \/ Waiting(j)' = Waiting(j)
    BY <1>5 DEF PacketPut
  <2> QED BY <1>1, <1>2, <1>5, <2>1
<1>6. ASSUME NEW i \in Insts, Begin(i) PROVE Counted'
  <2>1. budget'.packets = budget.packets /\ budget'.commands = budget.commands
    BY <1>1, <1>6 DEF Begin, Purses
  <2>2. \A j \in Insts : Waiting(j)' \in Nat /\ Waiting(j)' <= Waiting(j)
    BY <1>2, <1>6, BeginIs DEF Joined
  <2> QED BY <1>4, <2>1, <2>2
<1>7. ASSUME NEW i \in Insts, NEW len \in Lengths, SendPacket(i, len) PROVE Counted'
  <2>1. /\ budget'.packets = budget.packets - 1 /\ budget'.commands = budget.commands
        /\ budget.packets > 0
    BY <1>1, <1>7 DEF SendPacket, Purses
  <2>2. PICK m : PacketPut(m)
    BY <1>7, SendPacketIs
  <2> QED BY <1>1, <1>5, <2>1, <2>2
<1>8. ASSUME NEW i \in Insts, NEW len \in Lengths, SendCmd(i, len) PROVE Counted'
  <2>1. /\ budget'.packets = budget.packets /\ budget'.commands = budget.commands - 1
        /\ budget.commands > 0
    BY <1>1, <1>8 DEF SendCmd, Purses
  <2>2. PICK m : PacketPut(m)
    BY <1>8, SendCmdIs
  <2> QED BY <1>1, <1>5, <2>1, <2>2
<1>9. ASSUME Still, budget' = budget PROVE Counted'
  BY <1>2, <1>4, <1>9 DEF Still
<1>10. ASSUME NEW i \in Insts,
              \/ End(i) \/ \E len \in ReplyLengths : SendReply(i, len)
              \/ Post(i) \/ PostReply(i) \/ AskNobody(i) \/ GiveUp(i)
              \/ \E wanted \in SUBSET (Insts \ {i}) : AskReplies(i, wanted)
              \/ DropStale(i) \/ Accept(i) \/ ReplyResync(i)
       PROVE  Counted'
  <2>1. budget' = budget
    BY <1>10 DEF End, SendReply, Post, PostReply, AskNobody, GiveUp, AskReplies, DropStale,
                 Accept, ReplyResync
  <2>2. CASE End(i)
    BY <1>9, <2>1, <2>2, EndIs
  <2>3. CASE \E len \in ReplyLengths : SendReply(i, len)
    BY <1>9, <2>1, <2>3, SendReplyIs
  <2>4. CASE \/ Post(i) \/ PostReply(i) \/ AskNobody(i) \/ GiveUp(i)
             \/ \E wanted \in SUBSET (Insts \ {i}) : AskReplies(i, wanted)
    BY <1>9, <2>1, <2>4, QuietIs
  <2>5. CASE DropStale(i) \/ Accept(i)
    BY <1>9, <2>1, <2>5, ReplyReadIs
  <2>6. CASE ReplyResync(i)
    BY <1>9, <2>1, <2>6, StillIs DEF ReplyResync
  <2> QED BY <1>10, <2>2, <2>3, <2>4, <2>5, <2>6
<1>11. ASSUME NEW i \in Insts, Skip(i) \/ Take(i) PROVE Counted'
  <2>1. budget' = budget
    BY <1>11 DEF Skip, Take
  <2>2. PacketTaken(i)
    BY <1>11, ReadIs
  <2>3. \A j \in Insts : Waiting(j)' \in Nat /\ Waiting(j)' <= Waiting(j)
    BY <1>2, <2>2 DEF PacketTaken
  <2> QED BY <1>4, <2>1, <2>3
<1>12. ASSUME NEW i \in Insts, Resync(i) PROVE Counted'
  <2>1. /\ budget' = budget /\ to' = to /\ packetSem' = [packetSem EXCEPT ![i] = 0]
    BY <1>12 DEF Resync
  <2>2. ASSUME NEW j \in Insts PROVE Waiting(j)' \in Nat /\ Waiting(j)' <= Waiting(j)
    <3>1. Due(j)' = Due(j) /\ Cardinality(Due(j)) \in Nat
      BY <2>1, Counts DEF Due
    <3>2. packetSem'[j] \in Nat /\ packetSem'[j] <= packetSem[j] /\ packetSem[j] \in Nat
      BY <1>1, <2>1
    <3>3. Waiting(j)' = packetSem'[j] + Cardinality(Due(j))
          /\ Waiting(j) = packetSem[j] + Cardinality(Due(j))
      BY <3>1 DEF Waiting
    <3> QED BY <3>1, <3>2, <3>3
  <2> QED BY <1>4, <2>1, <2>2
<1>13. CASE UNCHANGED vars
  BY <1>9, <1>13, StillIs
<1> QED BY <1>6, <1>7, <1>8, <1>10, <1>11, <1>12, <1>13 DEF Next

LEMMA CountedInit ==
  ASSUME LocalMPAssumption, Init, Bounded
  PROVE  Headed /\ Counted /\ Blank \in Headers
<1>1. /\ packets = Ring(PacketCells) /\ packetSem = [i \in Insts |-> 0]
      /\ to = [i \in Insts |-> {}] /\ ask = [i \in Insts |-> Blank] /\ budget \in Budgets
  BY DEF Init
<1>2. /\ Most.packets \in Nat /\ Most.commands \in Nat /\ budget.packets \in Nat
      /\ budget.commands \in Nat /\ budget.packets <= Most.packets
      /\ budget.commands <= Most.commands
  <2>1. budget.packets \in Nat /\ budget.commands \in Nat /\ round = 0
    BY <1>1 DEF Init, LocalMPAssumption
  <2> QED BY <2>1 DEF Bounded, Purses
<1>3. Blank \in Headers
  <2>1. Blank.from \in Insts
    BY Fits, FreshRing DEF Frames
  <2>2. 0 \in 0 .. Most.packets + Most.commands /\ 0 \in 0 .. Most.commands
    BY <1>2
  <2> QED BY <2>1, <2>2 DEF Blank, Headers
<1>4. Headed
  BY <1>1, <1>3 DEF Headed, Ring
<1>5. ASSUME NEW i \in Insts PROVE Waiting(i) = 0
  <2>1. Due(i) = {}
    BY <1>1 DEF Due
  <2>2. Cardinality(Due(i)) = 0
    BY <2>1, FS_EmptySet
  <2> QED BY <1>1, <2>2 DEF Waiting
<1>6. Counted
  BY <1>2, <1>5 DEF Counted
<1> QED BY <1>3, <1>4, <1>6

LEMMA TypeIs ==
  ASSUME LocalMPAssumption, Kept, Bounded, Headed, Counted
  PROVE  TypeOK
<1>1. Typed /\ PacketsQueued /\ RepliesQueued
  BY DEF Kept
<1>2. /\ packets \in RingOf(PacketCells) /\ replies \in RingOf(ReplyCells)
      /\ packetRead \in [Insts -> 0 .. PacketCells - 1]
      /\ replyRead \in [Insts -> 0 .. ReplyCells - 1]
      /\ packetSem \in [Insts -> Nat] /\ replySem \in [Insts -> Nat]
  BY <1>1 DEF Typed
<1>3. /\ connected \subseteq Insts /\ hostInst \in Insts
      /\ at \in [Insts -> {"idle", "post", "command", "commanded", "collect", "answer"}]
      /\ to \in [Insts -> SUBSET Insts] /\ answers \subseteq Insts /\ torn \in BOOLEAN
  BY <1>1 DEF Typed, Whereabouts
<1>4. packets.write \in DOMAIN packets.cell /\ replies.write \in DOMAIN replies.cell
  BY <1>2 DEF RingOf
<1>5. /\ Most.packets \in Nat /\ Most.commands \in Nat /\ Most.stays \in Nat
      /\ budget.packets \in Nat /\ budget.commands \in Nat /\ budget.stays \in Nat
      /\ round \in Nat
  BY <1>1 DEF Typed, Bounded, Purses
<1>6. PacketCells \in Nat \ {0} /\ ReplyCells \in Nat \ {0}
  BY Fits
<1>7. \A i \in Insts : Waiting(i) \in Nat /\ Waiting(i) >= packetSem[i]
  BY <1>1, Counts
<1>8. packetSem \in [Insts -> 0 .. Most.packets + Most.commands]
  <2>1. ASSUME NEW i \in Insts PROVE packetSem[i] \in 0 .. Most.packets + Most.commands
    BY <1>2, <1>5, <1>7 DEF Counted
  <2> QED BY <1>2, <2>1
<1>9. ASSUME ~torn, NEW i \in connected PROVE packetSem[i] < PacketCells
  <2>1. Queue(packets, packetRead[i], Waiting(i)) /\ i \in Insts
    BY <1>1, <1>3, <1>9 DEF PacketsQueued
  <2>2. Waiting(i) < PacketCells
    BY <1>2, <1>6, <1>7, <2>1, ChainFits
  <2> QED BY <1>2, <1>6, <1>7, <2>1, <2>2
<1>10. ASSUME ~torn, hostInst \in connected PROVE replySem[hostInst] < ReplyCells
  <2>1. Awaited \in Nat /\ Awaited >= replySem[hostInst]
    BY <1>1, Counts
  <2>2. Queue(replies, replyRead[hostInst], Awaited)
    BY <1>1, <1>10 DEF RepliesQueued
  <2>3. Awaited < ReplyCells
    BY <1>2, <1>3, <1>6, <2>1, <2>2, ChainFits
  <2> QED BY <1>2, <1>3, <1>6, <2>1, <2>3
<1>11. ask \in [Insts -> Headers]
  BY DEF Headed
<1>12. round \in 0 .. Most.commands
  BY <1>5 DEF Bounded
<1>13. \A part \in DOMAIN Most : budget[part] \in 0 .. Most[part]
  <2>1. DOMAIN Most = {"packets", "commands", "stays"}
    BY DEF Most
  <2>2. /\ budget.packets \in 0 .. Most.packets /\ budget.commands \in 0 .. Most.commands
        /\ budget.stays \in 0 .. Most.stays
    BY <1>5 DEF Bounded
  <2> QED BY <2>1, <2>2
<1> QED BY <1>2, <1>3, <1>4, <1>8, <1>9, <1>10, <1>11, <1>12, <1>13 DEF TypeOK

\* Offsets stay inside their rings, no packet semaphore counts more than was ever sent and,
\* while nobody is overtaken, none more frames than its ring can hold.
THEOREM TypesHold ==
  ASSUME LocalMPAssumption, Alone, Thrifty
  PROVE  Spec => []TypeOK
<1> DEFINE Within == Kept /\ Bounded /\ Headed /\ Counted /\ Blank \in Headers
<1>1. Init => Within
  BY KeptInit, BoundedInit, CountedInit
<1>2. Within /\ [Next]_vars => Within'
  <2> SUFFICES ASSUME Within, [Next]_vars PROVE Within'
    OBVIOUS
  <2>1. Kept'
    BY TypedNext, StampedNext, RolesNext, QueuesNext, FreshNext DEF Kept
  <2>2. Bounded' /\ Headed' /\ Counted'
    BY BoundedNext, HeadedNext, CountedNext DEF Kept
  <2>3. (Blank \in Headers)'
    BY DEF Blank, Headers, Most
  <2> QED BY <2>1, <2>2, <2>3
<1>3. Within => TypeOK
  BY TypeIs
<1> HIDE DEF Within
<1> QED BY <1>1, <1>2, <1>3, PTL DEF Spec

=============================================================================
