------------------------ MODULE FrameAllocatorProofs ------------------------
(* The frame allocator is correct for every memory map whose segments are in  *)
(* ascending order with gaps between them, and for all sequences of calls.    *)
EXTENDS FrameAllocator, SequenceTheorems, WellFoundedInduction, TLAPS

-----------------------------------------------------------------------------
\* Sequences

\* RemoveAt closes the gap: Vec::remove.
LEMMA RemoveAtFacts ==
    ASSUME NEW S, NEW s \in Seq(S), NEW i \in 1..Len(s)
    PROVE  /\ RemoveAt(s, i) \in Seq(S)
           /\ Len(RemoveAt(s, i)) = Len(s) - 1
           /\ \A j \in 1..(Len(s) - 1) :
                 RemoveAt(s, i)[j] = IF j < i THEN s[j] ELSE s[j + 1]
  <1> DEFINE a == SubSeq(s, 1, i - 1)
             b == SubSeq(s, i + 1, Len(s))
  <1>1. /\ a \in Seq(S) /\ Len(a) = i - 1
        /\ \A j \in 1..(i - 1) : a[j] = s[j]
    OBVIOUS
  <1>2. /\ b \in Seq(S) /\ Len(b) = Len(s) - i
        /\ \A j \in 1..(Len(s) - i) : b[j] = s[i + j]
    OBVIOUS
  <1>3. RemoveAt(s, i) = a \o b
    BY DEF RemoveAt
  <1> HIDE DEF a, b
  <1>4. /\ a \o b \in Seq(S)
        /\ Len(a \o b) = Len(a) + Len(b)
        /\ \A j \in 1..(Len(a) + Len(b)) :
              (a \o b)[j] = IF j <= Len(a) THEN a[j] ELSE b[j - Len(a)]
    BY <1>1, <1>2, ConcatProperties, Zenon
  <1> QED BY <1>1, <1>2, <1>3, <1>4

\* InsertAt moves the rest up: Vec::insert.
LEMMA InsertAtFacts ==
    ASSUME NEW S, NEW s \in Seq(S), NEW i \in 1..Len(s), NEW e \in S
    PROVE  /\ InsertAt(s, i, e) \in Seq(S)
           /\ Len(InsertAt(s, i, e)) = Len(s) + 1
           /\ \A j \in 1..(Len(s) + 1) :
                 InsertAt(s, i, e)[j] = IF j < i THEN s[j] ELSE IF j = i THEN e ELSE s[j - 1]
  <1> DEFINE a == SubSeq(s, 1, i - 1)
             b == SubSeq(s, i, Len(s))
             c == a \o <<e>>
  <1>1. /\ a \in Seq(S) /\ Len(a) = i - 1
        /\ \A j \in 1..(i - 1) : a[j] = s[j]
    OBVIOUS
  <1>2. /\ b \in Seq(S) /\ Len(b) = Len(s) - i + 1
        /\ \A j \in 1..(Len(s) - i + 1) : b[j] = s[i + j - 1]
    OBVIOUS
  <1>3. InsertAt(s, i, e) = c \o b
    BY DEF InsertAt
  <1> HIDE DEF a, b
  <1>4. /\ c \in Seq(S) /\ Len(c) = i
        /\ \A j \in 1..i : c[j] = IF j < i THEN s[j] ELSE e
    BY <1>1
  <1> HIDE DEF c
  <1>5. /\ c \o b \in Seq(S)
        /\ Len(c \o b) = Len(c) + Len(b)
        /\ \A j \in 1..(Len(c) + Len(b)) :
              (c \o b)[j] = IF j <= Len(c) THEN c[j] ELSE b[j - Len(c)]
    BY <1>2, <1>4, ConcatProperties, Zenon
  <1>6. Len(c \o b) = Len(s) + 1
    BY <1>2, <1>4, <1>5
  <1>7. ASSUME NEW j \in 1..(Len(s) + 1)
        PROVE  (c \o b)[j] = IF j < i THEN s[j] ELSE IF j = i THEN e ELSE s[j - 1]
    <2>1. CASE j <= i
      BY <2>1, <1>4, <1>5, <1>2
    <2>2. CASE j > i
      <3>1. j - i \in 1..(Len(s) - i + 1)
        BY <2>2
      <3>2. (c \o b)[j] = b[j - i]
        BY <2>2, <1>2, <1>4, <1>5
      <3>3. b[j - i] = s[i + (j - i) - 1]
        BY <1>2, <3>1
      <3>4. i + (j - i) - 1 = j - 1
        BY <2>2
      <3>5. (c \o b)[j] = s[j - 1]
        BY <3>2, <3>3, <3>4
      <3>6. ~(j < i) /\ j # i
        BY <2>2
      <3> QED BY <3>5, <3>6, Zenon
    <2>3. j <= i \/ j > i
      OBVIOUS
    <2> QED BY <2>1, <2>2, <2>3, Zenon
  <1> QED BY <1>3, <1>5, <1>6, <1>7

\* least picks what Iterator::find comes to first.
LEMMA LeastIsFirst ==
    ASSUME NEW I, I \subseteq Nat, I # {}
    PROVE  least(I) \in I /\ \A j \in I : least(I) <= j
  <1> DEFINE R == {p \in Nat \X Nat : p[1] < p[2]}
  <1>1. IsWellFoundedOn(R, Nat)
    BY NatLessThanWellFounded DEF OpToRel
  <1>2. PICK x \in I : \A y \in I : ~(<<y, x>> \in R)
    BY <1>1, WFMin, Zenon
  <1>3. \A y \in I : x <= y
    <2> SUFFICES ASSUME NEW y \in I, y < x PROVE FALSE
      BY SMT
    <2>1. <<y, x>> \in Nat \X Nat /\ <<y, x>>[1] < <<y, x>>[2]
      BY SMT
    <2> QED BY <1>2, <2>1, Zenon
  <1> QED BY <1>3, Zenon DEF least

-----------------------------------------------------------------------------
\* Lists of segments

\* A frame is in a list if it is in one of the list's segments.
LEMMA InFramesOf ==
    ASSUME NEW segs \in Seq(Runs), NEW f
    PROVE  f \in FramesOf(segs) <=>
               f \in Nat /\ \E i \in 1..Len(segs) :
                   segs[i].start <= f /\ f < segs[i].start + segs[i].pages
  <1>1. \A i \in 1..Len(segs) : segs[i] \in Runs
    OBVIOUS
  <1>2. f \in FramesOf(segs) <=> \E i \in 1..Len(segs) : f \in Frames(segs[i])
    BY Zenon DEF FramesOf
  <1>3. ASSUME NEW i \in 1..Len(segs)
        PROVE  f \in Frames(segs[i]) <=>
                   f \in Nat /\ segs[i].start <= f /\ f < segs[i].start + segs[i].pages
    BY <1>1, <1>3 DEF Frames, end_frame, Runs
  <1> QED BY <1>2, <1>3

\* The fields of a segment.
LEMMA SegmentTyped ==
    ASSUME NEW segs \in Seq(Runs), NEW i \in 1..Len(segs)
    PROVE  /\ segs[i] \in Runs
           /\ segs[i].start \in Nat /\ segs[i].pages \in Nat /\ segs[i].pages > 0
           /\ end_frame(segs[i]) + 1 = segs[i].start + segs[i].pages
  <1>1. segs[i] \in Runs
    OBVIOUS
  <1>2. segs[i].start \in Nat /\ segs[i].pages \in Nat /\ segs[i].pages > 0
    BY <1>1 DEF Runs
  <1> QED BY <1>1, <1>2 DEF end_frame

\* Ordered, with the ends of segments written out.
LEMMA OrderedMeans ==
    ASSUME NEW segs \in Seq(Runs)
    PROVE  Ordered(segs) <=>
               \A i, j \in 1..Len(segs) :
                   i < j => segs[i].start + segs[i].pages < segs[j].start
  <1>1. \A i \in 1..Len(segs) :
            segs[i].start \in Nat /\ segs[i].pages \in Nat /\ segs[i].pages > 0
    BY SegmentTyped
  <1>2. \A i \in 1..Len(segs) : end_frame(segs[i]) + 1 = segs[i].start + segs[i].pages
    BY SegmentTyped
  <1> QED BY <1>1, <1>2 DEF Ordered

\* Cutting off the first pages of a segment takes exactly those frames out.
LEMMA CutFacts ==
    ASSUME NEW segs \in Seq(Runs), Ordered(segs), NEW id \in 1..Len(segs),
           NEW pages \in Nat \ {0}, pages <= segs[id].pages
    PROVE  /\ Cut(segs, id, pages) \in Seq(Runs)
           /\ Ordered(Cut(segs, id, pages))
           /\ FramesOf(Cut(segs, id, pages)) =
                  FramesOf(segs) \ Frames(Segment(segs[id].start, pages))
           /\ Frames(Segment(segs[id].start, pages)) \subseteq FramesOf(segs)
  <1> DEFINE run == Segment(segs[id].start, pages)
             c == Cut(segs, id, pages)
  <1>1. \A i \in 1..Len(segs) :
            segs[i].start \in Nat /\ segs[i].pages \in Nat /\ segs[i].pages > 0
    BY SegmentTyped
  <1>2. \A f : f \in Frames(run) <=>
                   f \in Nat /\ segs[id].start <= f /\ f < segs[id].start + pages
    BY <1>1 DEF Frames, end_frame, Segment
  <1>3. \A i, j \in 1..Len(segs) : i < j => segs[i].start + segs[i].pages < segs[j].start
    BY OrderedMeans
  <1>7. ASSUME NEW k \in 1..Len(segs), k # id, NEW f \in Nat,
               segs[k].start <= f, f < segs[k].start + segs[k].pages
        PROVE  f \notin Frames(run)
    <2>1. /\ segs[k].start \in Nat /\ segs[k].pages \in Nat
          /\ segs[id].start \in Nat /\ segs[id].pages \in Nat
      BY <1>1
    <2>2. CASE k < id
      <3>1. segs[k].start + segs[k].pages < segs[id].start
        BY <1>3, <2>2
      <3> QED BY <3>1, <2>1, <1>7, <1>2
    <2>3. CASE id < k
      <3>1. segs[id].start + segs[id].pages < segs[k].start
        BY <1>3, <2>3
      <3>2. pages \in Nat /\ pages <= segs[id].pages
        OBVIOUS
      <3> QED BY <3>1, <3>2, <2>1, <1>7, <1>2, SMTT(30)
    <2> QED BY <2>2, <2>3, <1>7
  <1>4. Frames(run) \subseteq FramesOf(segs)
    <2> SUFFICES ASSUME NEW f \in Frames(run) PROVE f \in FramesOf(segs)
      OBVIOUS
    <2>1. f \in Nat /\ segs[id].start <= f /\ f < segs[id].start + segs[id].pages
      BY <1>1, <1>2
    <2> QED BY <2>1, InFramesOf
  <1> HIDE DEF run
  <1>5. CASE segs[id].pages = pages
    <2>1. c = RemoveAt(segs, id)
      BY <1>5 DEF Cut
    <2>2. /\ c \in Seq(Runs) /\ Len(c) = Len(segs) - 1
          /\ \A j \in 1..(Len(segs) - 1) : c[j] = IF j < id THEN segs[j] ELSE segs[j + 1]
      BY <2>1, RemoveAtFacts, Zenon
    <2> HIDE DEF c
    <2>3. Ordered(c)
      <3>1. ASSUME NEW i \in 1..Len(c), NEW j \in 1..Len(c), i < j
            PROVE  c[i].start + c[i].pages < c[j].start
        BY <3>1, <2>2, <1>3, SMTT(30)
      <3> QED BY <3>1, <2>2, OrderedMeans
    <2>4. ASSUME NEW f
          PROVE  f \in FramesOf(c) <=> f \in FramesOf(segs) /\ f \notin Frames(run)
      <3>1. ASSUME f \in FramesOf(c)
            PROVE  f \in FramesOf(segs) /\ f \notin Frames(run)
        <4>1. f \in Nat
          BY <3>1, <2>2, InFramesOf
        <4>2. PICK j \in 1..Len(c) : c[j].start <= f /\ f < c[j].start + c[j].pages
          BY <3>1, <2>2, InFramesOf
        <4>3. PICK k \in 1..Len(segs) : k # id /\ c[j] = segs[k]
          <5>1. CASE j < id
            BY <5>1, <2>2
          <5>2. CASE ~(j < id)
            BY <5>2, <2>2
          <5> QED BY <5>1, <5>2
        <4>4. segs[k].start <= f /\ f < segs[k].start + segs[k].pages
          BY <4>2, <4>3
        <4>5. f \in FramesOf(segs)
          BY <4>1, <4>4, InFramesOf
        <4>6. f \notin Frames(run)
          BY <4>1, <4>3, <4>4, <1>7
        <4> QED BY <4>5, <4>6
      <3>2. ASSUME f \in FramesOf(segs), f \notin Frames(run)
            PROVE  f \in FramesOf(c)
        <4>1. f \in Nat
          BY <3>2, InFramesOf
        <4>2. PICK k \in 1..Len(segs) : segs[k].start <= f /\ f < segs[k].start + segs[k].pages
          BY <3>2, InFramesOf
        <4>3. k # id
          BY <3>2, <4>1, <4>2, <1>2, <1>5
        <4>4. PICK j \in 1..Len(c) : c[j] = segs[k]
          <5>1. CASE k < id
            BY <5>1, <2>2
          <5>2. CASE id < k
            <6>1. k - 1 \in 1..Len(c) /\ ~(k - 1 < id) /\ (k - 1) + 1 = k
              BY <5>2, <2>2
            <6>2. c[k - 1] = segs[k]
              BY <6>1, <2>2
            <6> QED BY <6>1, <6>2
          <5> QED BY <5>1, <5>2, <4>3
        <4> QED BY <4>1, <4>2, <4>4, <2>2, InFramesOf
      <3> QED BY <3>1, <3>2
    <2> QED BY <1>4, <2>2, <2>3, <2>4 DEF c, run
  <1>6. CASE segs[id].pages # pages
    <2> DEFINE new == Segment(segs[id].start + pages, segs[id].pages - pages)
    <2>1. c = [segs EXCEPT ![id] = new]
      BY <1>6 DEF Cut
    <2>2. new \in Runs /\ new.start = segs[id].start + pages
                       /\ new.pages = segs[id].pages - pages
      BY <1>1, <1>6, SMTT(30) DEF Segment, Runs
    <2> HIDE DEF new
    <2>3. /\ c \in Seq(Runs) /\ Len(c) = Len(segs)
          /\ \A j \in 1..Len(segs) : c[j] = IF j = id THEN new ELSE segs[j]
      BY <2>1, <2>2
    <2> HIDE DEF c
    <2>4. Ordered(c)
      <3>1. ASSUME NEW i \in 1..Len(c), NEW j \in 1..Len(c), i < j
            PROVE  c[i].start + c[i].pages < c[j].start
        <4>1. /\ segs[i].start \in Nat /\ segs[i].pages \in Nat /\ segs[j].start \in Nat
              /\ segs[id].start \in Nat /\ segs[id].pages \in Nat
              /\ segs[i].start + segs[i].pages < segs[j].start
          BY <3>1, <2>3, <1>1, <1>3
        <4>2. CASE i = id
          BY <3>1, <4>1, <4>2, <2>2, <2>3
        <4>3. CASE j = id
          <5>1. pages \in Nat /\ c[j].start = segs[id].start + pages /\ c[i] = segs[i]
            BY <3>1, <4>3, <2>2, <2>3
          <5> QED BY <5>1, <4>1, <4>3, SMTT(30)
        <4>4. CASE i # id /\ j # id
          BY <3>1, <4>1, <4>4, <2>3
        <4> QED BY <4>2, <4>3, <4>4
      <3> QED BY <3>1, <2>3, OrderedMeans
    <2>5. ASSUME NEW f
          PROVE  f \in FramesOf(c) <=> f \in FramesOf(segs) /\ f \notin Frames(run)
      <3>1. ASSUME f \in FramesOf(c)
            PROVE  f \in FramesOf(segs) /\ f \notin Frames(run)
        <4>1. f \in Nat
          BY <3>1, <2>3, InFramesOf
        <4>2. PICK j \in 1..Len(segs) : c[j].start <= f /\ f < c[j].start + c[j].pages
          BY <3>1, <2>3, InFramesOf
        <4>3. segs[j].start <= f /\ f < segs[j].start + segs[j].pages
          BY <4>1, <4>2, <2>2, <2>3, <1>1, SMTT(30)
        <4>4. f \notin Frames(run)
          <5>1. CASE j = id
            BY <5>1, <4>1, <4>2, <2>2, <2>3, <1>1, <1>2
          <5>2. CASE j # id
            BY <5>2, <4>1, <4>3, <1>7
          <5> QED BY <5>1, <5>2
        <4> QED BY <4>1, <4>3, <4>4, InFramesOf
      <3>2. ASSUME f \in FramesOf(segs), f \notin Frames(run)
            PROVE  f \in FramesOf(c)
        <4>1. f \in Nat
          BY <3>2, InFramesOf
        <4>2. PICK k \in 1..Len(segs) : segs[k].start <= f /\ f < segs[k].start + segs[k].pages
          BY <3>2, InFramesOf
        <4>3. c[k].start <= f /\ f < c[k].start + c[k].pages
          <5>1. CASE k = id
            <6>1. segs[id].start \in Nat /\ segs[id].pages \in Nat
              BY <1>1
            <6>2. ~(f < segs[id].start + pages)
              BY <3>2, <4>1, <4>2, <5>1, <1>2
            <6> QED BY <6>1, <6>2, <4>1, <4>2, <5>1, <2>2, <2>3
          <5>2. CASE k # id
            BY <5>2, <4>2, <2>3
          <5> QED BY <5>1, <5>2
        <4> QED BY <4>1, <4>3, <2>3, InFramesOf
      <3> QED BY <3>1, <3>2
    <2> QED BY <1>4, <2>3, <2>4, <2>5 DEF c, run
  <1> QED BY <1>5, <1>6

\* Joining two neighbours that touch restores the order and keeps the frames.
LEMMA MergeFacts ==
    ASSUME NEW segs \in Seq(Runs), NEW id \in Nat,
           \A i, j \in 1..Len(segs) :
               i < j => \/ segs[i].start + segs[i].pages < segs[j].start
                        \/ i = id /\ j = id + 1 /\ segs[i].start + segs[i].pages = segs[j].start
    PROVE  /\ MergeAt(segs, id) \in Seq(Runs)
           /\ Ordered(MergeAt(segs, id))
           /\ FramesOf(MergeAt(segs, id)) = FramesOf(segs)
  <1> DEFINE m == MergeAt(segs, id)
             touch == /\ id \in 1..(Len(segs) - 1)
                      /\ segs[id].start + segs[id].pages = segs[id + 1].start
  <1>1. \A i \in 1..Len(segs) :
            segs[i].start \in Nat /\ segs[i].pages \in Nat /\ segs[i].pages > 0
    BY SegmentTyped
  <1>2. id \in 1..(Len(segs) - 1) =>
            (end_frame(segs[id]) + 1 = segs[id + 1].start <=> touch)
    BY SegmentTyped
  <1>3. CASE ~touch
    <2>1. m = segs
      BY <1>2, <1>3 DEF MergeAt
    <2>2. \A i, j \in 1..Len(segs) : i < j => segs[i].start + segs[i].pages < segs[j].start
      BY <1>3
    <2> QED BY <2>1, <2>2, OrderedMeans
  <1>4. CASE touch
    <2> DEFINE sum == segs[id].pages + segs[id + 1].pages
               joint == [segs EXCEPT ![id].pages = sum]
               new == [segs[id] EXCEPT !.pages = sum]
    <2>1. m = RemoveAt(joint, id + 1)
      BY <1>2, <1>4 DEF MergeAt
    <2>2. id \in 1..Len(segs) /\ id + 1 \in 1..Len(segs)
      BY <1>4
    <2>3. /\ segs[id].start \in Nat /\ segs[id].pages \in Nat /\ segs[id].pages > 0
          /\ segs[id + 1].pages \in Nat /\ segs[id + 1].pages > 0
      BY <1>1, <2>2
    <2>4. new \in Runs /\ new.start = segs[id].start /\ new.pages = sum
      <3>1. segs[id] \in Runs
        BY <2>2
      <3>2. sum \in Nat \ {0}
        BY <2>3
      <3> HIDE DEF sum
      <3> QED BY <3>1, <3>2, SMTT(30) DEF Runs
    <2>5. joint = [segs EXCEPT ![id] = new]
      BY <2>2
    <2> HIDE DEF new, joint, m
    <2>6. /\ joint \in Seq(Runs) /\ Len(joint) = Len(segs)
          /\ \A j \in 1..Len(segs) : joint[j] = IF j = id THEN new ELSE segs[j]
      BY <2>2, <2>4, <2>5
    <2>7. /\ m \in Seq(Runs) /\ Len(m) = Len(segs) - 1
          /\ \A j \in 1..(Len(segs) - 1) :
                m[j] = IF j < id + 1 THEN joint[j] ELSE joint[j + 1]
      <3>1. id + 1 \in 1..Len(joint)
        BY <2>2, <2>6
      <3>2. /\ RemoveAt(joint, id + 1) \in Seq(Runs)
            /\ Len(RemoveAt(joint, id + 1)) = Len(joint) - 1
            /\ \A j \in 1..(Len(joint) - 1) :
                  RemoveAt(joint, id + 1)[j] = IF j < id + 1 THEN joint[j] ELSE joint[j + 1]
        BY <3>1, <2>6, RemoveAtFacts
      <3> QED BY <3>2, <2>1, <2>6
    <2>8. ASSUME NEW j \in 1..(Len(segs) - 1)
          PROVE  m[j] = IF j < id THEN segs[j] ELSE IF j = id THEN new ELSE segs[j + 1]
      <3>1. CASE j < id
        BY <3>1, <2>6, <2>7, SMTT(30)
      <3>2. CASE j = id
        BY <3>2, <2>6, <2>7
      <3>3. CASE id < j
        BY <3>3, <2>6, <2>7
      <3> QED BY <3>1, <3>2, <3>3
    <2>9. new.start + new.pages = segs[id + 1].start + segs[id + 1].pages
      BY <2>3, <2>4, <1>4
    <2>10. Ordered(m)
      <3>1. ASSUME NEW i \in 1..Len(m), NEW j \in 1..Len(m), i < j
            PROVE  m[i].start + m[i].pages < m[j].start
        <4>1. CASE j < id
          <5>1. m[i] = segs[i] /\ m[j] = segs[j]
            BY <3>1, <4>1, <2>7, <2>8
          <5> QED BY <3>1, <4>1, <5>1, <2>7
        <4>2. CASE j = id
          <5>1. m[i] = segs[i] /\ m[j].start = segs[id].start
            BY <3>1, <4>2, <2>4, <2>7, <2>8
          <5> QED BY <3>1, <4>2, <5>1, <2>7
        <4>3. CASE i < id /\ id < j
          <5>1. m[i] = segs[i] /\ m[j] = segs[j + 1]
            BY <3>1, <4>3, <2>7, <2>8, SMTT(30)
          <5>2. i \in 1..Len(segs) /\ j + 1 \in 1..Len(segs) /\ i < j + 1 /\ j + 1 # id + 1
            BY <3>1, <4>3, <2>7
          <5>3. segs[i].start + segs[i].pages < segs[j + 1].start
            BY <5>2
          <5> QED BY <5>1, <5>3
        <4>4. CASE i = id
          <5>1. m[i] = new /\ m[j] = segs[j + 1]
            BY <3>1, <4>4, <2>7, <2>8
          <5>2. segs[id + 1].start + segs[id + 1].pages < segs[j + 1].start
            BY <3>1, <4>4, <2>2, <2>7
          <5> QED BY <5>1, <5>2, <2>9
        <4>5. CASE id < i
          <5>1. m[i] = segs[i + 1] /\ m[j] = segs[j + 1]
            BY <3>1, <4>5, <2>7, <2>8
          <5> QED BY <3>1, <4>5, <5>1, <2>7
        <4> QED BY <3>1, <4>1, <4>2, <4>3, <4>4, <4>5, <2>7
      <3> QED BY <3>1, <2>7, OrderedMeans
    <2>11. ASSUME NEW f \in Nat
           PROVE  (\E j \in 1..Len(m) : m[j].start <= f /\ f < m[j].start + m[j].pages) <=>
                  (\E k \in 1..Len(segs) : segs[k].start <= f /\ f < segs[k].start + segs[k].pages)
      <3>1. ASSUME NEW j \in 1..Len(m), m[j].start <= f, f < m[j].start + m[j].pages
            PROVE  \E k \in 1..Len(segs) : segs[k].start <= f /\ f < segs[k].start + segs[k].pages
        <4>1. CASE j < id
          BY <3>1, <4>1, <2>7, <2>8
        <4>2. CASE j = id
          <5>1. m[j] = new
            BY <4>2, <2>7, <2>8
          <5> QED BY <3>1, <5>1, <2>2, <2>3, <2>4, <2>9, <1>4
        <4>3. CASE id < j
          BY <3>1, <4>3, <2>7, <2>8, SMTT(30)
        <4> QED BY <4>1, <4>2, <4>3, <2>7
      <3>2. ASSUME NEW k \in 1..Len(segs), segs[k].start <= f, f < segs[k].start + segs[k].pages
            PROVE  \E j \in 1..Len(m) : m[j].start <= f /\ f < m[j].start + m[j].pages
        <4>1. CASE k < id
          BY <3>2, <4>1, <2>2, <2>7, <2>8
        <4>2. CASE k = id \/ k = id + 1
          <5>1. id \in 1..Len(m) /\ m[id] = new
            BY <1>4, <2>7, <2>8
          <5>2. new.start <= f /\ f < new.start + new.pages
            BY <3>2, <4>2, <2>3, <2>4, <2>9, <1>4
          <5> QED BY <5>1, <5>2
        <4>3. CASE id + 1 < k
          <5>1. k - 1 \in 1..(Len(segs) - 1) /\ ~(k - 1 < id) /\ k - 1 # id /\ (k - 1) + 1 = k
            BY <4>3
          <5>2. m[k - 1] = segs[k]
            BY <5>1, <2>8
          <5> QED BY <3>2, <5>1, <5>2, <2>7
        <4> QED BY <4>1, <4>2, <4>3
      <3> QED BY <3>1, <3>2
    <2>12. \A f : f \in FramesOf(m) <=> f \in FramesOf(segs)
      BY <2>7, <2>11, InFramesOf, Zenon
    <2> QED BY <2>7, <2>10, <2>12, Zenon DEF m
  <1> QED BY <1>3, <1>4

\* deallocate adds exactly the frame, whichever of its four cases applies.
LEMMA DeallocateFacts ==
    ASSUME NEW segs \in Seq(Runs), Ordered(segs), NEW addr \in Nat, addr \notin FramesOf(segs)
    PROVE  /\ deallocate(segs, addr) \in Seq(Runs)
           /\ Ordered(deallocate(segs, addr))
           /\ FramesOf(deallocate(segs, addr)) = FramesOf(segs) \cup {addr}
  <1> DEFINE d == deallocate(segs, addr)
             one == Segment(addr, 1)
             stops == Stops(segs, addr)
  <1>1. \A i \in 1..Len(segs) :
            /\ segs[i] \in Runs
            /\ segs[i].start \in Nat /\ segs[i].pages \in Nat /\ segs[i].pages > 0
            /\ end_frame(segs[i]) + 1 = segs[i].start + segs[i].pages
    BY SegmentTyped
  <1>2. \A i, j \in 1..Len(segs) : i < j => segs[i].start + segs[i].pages < segs[j].start
    BY OrderedMeans
  <1>3. one \in Runs /\ one.start = addr /\ one.pages = 1
    BY DEF Segment, Runs
  <1>4. \A i \in 1..Len(segs) : ~(segs[i].start <= addr /\ addr < segs[i].start + segs[i].pages)
    BY InFramesOf
  <1>5. \A i \in 1..Len(segs) :
            i \notin stops => segs[i].start + segs[i].pages < addr
    <2> SUFFICES ASSUME NEW i \in 1..Len(segs), i \notin stops
                 PROVE  segs[i].start + segs[i].pages < addr
      OBVIOUS
    <2>1. end_frame(segs[i]) + 1 # addr /\ ~(segs[i].start >= addr + 1)
      BY DEF Stops
    <2>2. /\ segs[i].start \in Nat /\ segs[i].pages \in Nat
          /\ end_frame(segs[i]) + 1 = segs[i].start + segs[i].pages
      BY <1>1
    <2>3. ~(segs[i].start <= addr /\ addr < segs[i].start + segs[i].pages)
      BY <1>4
    <2> QED BY <2>1, <2>2, <2>3
  <1>6. \A i \in stops : /\ i \in 1..Len(segs)
                         /\ \/ segs[i].start + segs[i].pages = addr
                            \/ segs[i].start >= addr + 1
    BY <1>1 DEF Stops
  <1> HIDE DEF one, stops
  <1>7. CASE stops = {}
    <2>1. d = Append(segs, one)
      BY <1>7 DEF deallocate, one, stops
    <2>2. /\ d \in Seq(Runs) /\ Len(d) = Len(segs) + 1
          /\ \A j \in 1..Len(segs) : d[j] = segs[j]
          /\ d[Len(segs) + 1] = one
      BY <2>1, <1>3
    <2> HIDE DEF d
    <2>3. Ordered(d)
      <3>1. ASSUME NEW i \in 1..Len(d), NEW j \in 1..Len(d), i < j
            PROVE  d[i].start + d[i].pages < d[j].start
        <4>1. CASE j <= Len(segs)
          BY <3>1, <4>1, <2>2, <1>2
        <4>2. CASE j = Len(segs) + 1
          BY <3>1, <4>2, <2>2, <1>3, <1>5, <1>7
        <4> QED BY <4>1, <4>2, <2>2
      <3> QED BY <3>1, <2>2, OrderedMeans
    <2>4. ASSUME NEW f \in Nat
          PROVE  (\E j \in 1..Len(d) : d[j].start <= f /\ f < d[j].start + d[j].pages) <=>
                 \/ \E k \in 1..Len(segs) : segs[k].start <= f /\ f < segs[k].start + segs[k].pages
                 \/ f = addr
      <3>1. one.start <= f /\ f < one.start + one.pages <=> f = addr
        BY <1>3
      <3> QED BY <2>2, <3>1
    <2>5. \A f : f \in FramesOf(d) <=> f \in FramesOf(segs) \/ f = addr
      BY <2>2, <2>4, InFramesOf, SMTT(30)
    <2> QED BY <2>2, <2>3, <2>5 DEF d
  <1>8. CASE stops # {}
    <2> DEFINE i == least(stops)
    <2>1. i \in stops /\ \A j \in stops : i <= j
      <3>1. stops \subseteq Nat
        BY <1>6
      <3> QED BY <3>1, <1>8, LeastIsFirst, Zenon
    <2>2. d = IF end_frame(segs[i]) + 1 = addr
              THEN MergeAt([segs EXCEPT ![i].pages = @ + 1], i)
              ELSE IF segs[i].start = addr + 1
              THEN MergeAt([segs EXCEPT ![i] = Segment(addr, @.pages + 1)], i - 1)
              ELSE InsertAt(segs, i, one)
      BY <1>8 DEF deallocate, one, stops
    <2> HIDE DEF i
    <2>3. i \in 1..Len(segs)
      BY <2>1, <1>6
    <2>4. /\ segs[i] \in Runs /\ segs[i].start \in Nat
          /\ segs[i].pages \in Nat /\ segs[i].pages > 0
          /\ end_frame(segs[i]) + 1 = segs[i].start + segs[i].pages
      BY <2>3, <1>1
    <2>5. \A j \in 1..Len(segs) : j < i => segs[j].start + segs[j].pages < addr
      BY <2>1, <2>3, <1>5
    <2>6. CASE segs[i].start + segs[i].pages = addr
      <3> DEFINE new == [segs[i] EXCEPT !.pages = @ + 1]
                 g == [segs EXCEPT ![i].pages = @ + 1]
      <3>1. d = MergeAt(g, i)
        BY <2>2, <2>4, <2>6
      <3>2. new \in Runs /\ new.start = segs[i].start /\ new.pages = segs[i].pages + 1
        BY <2>4 DEF Runs
      <3>3. g = [segs EXCEPT ![i] = new]
        BY <2>3
      <3> HIDE DEF new, g
      <3>4. /\ g \in Seq(Runs) /\ Len(g) = Len(segs)
            /\ \A j \in 1..Len(segs) : g[j] = IF j = i THEN new ELSE segs[j]
        BY <2>3, <3>2, <3>3
      <3>5. new.start + new.pages = addr + 1
        <4>1. \A a, b \in Nat : a + b = addr => a + (b + 1) = addr + 1
          OBVIOUS
        <4> QED BY <2>4, <2>6, <3>2, <4>1, ZenonT(30)
      <3>6. ASSUME NEW j \in 1..Len(g), NEW k \in 1..Len(g), j < k
            PROVE  \/ g[j].start + g[j].pages < g[k].start
                   \/ j = i /\ k = i + 1 /\ g[j].start + g[j].pages = g[k].start
        <4>1. segs[j].start + segs[j].pages < segs[k].start
          BY <3>4, <3>6, <1>2
        <4>2. CASE j # i /\ k # i
          BY <4>1, <4>2, <3>4
        <4>3. CASE k = i
          BY <4>1, <4>3, <3>2, <3>4, <3>6
        <4>4. CASE j = i
          <5>1. g[j] = new /\ g[k] = segs[k] /\ segs[k].start \in Nat
            BY <4>4, <3>4, <3>6, <1>1
          <5>2. addr + 1 <= segs[k].start
            BY <4>1, <4>4, <5>1, <2>6
          <5>3. CASE k = i + 1
            BY <5>1, <5>2, <5>3, <4>4, <3>5
          <5>4. CASE i + 1 < k
            <6>1. i + 1 \in 1..Len(segs)
              BY <5>4, <3>4, <2>3
            <6>2. /\ segs[i].start + segs[i].pages < segs[i + 1].start
                  /\ segs[i + 1].start + segs[i + 1].pages < segs[k].start
                  /\ segs[i + 1].start \in Nat /\ segs[i + 1].pages \in Nat
              BY <6>1, <5>4, <2>3, <3>4, <1>1, <1>2, SMTT(30)
            <6> QED BY <6>2, <5>1, <2>6, <3>5, SMTT(30)
          <5> QED BY <5>3, <5>4, <3>6, <4>4, <2>3, <3>4, SMTT(30)
        <4> QED BY <4>2, <4>3, <4>4
      <3>7. d \in Seq(Runs) /\ Ordered(d) /\ FramesOf(d) = FramesOf(g)
        BY <3>1, <3>4, <3>6, <2>3, MergeFacts
      <3>8. ASSUME NEW f \in Nat
            PROVE  (\E j \in 1..Len(g) : g[j].start <= f /\ f < g[j].start + g[j].pages) <=>
                   \/ \E k \in 1..Len(segs) : segs[k].start <= f /\ f < segs[k].start + segs[k].pages
                   \/ f = addr
        <4>1. new.start <= f /\ f < new.start + new.pages <=>
                  (segs[i].start <= f /\ f < segs[i].start + segs[i].pages) \/ f = addr
          BY <3>2, <3>5, <2>4, <2>6
        <4> QED BY <4>1, <3>4, <2>3
      <3>9. \A f : f \in FramesOf(g) <=> f \in FramesOf(segs) \/ f = addr
        BY <3>4, <3>8, InFramesOf, Zenon
      <3> QED BY <3>7, <3>9
    <2>7. CASE segs[i].start = addr + 1
      <3> DEFINE new == Segment(addr, segs[i].pages + 1)
                 g == [segs EXCEPT ![i] = new]
      <3>1. d = MergeAt(g, i - 1)
        <4>1. ~(end_frame(segs[i]) + 1 = addr)
          BY <2>4, <2>7
        <4> QED BY <4>1, <2>2, <2>7
      <3>2. new \in Runs /\ new.start = addr /\ new.pages = segs[i].pages + 1
        BY <2>4 DEF Runs, Segment
      <3> HIDE DEF new
      <3>4. /\ g \in Seq(Runs) /\ Len(g) = Len(segs)
            /\ \A j \in 1..Len(segs) : g[j] = IF j = i THEN new ELSE segs[j]
        BY <2>3, <3>2
      <3> HIDE DEF g
      <3>5. new.start + new.pages = segs[i].start + segs[i].pages
        BY <2>4, <2>7, <3>2
      <3>6. ASSUME NEW j \in 1..Len(g), NEW k \in 1..Len(g), j < k
            PROVE  g[j].start + g[j].pages < g[k].start
        <4>1. segs[j].start + segs[j].pages < segs[k].start
          BY <3>4, <3>6, <1>2
        <4>2. CASE j # i /\ k # i
          BY <4>1, <4>2, <3>4
        <4>3. CASE k = i
          BY <4>3, <2>5, <3>2, <3>4, <3>6
        <4>4. CASE j = i
          BY <4>1, <4>4, <3>4, <3>5, <3>6, SMTT(30)
        <4> QED BY <4>2, <4>3, <4>4
      <3>7. d \in Seq(Runs) /\ Ordered(d) /\ FramesOf(d) = FramesOf(g)
        <4>1. i - 1 \in Nat
          BY <2>3
        <4> QED BY <4>1, <3>1, <3>4, <3>6, MergeFacts, SMTT(30)
      <3>8. ASSUME NEW f \in Nat
            PROVE  (\E j \in 1..Len(g) : g[j].start <= f /\ f < g[j].start + g[j].pages) <=>
                   \/ \E k \in 1..Len(segs) : segs[k].start <= f /\ f < segs[k].start + segs[k].pages
                   \/ f = addr
        <4>1. new.start <= f /\ f < new.start + new.pages <=>
                  (segs[i].start <= f /\ f < segs[i].start + segs[i].pages) \/ f = addr
          BY <3>2, <3>5, <2>4, <2>7
        <4> QED BY <4>1, <3>4, <2>3
      <3>9. \A f : f \in FramesOf(g) <=> f \in FramesOf(segs) \/ f = addr
        BY <3>4, <3>8, InFramesOf, Zenon
      <3> QED BY <3>7, <3>9
    <2>8. CASE segs[i].start > addr + 1
      <3>1. d = InsertAt(segs, i, one)
        <4>1. ~(end_frame(segs[i]) + 1 = addr) /\ segs[i].start # addr + 1
          BY <2>4, <2>8
        <4> QED BY <4>1, <2>2
      <3>2. /\ d \in Seq(Runs) /\ Len(d) = Len(segs) + 1
            /\ \A j \in 1..(Len(segs) + 1) :
                  d[j] = IF j < i THEN segs[j] ELSE IF j = i THEN one ELSE segs[j - 1]
        BY <3>1, <1>3, <2>3, InsertAtFacts
      <3> HIDE DEF d
      <3>3. \A k \in 1..Len(segs) : i <= k => addr + 1 < segs[k].start
        <4> SUFFICES ASSUME NEW k \in 1..Len(segs), i < k PROVE addr + 1 < segs[k].start
          BY <2>8, <2>3, <2>4
        <4>1. segs[i].start + segs[i].pages < segs[k].start /\ segs[k].start \in Nat
          BY <1>1, <1>2, <2>3
        <4> QED BY <4>1, <2>4, <2>8
      <3>4. Ordered(d)
        <4>1. ASSUME NEW j \in 1..Len(d), NEW k \in 1..Len(d), j < k
              PROVE  d[j].start + d[j].pages < d[k].start
          <5>1. CASE k < i
            BY <4>1, <5>1, <3>2, <1>2, <2>3, SMTT(30)
          <5>2. CASE k = i
            BY <4>1, <5>2, <3>2, <1>3, <2>3, <2>5, SMTT(30)
          <5>3. CASE i < k /\ j = i
            <6>1. d[j] = one /\ d[k] = segs[k - 1] /\ k - 1 \in 1..Len(segs) /\ i <= k - 1
              BY <5>3, <3>2, <2>3
            <6> QED BY <6>1, <3>3, <1>3
          <5>4. CASE i < k /\ j < i
            <6>1. d[j] = segs[j] /\ d[k] = segs[k - 1] /\ k - 1 \in 1..Len(segs) /\ j < k - 1
                  /\ j \in 1..Len(segs)
              BY <5>4, <3>2, <2>3
            <6> QED BY <6>1, <1>2
          <5>5. CASE i < j
            <6>1. /\ d[j] = segs[j - 1] /\ d[k] = segs[k - 1]
                  /\ k - 1 \in 1..Len(segs) /\ j - 1 \in 1..Len(segs) /\ j - 1 < k - 1
              BY <4>1, <5>5, <3>2, <2>3
            <6> QED BY <6>1, <1>2
          <5> QED BY <4>1, <5>1, <5>2, <5>3, <5>4, <5>5, <2>3, <3>2, SMTT(30)
        <4> QED BY <4>1, <3>2, OrderedMeans
      <3>5. ASSUME NEW f \in Nat
            PROVE  (\E j \in 1..Len(d) : d[j].start <= f /\ f < d[j].start + d[j].pages) <=>
                   \/ \E k \in 1..Len(segs) : segs[k].start <= f /\ f < segs[k].start + segs[k].pages
                   \/ f = addr
        <4>1. one.start <= f /\ f < one.start + one.pages <=> f = addr
          BY <1>3
        <4>2. ASSUME NEW j \in 1..Len(d)
              PROVE  d[j] = one \/ \E k \in 1..Len(segs) : d[j] = segs[k]
          <5>1. CASE j < i
            BY <5>1, <3>2, <2>3
          <5>2. CASE j = i
            BY <5>2, <3>2
          <5>3. CASE i < j
            <6>1. d[j] = segs[j - 1] /\ j - 1 \in 1..Len(segs)
              BY <5>3, <3>2, <2>3
            <6> QED BY <6>1
          <5> QED BY <5>1, <5>2, <5>3, <2>3, <3>2, SMTT(30)
        <4>3. ASSUME NEW k \in 1..Len(segs)
              PROVE  \E j \in 1..Len(d) : d[j] = segs[k]
          <5>1. CASE k < i
            BY <5>1, <3>2
          <5>2. CASE i <= k
            <6>1. k + 1 \in 1..Len(d) /\ ~(k + 1 < i) /\ k + 1 # i /\ (k + 1) - 1 = k
              BY <5>2, <3>2, <2>3
            <6>2. d[k + 1] = segs[k]
              BY <6>1, <3>2
            <6> QED BY <6>1, <6>2
          <5> QED BY <5>1, <5>2, <2>3
        <4>4. i \in 1..Len(d) /\ d[i] = one
          BY <3>2, <2>3
        <4> QED BY <4>1, <4>2, <4>3, <4>4, Zenon
      <3>6. \A f : f \in FramesOf(d) <=> f \in FramesOf(segs) \/ f = addr
        BY <3>2, <3>5, InFramesOf, Zenon
      <3> QED BY <3>2, <3>4, <3>6 DEF d
    <2> QED BY <2>1, <2>4, <2>6, <2>7, <2>8, <1>6
  <1> QED BY <1>7, <1>8

-----------------------------------------------------------------------------
\* The invariant

\* The four claims need each other: a frame is given back to its right place only
\* if it is in no segment, and is in no segment because the runs are exclusive.
FrameInv ==
    /\ TypeOK
    /\ SegmentsOrdered
    /\ FramesAreExclusive
    /\ NoFrameLost

\* The frames of a run that is not empty.
LEMMA RunFrames ==
    ASSUME NEW run \in Runs
    PROVE  /\ run.start \in Nat /\ run.pages \in Nat /\ run.pages > 0
           /\ run.start \in Frames(run)
           /\ \A f : f \in Frames(run) <=>
                         f \in Nat /\ run.start <= f /\ f < run.start + run.pages
  <1>1. run.start \in Nat /\ run.pages \in Nat /\ run.pages > 0
    BY DEF Runs
  <1> QED BY <1>1 DEF Frames, end_frame

\* What firmware reports is a list of free segments.
LEMMA InitFrameInv == Init /\ Ordered(map) => FrameInv
  <1> SUFFICES ASSUME Init, Ordered(map) PROVE FrameInv
    OBVIOUS
  <1>1. segments \in Seq(Runs) /\ Ordered(segments)
    BY FrameAssumption DEF Init
  <1>2. FramesIn(held \cup freeing) = {}
    BY Zenon DEF Init, FramesIn
  <1> QED BY <1>1, <1>2
      DEF Init, FrameInv, TypeOK, SegmentsOrdered, FramesAreExclusive, NoFrameLost

\* Taking the first pages of a segment, which allocate and alloc_range both do.
LEMMA TakeKeeps ==
    ASSUME FrameInv, NEW id \in 1..Len(segments), NEW pages \in Nat \ {0},
           pages <= segments[id].pages,
           held' = held \cup {Segment(segments[id].start, pages)},
           segments' = Cut(segments, id, pages),
           UNCHANGED <<map, freeing>>
    PROVE  FrameInv'
  <1> DEFINE run == Segment(segments[id].start, pages)
  <1>0. segments \in Seq(Runs) /\ Ordered(segments)
    BY DEF FrameInv, TypeOK, SegmentsOrdered
  <1>1. run \in Runs
    <2>1. segments[id].start \in Nat
      BY <1>0, SegmentTyped
    <2> QED BY <2>1 DEF Segment, Runs
  <1>2. /\ segments' \in Seq(Runs) /\ Ordered(segments')
        /\ FramesOf(segments') = FramesOf(segments) \ Frames(run)
        /\ Frames(run) \subseteq FramesOf(segments)
    BY <1>0, CutFacts
  <1>3. held' = held \cup {run}
    OBVIOUS
  <1> HIDE DEF run
  <1>4. FramesIn((held \cup freeing)') = FramesIn(held \cup freeing) \cup Frames(run)
    BY <1>3, Zenon DEF FramesIn
  <1>5. \A r \in held \cup freeing : Frames(r) \cap Frames(run) = {}
    BY <1>2 DEF FrameInv, FramesAreExclusive, FramesIn
  <1>6. run \notin freeing
    BY <1>1, <1>5, RunFrames
  <1>7. TypeOK'
    BY <1>1, <1>2, <1>3 DEF FrameInv, TypeOK
  <1>8. FramesAreExclusive'
    <2>1. ASSUME NEW r \in (held \cup freeing)', NEW t \in (held \cup freeing)', r # t
          PROVE  Frames(r) \cap Frames(t) = {}
      BY <2>1, <1>3, <1>5 DEF FrameInv, FramesAreExclusive
    <2>2. (held \cap freeing)' = {}
      BY <1>3, <1>6 DEF FrameInv, FramesAreExclusive
    <2>3. FramesOf(segments') \cap FramesIn((held \cup freeing)') = {}
      BY <1>2, <1>4, Zenon DEF FrameInv, FramesAreExclusive
    <2> QED BY <2>1, <2>2, <2>3 DEF FramesAreExclusive, FramesOf, FramesIn
  <1>9. NoFrameLost'
    <2>1. FramesOf(segments') \cup FramesIn((held \cup freeing)') = FramesOf(map)
      BY <1>2, <1>4, Zenon DEF FrameInv, NoFrameLost
    <2> QED BY <2>1 DEF NoFrameLost, FramesOf, FramesIn
  <1> QED BY <1>2, <1>7, <1>8, <1>9 DEF FrameInv, SegmentsOrdered, Ordered

\* Giving back one frame of a run: it moves from the run to the segments.
LEMMA DeallocKeeps ==
    ASSUME FrameInv, NEW run \in freeing, Dealloc(run)
    PROVE  FrameInv'
  <1> DEFINE rest == IF run.pages = 1 THEN {} ELSE {Segment(run.start + 1, run.pages - 1)}
  <1>0. segments \in Seq(Runs) /\ Ordered(segments) /\ run \in Runs
    BY DEF FrameInv, TypeOK, SegmentsOrdered
  <1>1. /\ run.start \in Nat /\ run.pages \in Nat /\ run.pages > 0
        /\ run.start \in Frames(run)
        /\ \A f : f \in Frames(run) <=> f \in Nat /\ run.start <= f /\ f < run.start + run.pages
    BY <1>0, RunFrames
  <1>2. run.start \notin FramesOf(segments)
    BY <1>1 DEF FrameInv, FramesAreExclusive, FramesIn
  <1>3. /\ segments' \in Seq(Runs) /\ Ordered(segments')
        /\ FramesOf(segments') = FramesOf(segments) \cup {run.start}
    <2>1. segments' = deallocate(segments, run.start)
      BY DEF Dealloc
    <2> QED BY <2>1, <1>0, <1>1, <1>2, DeallocateFacts
  <1>4. held' = held /\ map' = map /\ freeing' = (freeing \ {run}) \cup rest
    BY DEF Dealloc
  <1>5. rest \subseteq Runs /\ FramesIn(rest) = Frames(run) \ {run.start}
        /\ \A r, t \in rest : r = t
    <2>1. CASE run.pages = 1
      <3>1. FramesIn({}) = {}
        BY Zenon DEF FramesIn
      <3>2. Frames(run) \ {run.start} = {}
        BY <1>1, <2>1
      <3> QED BY <2>1, <3>1, <3>2
    <2>2. CASE run.pages # 1
      <3> DEFINE r == Segment(run.start + 1, run.pages - 1)
      <3>1. r \in Runs /\ r.start = run.start + 1 /\ r.pages = run.pages - 1
        BY <1>1, <2>2 DEF Segment, Runs
      <3>2. rest = {r}
        BY <2>2
      <3> HIDE DEF r, rest
      <3>3. \A f : f \in Frames(r) <=> f \in Nat /\ r.start <= f /\ f < r.start + r.pages
        BY <3>1, RunFrames
      <3>4. \A f : f \in Frames(r) <=> f \in Frames(run) /\ f # run.start
        BY <3>1, <3>3, <1>1
      <3>5. FramesIn(rest) = Frames(r)
        BY <3>2, Zenon DEF FramesIn
      <3> QED BY <3>1, <3>2, <3>4, <3>5
    <2> QED BY <2>1, <2>2
  <1> HIDE DEF rest
  <1>6. \A r \in rest : Frames(r) \subseteq Frames(run) \ {run.start}
    BY <1>5 DEF FramesIn
  <1>7. \A r \in (held \cup freeing) \ {run} : Frames(r) \cap Frames(run) = {}
    BY DEF FrameInv, FramesAreExclusive
  <1>8. (held \cup freeing)' = ((held \cup freeing) \ {run}) \cup rest
    BY <1>4 DEF FrameInv, FramesAreExclusive
  <1>9. /\ FramesIn((held \cup freeing)') = FramesIn((held \cup freeing) \ {run}) \cup FramesIn(rest)
        /\ FramesIn(held \cup freeing) = FramesIn((held \cup freeing) \ {run}) \cup Frames(run)
        /\ run.start \notin FramesIn((held \cup freeing) \ {run})
    <2>1. FramesIn((held \cup freeing)') = FramesIn((held \cup freeing) \ {run}) \cup FramesIn(rest)
      BY <1>8, Zenon DEF FramesIn
    <2>2. held \cup freeing = ((held \cup freeing) \ {run}) \cup {run}
      OBVIOUS
    <2>3. FramesIn(((held \cup freeing) \ {run}) \cup {run}) =
              FramesIn((held \cup freeing) \ {run}) \cup Frames(run)
      BY Zenon DEF FramesIn
    <2>4. run.start \notin FramesIn((held \cup freeing) \ {run})
      BY <1>1, <1>7, Zenon DEF FramesIn
    <2> QED BY <2>1, <2>2, <2>3, <2>4, Zenon
  <1>10. TypeOK'
    BY <1>3, <1>4, <1>5 DEF FrameInv, TypeOK
  <1>11. FramesAreExclusive'
    <2>1. ASSUME NEW r \in (held \cup freeing)', NEW t \in (held \cup freeing)', r # t
          PROVE  Frames(r) \cap Frames(t) = {}
      <3>1. CASE r \in rest /\ t \in rest
        BY <2>1, <3>1, <1>5
      <3>2. CASE r \in rest /\ t \in (held \cup freeing) \ {run}
        BY <3>2, <1>6, <1>7
      <3>3. CASE t \in rest /\ r \in (held \cup freeing) \ {run}
        BY <3>3, <1>6, <1>7
      <3>4. CASE r \in (held \cup freeing) \ {run} /\ t \in (held \cup freeing) \ {run}
        BY <2>1, <3>4 DEF FrameInv, FramesAreExclusive
      <3> QED BY <2>1, <1>8, <3>1, <3>2, <3>3, <3>4, SMTT(30)
    <2>2. (held \cap freeing)' = {}
      <3> SUFFICES ASSUME NEW r \in held, r \in rest PROVE FALSE
        BY <1>4 DEF FrameInv, FramesAreExclusive
      <3>1. r # run
        BY DEF FrameInv, FramesAreExclusive
      <3>2. r.start \in Frames(r)
        BY <1>5, RunFrames
      <3> QED BY <3>1, <3>2, <1>6, <1>7
    <2>3. FramesOf(segments') \cap FramesIn((held \cup freeing)') = {}
      <3> DEFINE others == FramesIn((held \cup freeing) \ {run})
      <3>1. FramesOf(segments) \cap (others \cup Frames(run)) = {}
        BY <1>9, Zenon DEF FrameInv, FramesAreExclusive
      <3>2. FramesIn((held \cup freeing)') = others \cup (Frames(run) \ {run.start})
        BY <1>5, <1>9, SMTT(30)
      <3>3. run.start \notin others
        BY <1>9
      <3> HIDE DEF others
      <3>4. (FramesOf(segments) \cup {run.start}) \cap (others \cup (Frames(run) \ {run.start})) = {}
        BY <3>1, <3>3, Zenon
      <3> QED BY <1>3, <3>2, <3>4
    <2> QED BY <2>1, <2>2, <2>3 DEF FramesAreExclusive, FramesOf, FramesIn
  <1>12. NoFrameLost'
    <2>1. FramesOf(segments') \cup FramesIn((held \cup freeing)') = FramesOf(map')
      BY <1>1, <1>3, <1>4, <1>5, <1>9, Zenon DEF FrameInv, NoFrameLost
    <2> QED BY <2>1 DEF NoFrameLost, FramesOf, FramesIn
  <1> QED BY <1>3, <1>10, <1>11, <1>12 DEF FrameInv, SegmentsOrdered, Ordered

LEMMA StepFrameInv == FrameInv /\ [Next]_vars => FrameInv'
  <1> SUFFICES ASSUME FrameInv, [Next]_vars PROVE FrameInv'
    OBVIOUS
  <1>0. segments \in Seq(Runs)
    BY DEF FrameInv, TypeOK
  <1>1. CASE Allocate
    <2>1. 1 \in 1..Len(segments) /\ Len(segments) \in Nat
      BY <1>0, <1>1 DEF Allocate
    <2>2. 1 <= segments[1].pages
      <3>1. segments[1].pages \in Nat /\ segments[1].pages > 0
        BY <2>1, <1>0, SegmentTyped
      <3> QED BY <3>1
    <2> QED BY <1>1, <2>1, <2>2, TakeKeeps DEF Allocate
  <1>2. CASE \E pages \in DmaPages : AllocRange(pages)
    <2>1. PICK pages \in DmaPages : AllocRange(pages)
      BY <1>2
    <2>2. pages \in Nat \ {0}
      BY FrameAssumption
    <2>3. Fitting(segments, pages) \subseteq Nat /\ Fitting(segments, pages) # {}
      BY <2>1 DEF AllocRange, Fitting
    <2>4. least(Fitting(segments, pages)) \in Fitting(segments, pages)
      BY <2>3, LeastIsFirst
    <2>5. /\ least(Fitting(segments, pages)) \in 1..Len(segments)
          /\ segments[least(Fitting(segments, pages))].pages >= pages
      BY <2>4 DEF Fitting
    <2>6. pages <= segments[least(Fitting(segments, pages))].pages
      BY <2>2, <2>5, <1>0, SegmentTyped
    <2> QED BY <2>1, <2>2, <2>5, <2>6, TakeKeeps DEF AllocRange
  <1>3. CASE \E run \in held : Free(run)
    <2>1. PICK run \in held : Free(run)
      BY <1>3
    <2>2. (held \cup freeing)' = held \cup freeing /\ (held \cap freeing)' = {}
          /\ map' = map /\ segments' = segments
      BY <2>1 DEF Free, FrameInv, FramesAreExclusive
    <2>3. TypeOK'
      BY <2>1 DEF Free, FrameInv, TypeOK
    <2>4. FramesAreExclusive' /\ NoFrameLost' /\ SegmentsOrdered'
      BY <2>2 DEF FrameInv, FramesAreExclusive, NoFrameLost, SegmentsOrdered,
                  FramesOf, FramesIn, Ordered
    <2> QED BY <2>3, <2>4 DEF FrameInv
  <1>4. CASE \E run \in freeing : Dealloc(run)
    BY <1>4, DeallocKeeps
  <1>5. CASE UNCHANGED vars
    BY <1>5 DEF vars, FrameInv, TypeOK, SegmentsOrdered, FramesAreExclusive, NoFrameLost,
                FramesOf, FramesIn, Ordered
  <1> QED BY <1>1, <1>2, <1>3, <1>4, <1>5 DEF Next

LEMMA FrameInvHolds == Spec /\ Ordered(map) => []FrameInv
  BY InitFrameInv, StepFrameInv, PTL DEF Spec

\* In an ordered list a run of free frames lies within one segment.
LEMMA RunInSegment ==
    ASSUME segments \in Seq(Runs), Ordered(segments), NEW pages \in Nat \ {0},
           NEW start \in FramesOf(segments), FreeRun(start, pages)
    PROVE  /\ start \in Nat
           /\ \E i \in Fitting(segments, pages) : segments[i].start <= start
  <1>1. start \in Nat
    BY InFramesOf
  <1>2. PICK i \in 1..Len(segments) :
            segments[i].start <= start /\ start < segments[i].start + segments[i].pages
    BY InFramesOf
  <1>3. segments[i].start \in Nat /\ segments[i].pages \in Nat
    BY SegmentTyped
  <1>4. start + pages <= segments[i].start + segments[i].pages
    <2> SUFFICES ASSUME segments[i].start + segments[i].pages < start + pages PROVE FALSE
      BY <1>1, <1>3
    <2>1. segments[i].start + segments[i].pages \in start..(start + pages - 1)
      BY <1>1, <1>2, <1>3
    <2>2. segments[i].start + segments[i].pages \in FramesOf(segments)
      BY <2>1 DEF FreeRun
    <2>3. PICK j \in 1..Len(segments) :
              /\ segments[j].start <= segments[i].start + segments[i].pages
              /\ segments[i].start + segments[i].pages < segments[j].start + segments[j].pages
      BY <2>2, InFramesOf, SMTT(30)
    <2>4. segments[j].start \in Nat /\ segments[j].pages \in Nat
      BY SegmentTyped
    <2>5. /\ i < j => segments[i].start + segments[i].pages < segments[j].start
          /\ j < i => segments[j].start + segments[j].pages < segments[i].start
      BY OrderedMeans
    <2>6. i < j \/ j < i \/ i = j
      OBVIOUS
    <2> QED BY <1>3, <2>3, <2>4, <2>5, <2>6, SMTT(30)
  <1>5. segments[i].pages >= pages
    BY <1>1, <1>2, <1>3, <1>4
  <1> QED BY <1>1, <1>2, <1>5 DEF Fitting

\* The start of the first segment of an ordered list that is long enough is not above
\* the start of any free run of that length.
LEMMA FirstFitIsLowest ==
    ASSUME segments \in Seq(Runs), Ordered(segments), NEW pages \in Nat \ {0},
           NEW start \in FramesOf(segments), FreeRun(start, pages)
    PROVE  segments[least(Fitting(segments, pages))].start <= start
  <1>1. PICK i \in Fitting(segments, pages) : segments[i].start <= start
    BY RunInSegment
  <1>2. Fitting(segments, pages) \subseteq Nat
    BY DEF Fitting
  <1>3. DEFINE id == least(Fitting(segments, pages))
  <1>4. id \in Fitting(segments, pages) /\ id <= i
    BY <1>1, <1>2, LeastIsFirst
  <1> HIDE DEF id
  <1>5. id \in 1..Len(segments) /\ i \in 1..Len(segments)
    BY <1>4 DEF Fitting
  <1>6. /\ segments[id].start \in Nat /\ segments[id].pages \in Nat
        /\ segments[i].start \in Nat /\ start \in Nat
    BY <1>5, SegmentTyped, RunInSegment
  <1>7. id < i => segments[id].start + segments[id].pages < segments[i].start
    BY <1>5, OrderedMeans
  <1>8. id < i \/ id = i
    BY <1>4, <1>5
  <1>9. segments[id].start <= start
    BY <1>1, <1>6, <1>7, <1>8
  <1> QED BY <1>9 DEF id

-----------------------------------------------------------------------------
\* The theorems, for memory maps in ascending order

\* Two callers of the frame allocator never have the same frame, and no frame that
\* is in use is in a free segment.
THEOREM NoFrameTwice == Spec /\ Ordered(map) => []FramesAreExclusive
  <1>1. FrameInv => FramesAreExclusive
    BY DEF FrameInv
  <1> QED BY <1>1, FrameInvHolds, PTL

\* deallocate and alloc_range lose no frame and make none up.
THEOREM MemoryIsKept == Spec /\ Ordered(map) => []NoFrameLost
  <1>1. FrameInv => NoFrameLost
    BY DEF FrameInv
  <1> QED BY <1>1, FrameInvHolds, PTL

\* The list of segments stays ascending and joined, which deallocate relies on.
THEOREM ListStaysOrdered == Spec /\ Ordered(map) => []SegmentsOrdered
  <1>1. FrameInv => SegmentsOrdered
    BY DEF FrameInv
  <1> QED BY <1>1, FrameInvHolds, PTL

\* alloc_range finds a free run of the length it is asked for whenever memory has
\* one: in an ordered list such a run lies within one segment.
THEOREM RangesAreFound == Spec /\ Ordered(map) => []FailsOnlyWithoutRun
  <1>1. FrameInv => FailsOnlyWithoutRun
    <2> SUFFICES ASSUME FrameInv, NEW pages \in DmaPages, NEW start \in FramesOf(segments),
                        FreeRun(start, pages)
                 PROVE  Fitting(segments, pages) # {}
      BY DEF FailsOnlyWithoutRun
    <2>1. segments \in Seq(Runs) /\ Ordered(segments) /\ pages \in Nat \ {0}
      BY FrameAssumption DEF FrameInv, TypeOK, SegmentsOrdered
    <2> QED BY <2>1, RunInSegment
  <1> QED BY <1>1, FrameInvHolds, PTL

\* allocate and alloc_range give out the lowest free run of the length they are
\* asked for, after any history of runs given back frame by frame.
THEOREM LowestIsTaken == Spec /\ Ordered(map) => LowestRun
  <1> DEFINE Lowest ==
        Ordered(map) => \A run \in held' \ held : \A start \in FramesOf(segments) :
            start < run.start => ~FreeRun(start, run.pages)
  <1>1. FrameInv /\ [Next]_vars => [Lowest]_vars
    <2> SUFFICES ASSUME FrameInv, Next, NEW run \in held' \ held,
                        NEW start \in FramesOf(segments), start < run.start,
                        FreeRun(start, run.pages)
                 PROVE  FALSE
      OBVIOUS
    <2>1. segments \in Seq(Runs) /\ Ordered(segments)
      BY DEF FrameInv, TypeOK, SegmentsOrdered
    <2>2. ASSUME NEW pages \in Nat \ {0}, NEW id \in Nat, id = least(Fitting(segments, pages)),
                 run = Segment(segments[id].start, pages), id \in Fitting(segments, pages)
          PROVE  FALSE
      <3>1. run.start = segments[id].start /\ run.pages = pages
        BY <2>2 DEF Segment
      <3>2. segments[id].start <= start /\ start \in Nat
        BY <2>1, <2>2, <3>1, FirstFitIsLowest, RunInSegment, SMTT(30)
      <3>3. segments[id].start \in Nat
        BY <2>1, <2>2, SegmentTyped DEF Fitting
      <3> QED BY <3>1, <3>2, <3>3
    <2>3. CASE Allocate
      <3>1. 1 \in 1..Len(segments)
        BY <2>1, <2>3 DEF Allocate
      <3>2. segments[1].pages \in Nat /\ segments[1].pages > 0
        BY <2>1, <3>1, SegmentTyped
      <3>3. 1 \in Fitting(segments, 1)
        BY <3>1, <3>2 DEF Fitting
      <3>4. Fitting(segments, 1) \subseteq Nat /\ \A i \in Fitting(segments, 1) : 1 <= i
        BY DEF Fitting
      <3>5. /\ least(Fitting(segments, 1)) \in Fitting(segments, 1)
            /\ least(Fitting(segments, 1)) <= 1
        BY <3>3, <3>4, LeastIsFirst
      <3>6. least(Fitting(segments, 1)) = 1
        BY <3>4, <3>5
      <3>7. run = Segment(segments[1].start, 1)
        BY <2>3 DEF Allocate
      <3> QED BY <2>2, <3>3, <3>6, <3>7
    <2>4. CASE \E pages \in DmaPages : AllocRange(pages)
      <3>1. PICK pages \in DmaPages : AllocRange(pages)
        BY <2>4
      <3>2. pages \in Nat \ {0}
        BY FrameAssumption
      <3>3. Fitting(segments, pages) \subseteq Nat /\ Fitting(segments, pages) # {}
        BY <3>1 DEF AllocRange, Fitting
      <3>4. least(Fitting(segments, pages)) \in Fitting(segments, pages)
        BY <3>3, LeastIsFirst
      <3>5. run = Segment(segments[least(Fitting(segments, pages))].start, pages)
        BY <3>1 DEF AllocRange
      <3> QED BY <2>2, <3>2, <3>3, <3>4, <3>5
    <2>5. CASE \E r \in held : Free(r)
      BY <2>5 DEF Free
    <2>6. CASE \E r \in freeing : Dealloc(r)
      BY <2>6 DEF Dealloc
    <2> QED BY <2>3, <2>4, <2>5, <2>6 DEF Next
  <1>2. []FrameInv /\ [][Next]_vars => [][Lowest]_vars
    BY <1>1, PTL
  <1> QED BY <1>2, FrameInvHolds, PTL DEF Spec, LowestRun
=============================================================================
