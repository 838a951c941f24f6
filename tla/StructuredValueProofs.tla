----------------------- MODULE StructuredValueProofs -----------------------
(***************************************************************************)
(* What the value parts of the structured runtime keep for every input.    *)
(*                                                                         *)
(* The builder of canonical items: a byte that cannot be built is taken    *)
(* back exactly, push_byte's loop ends, and undoing to an earlier mark     *)
(* gives exactly the builder the mark was taken of.  The set of items:     *)
(* membership is by value, whatever fingerprints collide.                  *)
(*                                                                         *)
(* The accumulator of numbers: it answers integer and multipleOf as the    *)
(* decimal value of the text does, though it never holds that value, and   *)
(* minimum and maximum though it keeps only the first digits.              *)
(***************************************************************************)
EXTENDS JsonNumber, CanonicalItem, WeightsProofs, SequenceTheorems

(* A sequence over some set.                                               *)
IsSeq(s) == \E S : s \in Seq(S)

LEMMA LenIsNat ==
    ASSUME NEW s, IsSeq(s)
    PROVE  Len(s) \in Nat
BY DEF IsSeq

LEMMA EmptyIsSeq == IsSeq(<<>>)
<1>1. <<>> \in Seq({})
  OBVIOUS
<1>. QED BY <1>1 DEF IsSeq

LEMMA AppendIsSeq ==
    ASSUME NEW s, IsSeq(s), NEW x
    PROVE  /\ IsSeq(Append(s, x))
           /\ Append(s, x) # <<>>
           /\ Last(Append(s, x)) = x
           /\ Front(Append(s, x)) = s
           /\ Len(Append(s, x)) = Len(s) + 1
           /\ SubSeq(Append(s, x), 1, Len(s)) = s
           /\ \A i \in 1 .. Len(s) : Append(s, x)[i] = s[i]
           /\ Append(s, x)[Len(s) + 1] = x
<1>1. PICK S : s \in Seq(S)
  BY DEF IsSeq
<1>. DEFINE T == S \cup {x}
<1>2. s \in Seq(T) /\ x \in T /\ Append(s, x) \in Seq(T)
  BY <1>1
<1>3. Len(Append(s, x)) = Len(s) + 1 /\ Len(s) \in Nat
  BY <1>2
<1>4. /\ \A i \in 1 .. Len(s) : Append(s, x)[i] = s[i]
      /\ Append(s, x)[Len(s) + 1] = x
  BY <1>2
<1>5. SubSeq(Append(s, x), 1, Len(s)) = s
  BY <1>2, <1>3, <1>4
<1>6. IsSeq(Append(s, x))
  BY <1>2 DEF IsSeq
<1>7. Append(s, x) # <<>>
  BY <1>2, <1>3
<1>. QED BY <1>3, <1>4, <1>5, <1>6, <1>7 DEF Front, Last

LEMMA FrontIsSeq ==
    ASSUME NEW s, IsSeq(s), s # <<>>
    PROVE  /\ IsSeq(Front(s))
           /\ Append(Front(s), Last(s)) = s
           /\ Len(Front(s)) = Len(s) - 1
           /\ Len(s) \in Nat \ {0}
           /\ \A i \in 1 .. Len(s) - 1 : Front(s)[i] = s[i]
<1>1. PICK S : s \in Seq(S)
  BY DEF IsSeq
<1>2. Len(s) \in Nat \ {0}
  BY <1>1
<1>3. Front(s) \in Seq(S) /\ Len(Front(s)) = Len(s) - 1 /\ \A i \in 1 .. Len(s) - 1 : Front(s)[i] = s[i]
  <2>1. Front(s) = SubSeq(s, 1, Len(s) - 1)
    BY DEF Front
  <2>2. Front(s) = [i \in 1 .. Len(s) - 1 |-> s[i]]
    BY <1>1, <1>2, <2>1
  <2>. QED BY <1>1, <1>2, <2>2
<1>4. Append(Front(s), Last(s)) = s
  BY <1>1, <1>2, <1>3 DEF Last
<1>. QED BY <1>2, <1>3, <1>4 DEF IsSeq

WithTop(s, x) == [s EXCEPT ![Len(s)] = x]

LEMMA ReplaceIsSeq ==
    ASSUME NEW s, IsSeq(s), s # <<>>, NEW x, NEW t, t = WithTop(s, x)
    PROVE  /\ IsSeq(t)
           /\ t # <<>>
           /\ Len(t) = Len(s)
           /\ Len(s) \in Nat \ {0}
           /\ Last(t) = x
           /\ \A i \in 1 .. Len(s) - 1 : t[i] = s[i]
           /\ \A y : WithTop(t, y) = WithTop(s, y)
           /\ WithTop(s, Last(s)) = s
<1>1. PICK S : s \in Seq(S)
  BY DEF IsSeq
<1>. DEFINE T == S \cup {x}
<1>2. s \in Seq(T) /\ x \in T /\ Len(s) \in Nat \ {0}
  BY <1>1
<1>3. t \in Seq(T) /\ Len(t) = Len(s) /\ t[Len(s)] = x /\ \A i \in 1 .. Len(s) - 1 : t[i] = s[i]
  BY <1>2 DEF WithTop
<1>4. \A y : WithTop(t, y) = WithTop(s, y)
  BY <1>2, <1>3 DEF WithTop
<1>5. WithTop(s, Last(s)) = s
  BY <1>2 DEF Last, WithTop
<1>. QED BY <1>2, <1>3, <1>4, <1>5 DEF IsSeq, Last

----------------------------------------------------------------------------
(* The builder's frames, and the stacks and builders push_byte can make.   *)

ScalarFrame(f) == f = [kind |-> "Scalar", phase |-> f.phase, text |-> f.text]

StrFrame(f) ==
    /\ f = [kind |-> "Str", decoder |-> f.decoder, text |-> f.text, as_key |-> f.as_key]
    /\ f.decoder \in {"None", "Started"}
    /\ f.as_key \in BOOLEAN

ArrayFrame(f) == f = [kind |-> "Array", children |-> f.children] /\ IsSeq(f.children)

ObjectFrame(f) ==
    /\ f = [kind |-> "Object", phase |-> f.phase, entries |-> f.entries]
    /\ f.phase.at \in {"KeyOrClose", "Colon", "Value"}
    /\ IsSeq(f.entries)

FrameOK(f) == ScalarFrame(f) \/ StrFrame(f) \/ ArrayFrame(f) \/ ObjectFrame(f)

(* A string that is a member's name; a container that waits for a value, and
   an object that waits for a name.                                        *)
KeyString(f) == StrFrame(f) /\ f.as_key

ForValue(f) == ArrayFrame(f) \/ (ObjectFrame(f) /\ f.phase.at = "Value")

ForKey(f) == ObjectFrame(f) /\ f.phase.at = "KeyOrClose"

StackOK(stack) ==
    stack # <<>> =>
        /\ IsSeq(stack)
        /\ FrameOK(Last(stack))
        /\ KeyString(Last(stack)) => Len(stack) > 1 /\ ForKey(stack[Len(stack) - 1])
        /\ \A i \in 1 .. Len(stack) - 1 : ForValue(stack[i]) \/ (i = Len(stack) - 1 /\ KeyString(Last(stack)))

Shaped(b) == b = [stack |-> b.stack, root |-> b.root, journal |-> b.journal, out |-> b.out]

BuilderOK(b) ==
    /\ Shaped(b)
    /\ IsSeq(b.journal)
    /\ StackOK(b.stack)
    /\ b.stack = <<>> <=> b.root # <<>>

LEMMA StackReplace ==
    ASSUME NEW s, StackOK(s), s # <<>>, NEW f, FrameOK(f), KeyString(f) <=> KeyString(Last(s)),
           NEW t, t = WithTop(s, f)
    PROVE  t # <<>> /\ Last(t) = f /\ StackOK(t)
<1>1. IsSeq(s)
  BY DEF StackOK
<1>2. IsSeq(t) /\ t # <<>> /\ Len(t) = Len(s) /\ Last(t) = f /\ \A i \in 1 .. Len(s) - 1 : t[i] = s[i]
  BY <1>1, ReplaceIsSeq
<1>3. Len(s) \in Nat
  BY <1>1, LenIsNat
<1>. QED BY <1>2, <1>3 DEF StackOK

LEMMA StackPush ==
    ASSUME NEW s, StackOK(s), s # <<>>, NEW f, FrameOK(f),
           IF KeyString(f) THEN ForKey(Last(s)) ELSE ForValue(Last(s))
    PROVE  StackOK(Append(s, f))
<1>1. IsSeq(s) /\ Len(s) \in Nat \ {0}
  BY FrontIsSeq DEF StackOK
<1>2. ~KeyString(Last(s))
  BY DEF ForKey, ForValue, KeyString, StrFrame, ArrayFrame, ObjectFrame
<1>3. /\ Last(Append(s, f)) = f /\ IsSeq(Append(s, f)) /\ Len(Append(s, f)) = Len(s) + 1
      /\ \A i \in 1 .. Len(s) : Append(s, f)[i] = s[i]
  BY <1>1, AppendIsSeq
<1>4. \A i \in 1 .. Len(s) - 1 : ForValue(s[i])
  BY <1>2 DEF StackOK
<1>5. s[Len(s)] = Last(s)
  BY DEF Last
<1>. QED BY <1>1, <1>3, <1>4, <1>5 DEF StackOK

(* What pop leaves: containers that wait, the last for a name when the frame
   popped was one.                                                         *)
LEMMA StackPop ==
    ASSUME NEW s, StackOK(s), s # <<>>
    PROVE  /\ StackOK(Front(s))
           /\ Front(s) # <<>> => (IF KeyString(Last(s)) THEN ForKey(Last(Front(s))) ELSE ForValue(Last(Front(s))))
           /\ KeyString(Last(s)) => Front(s) # <<>>
<1>1. /\ IsSeq(s) /\ Len(s) \in Nat \ {0}
      /\ IsSeq(Front(s)) /\ Len(Front(s)) = Len(s) - 1 /\ \A i \in 1 .. Len(s) - 1 : Front(s)[i] = s[i]
  BY FrontIsSeq DEF StackOK
<1>2. Front(s) # <<>> <=> Len(s) > 1
  <2>1. PICK S : Front(s) \in Seq(S)
    BY <1>1 DEF IsSeq
  <2>. QED BY <1>1, <2>1
<1>3. ASSUME Front(s) # <<>>
      PROVE  IF KeyString(Last(s)) THEN ForKey(Last(Front(s))) ELSE ForValue(Last(Front(s)))
  <2>1. Last(Front(s)) = s[Len(s) - 1] /\ Len(s) - 1 \in 1 .. Len(s) - 1
    BY <1>1, <1>2, <1>3 DEF Last
  <2>. QED BY <2>1 DEF StackOK
<1>4. ASSUME Front(s) # <<>> PROVE StackOK(Front(s))
  <2>1. FrameOK(Last(Front(s))) /\ ~KeyString(Last(Front(s)))
    BY <1>3, <1>4 DEF FrameOK, ForKey, ForValue, KeyString, StrFrame, ArrayFrame, ObjectFrame
  <2>2. \A i \in 1 .. Len(Front(s)) - 1 : ForValue(Front(s)[i])
    BY <1>1, <1>4 DEF StackOK
  <2>. QED BY <1>1, <2>1, <2>2 DEF StackOK
<1>. QED BY <1>2, <1>3, <1>4 DEF StackOK

----------------------------------------------------------------------------
(* c's journal goes back to b: it extends b's, and undone entry by entry it
   passes through the stacks h[k], k its length then, down to b's stack.   *)

Trail(h, b, c) ==
    /\ h = [k \in Len(b.journal) .. Len(c.journal) |-> h[k]]
    /\ h[Len(c.journal)] = c.stack
    /\ h[Len(b.journal)] = b.stack
    /\ \A k \in Len(b.journal) .. Len(c.journal) - 1 : h[k] = RevertStack(c.journal[k + 1], h[k + 1])

Leads(b, c) ==
    /\ IsSeq(b.journal) /\ IsSeq(c.journal)
    /\ Len(b.journal) <= Len(c.journal)
    /\ \A i \in 1 .. Len(b.journal) : c.journal[i] = b.journal[i]
    /\ \E h : Trail(h, b, c)

LEMMA LeadsSame ==
    ASSUME NEW b, NEW c, IsSeq(b.journal), c.journal = b.journal, c.stack = b.stack
    PROVE  Leads(b, c)
<1>. DEFINE n == Len(b.journal)
            h == [k \in n .. n |-> b.stack]
<1>1. n \in Nat /\ Len(c.journal) = n
  BY LenIsNat
<1>2. DOMAIN h = {n} /\ h[n] = b.stack
  BY <1>1
<1>3. Trail(h, b, c)
  BY <1>1, <1>2 DEF Trail
<1>. QED BY <1>1, <1>3 DEF Leads

LEMMA LeadsOne ==
    ASSUME NEW b, NEW c, NEW entry, IsSeq(b.journal), c.journal = Append(b.journal, entry),
           RevertStack(entry, c.stack) = b.stack
    PROVE  Leads(b, c)
<1>. DEFINE n == Len(b.journal)
            h == [k \in n .. n + 1 |-> IF k = n THEN b.stack ELSE c.stack]
<1>1. /\ n \in Nat /\ IsSeq(c.journal) /\ Len(c.journal) = n + 1
      /\ \A i \in 1 .. n : c.journal[i] = b.journal[i]
      /\ c.journal[n + 1] = entry
  BY LenIsNat, AppendIsSeq
<1>2. h[n] = b.stack /\ h[n + 1] = c.stack /\ h = [k \in n .. n + 1 |-> h[k]]
  BY <1>1
<1>3. \A k \in n .. n : k = n
  BY <1>1
<1>. HIDE DEF h
<1>4. \A k \in n .. Len(c.journal) - 1 : h[k] = RevertStack(c.journal[k + 1], h[k + 1])
  BY <1>1, <1>2, <1>3
<1>5. Trail(h, b, c)
  BY <1>1, <1>2, <1>4 DEF Trail
<1>. QED BY <1>1, <1>5 DEF Leads

LEMMA LeadsTrans ==
    ASSUME NEW a, NEW b, NEW c, Leads(a, b), Leads(b, c)
    PROVE  Leads(a, c)
<1>. DEFINE x == Len(a.journal)
            y == Len(b.journal)
            z == Len(c.journal)
<1>1. PICK g : Trail(g, a, b)
  BY DEF Leads
<1>2. PICK h : Trail(h, b, c)
  BY DEF Leads
<1>3. x \in Nat /\ y \in Nat /\ z \in Nat /\ x <= y /\ y <= z
  BY LenIsNat DEF Leads
<1>4. /\ g[y] = b.stack /\ g[x] = a.stack
      /\ \A k \in x .. y - 1 : g[k] = RevertStack(b.journal[k + 1], g[k + 1])
      /\ h[z] = c.stack /\ h[y] = b.stack
      /\ \A k \in y .. z - 1 : h[k] = RevertStack(c.journal[k + 1], h[k + 1])
  BY <1>1, <1>2 DEF Trail
<1>5. /\ \A i \in 1 .. y : c.journal[i] = b.journal[i]
      /\ \A i \in 1 .. x : b.journal[i] = a.journal[i]
  BY DEF Leads
<1>. DEFINE w == [k \in x .. z |-> IF k <= y THEN g[k] ELSE h[k]]
<1>6. /\ w = [k \in x .. z |-> w[k]]
      /\ w[z] = c.stack /\ w[x] = a.stack
      /\ \A k \in x .. y : w[k] = g[k]
      /\ \A k \in y .. z : w[k] = h[k]
  BY <1>3, <1>4
<1>. HIDE DEF w
<1>7. ASSUME NEW k \in x .. z - 1 PROVE w[k] = RevertStack(c.journal[k + 1], w[k + 1])
  <2>1. CASE k < y
    <3>1. k \in x .. y - 1 /\ k \in x .. y /\ k + 1 \in x .. y /\ k + 1 \in 1 .. y
      BY <1>3, <2>1
    <3>. QED BY <3>1, <1>4, <1>5, <1>6
  <2>2. CASE k >= y
    <3>1. k \in y .. z - 1 /\ k \in y .. z /\ k + 1 \in y .. z
      BY <1>3, <2>2
    <3>. QED BY <3>1, <1>4, <1>6
  <2>. QED BY <1>3, <2>1, <2>2
<1>8. Trail(w, a, c)
  BY <1>6, <1>7 DEF Trail
<1>9. \A i \in 1 .. x : c.journal[i] = a.journal[i]
  BY <1>3, <1>5
<1>. QED BY <1>3, <1>8, <1>9 DEF Leads

(* restore goes back along the trail: it is the only solution of Unwound's
   recursion.                                                              *)
LEMMA UnwoundIs ==
    ASSUME NEW b, NEW c, Leads(b, c)
    PROVE  /\ Unwound(c.stack, c.journal, Len(b.journal)) = b.stack
           /\ SubSeq(c.journal, 1, Len(b.journal)) = b.journal
<1>. DEFINE m == Len(b.journal)
            n == Len(c.journal)
            Eq(g) == g = [k \in m .. n |-> IF k = n THEN c.stack ELSE RevertStack(c.journal[k + 1], g[k + 1])]
            before == CHOOSE g : Eq(g)
<1>1. PICK h : Trail(h, b, c)
  BY DEF Leads
<1>2. m \in Nat /\ n \in Nat /\ m <= n
  BY LenIsNat DEF Leads
<1>3. /\ h = [k \in m .. n |-> h[k]] /\ h[n] = c.stack /\ h[m] = b.stack
      /\ \A k \in m .. n - 1 : h[k] = RevertStack(c.journal[k + 1], h[k + 1])
  BY <1>1 DEF Trail
<1>4. Eq(h)
  <2>1. \A k \in m .. n : h[k] = IF k = n THEN c.stack ELSE RevertStack(c.journal[k + 1], h[k + 1])
    <3>1. \A k \in m .. n : k # n => k \in m .. n - 1
      BY <1>2
    <3>. QED BY <1>3, <3>1
  <2>. QED BY <1>3, <2>1
<1>5. Unwound(c.stack, c.journal, m) = before[m]
  BY DEF Unwound
<1>. HIDE DEF Eq
<1>6. Eq(before)
  BY <1>4, Zenon
<1>7. /\ before[n] = c.stack
      /\ \A k \in m .. n - 1 : before[k] = RevertStack(c.journal[k + 1], before[k + 1])
  <2>. HIDE DEF before
  <2>1. \A k \in m .. n : before[k] = IF k = n THEN c.stack ELSE RevertStack(c.journal[k + 1], before[k + 1])
    BY <1>6, Zenon DEF Eq
  <2>2. n \in m .. n /\ \A k \in m .. n - 1 : k \in m .. n /\ k # n
    BY <1>2
  <2>. QED BY <2>1, <2>2
<1>. HIDE DEF before
<1>8. before[m] = h[m]
  <2>. DEFINE S == {i \in 0 .. n - m : before[n - i] = h[n - i]}
  <2>1. n - m \in Nat /\ 0 \in S
    BY <1>2, <1>3, <1>7
  <2>2. ASSUME NEW i \in 1 .. n - m, i - 1 \in S PROVE i \in S
    <3>1. n - i \in m .. n - 1 /\ n - (i - 1) = (n - i) + 1 /\ i \in 0 .. n - m
      BY <1>2
    <3>2. before[(n - i) + 1] = h[(n - i) + 1]
      BY <2>2, <3>1
    <3>. QED BY <3>1, <3>2, <1>3, <1>7
  <2>3. 0 .. n - m \subseteq S
    <3>. HIDE DEF S
    <3>. QED BY <2>1, <2>2, SetInduction
  <2>4. n - m \in 0 .. n - m /\ n - (n - m) = m
    BY <1>2
  <2>. QED BY <2>3, <2>4
<1>9. SubSeq(c.journal, 1, m) = b.journal
  <2>1. PICK S : b.journal \in Seq(S)
    BY DEF Leads, IsSeq
  <2>2. PICK T : c.journal \in Seq(T)
    BY DEF Leads, IsSeq
  <2>3. \A i \in 1 .. m : c.journal[i] = b.journal[i]
    BY DEF Leads
  <2>4. SubSeq(c.journal, 1, m) = [i \in 1 .. m |-> c.journal[i]]
    BY <1>2, <2>2
  <2>5. b.journal = [i \in 1 .. m |-> b.journal[i]]
    BY <2>1
  <2>. QED BY <2>3, <2>4, <2>5
<1>. QED BY <1>3, <1>5, <1>8, <1>9

LEMMA RestoreGoesBack ==
    ASSUME NEW b, NEW c, BuilderOK(b), Leads(b, c)
    PROVE  RestoreBuilder(c, BuilderMark(b)) = [b EXCEPT !.out = "ok"]
<1>1. /\ Unwound(c.stack, c.journal, Len(b.journal)) = b.stack
      /\ SubSeq(c.journal, 1, Len(b.journal)) = b.journal
  BY UnwoundIs
<1>2. BuilderMark(b).journal_len = Len(b.journal) /\ BuilderMark(b).root = b.root
  BY DEF BuilderMark
<1>3. b = [stack |-> b.stack, root |-> b.root, journal |-> b.journal, out |-> b.out]
  BY DEF BuilderOK, Shaped
<1>4. RestoreBuilder(c, BuilderMark(b)) = [stack |-> b.stack, root |-> b.root, journal |-> b.journal, out |-> "ok"]
  BY <1>1, <1>2, Zenon DEF RestoreBuilder
<1>5. [b EXCEPT !.out = "ok"] = [stack |-> b.stack, root |-> b.root, journal |-> b.journal, out |-> "ok"]
  BY <1>3
<1>. QED BY <1>4, <1>5

----------------------------------------------------------------------------
(* What each of the builder's operations does to its fields.               *)

LEMMA RecordIs ==
    ASSUME NEW b, Shaped(b), NEW entry, NEW c, c = Record(b, entry)
    PROVE  /\ Shaped(c) /\ c.stack = b.stack /\ c.root = b.root /\ c.out = b.out
           /\ c.journal = Append(b.journal, entry)
BY DEF Shaped, Record

LEMMA ReplaceTopIs ==
    ASSUME NEW b, Shaped(b), NEW entry, NEW f, NEW c, c = ReplaceTop(b, entry, f)
    PROVE  /\ Shaped(c) /\ c.stack = WithTop(b.stack, f) /\ c.root = b.root /\ c.out = b.out
           /\ c.journal = Append(b.journal, entry)
<1>1. PICK d : d = Record(b, entry)
  OBVIOUS
<1>2. Shaped(d) /\ d.stack = b.stack /\ d.root = b.root /\ d.out = b.out /\ d.journal = Append(b.journal, entry)
  BY <1>1, RecordIs
<1>3. PICK t : t = WithTop(b.stack, f)
  OBVIOUS
<1>4. c = [d EXCEPT !.stack = t]
  BY <1>1, <1>2, <1>3, Zenon DEF ReplaceTop, WithTop
<1>. QED BY <1>2, <1>3, <1>4 DEF Shaped

LEMMA PushTopIs ==
    ASSUME NEW b, Shaped(b), NEW f, NEW c, c = PushTop(b, f)
    PROVE  /\ Shaped(c) /\ c.stack = Append(b.stack, f) /\ c.root = b.root /\ c.out = b.out
           /\ c.journal = Append(b.journal, [op |-> "PopFrame"])
<1>1. PICK d : d = Record(b, [op |-> "PopFrame"])
  OBVIOUS
<1>2. /\ Shaped(d) /\ d.stack = b.stack /\ d.root = b.root /\ d.out = b.out
      /\ d.journal = Append(b.journal, [op |-> "PopFrame"])
  BY <1>1, RecordIs
<1>3. PICK t : t = Append(b.stack, f)
  OBVIOUS
<1>4. c = [d EXCEPT !.stack = t]
  BY <1>1, <1>2, <1>3, Zenon DEF PushTop
<1>. QED BY <1>2, <1>3, <1>4 DEF Shaped

PushFrame(b) == [op |-> "PushFrame", old |-> Last(b.stack)]

LEMMA PopTopIs ==
    ASSUME NEW b, Shaped(b), NEW c, c = PopTop(b)
    PROVE  /\ Shaped(c) /\ c.stack = Front(b.stack) /\ c.root = b.root /\ c.out = b.out
           /\ c.journal = Append(b.journal, PushFrame(b))
<1>1. PICK d : d = Record(b, PushFrame(b))
  OBVIOUS
<1>2. /\ Shaped(d) /\ d.stack = b.stack /\ d.root = b.root /\ d.out = b.out
      /\ d.journal = Append(b.journal, PushFrame(b))
  BY <1>1, RecordIs
<1>3. PICK t : t = Front(b.stack)
  OBVIOUS
<1>4. c = [d EXCEPT !.stack = t]
  BY <1>1, <1>2, <1>3, Zenon DEF PopTop, PushFrame
<1>. QED BY <1>2, <1>3, <1>4 DEF Shaped

LEMMA OutIs ==
    ASSUME NEW b, Shaped(b), NEW out, NEW c, c = [b EXCEPT !.out = out]
    PROVE  Shaped(c) /\ c.stack = b.stack /\ c.root = b.root /\ c.journal = b.journal /\ c.out = out
BY DEF Shaped

LEMMA DoneIs ==
    ASSUME NEW b, Shaped(b), NEW c, c = Done(b)
    PROVE  /\ Shaped(c) /\ c.stack = b.stack /\ c.root = b.root /\ c.journal = b.journal
           /\ c.out = IF b.out = "run" THEN "ok" ELSE b.out
BY DEF Shaped, Done

----------------------------------------------------------------------------
(* One mutation of the builder: the stack stays well formed and its journal
   leads back.                                                             *)

LEMMA ReplaceStep ==
    ASSUME NEW b, BuilderOK(b), b.stack # <<>>, NEW entry, NEW f, FrameOK(f),
           KeyString(f) <=> KeyString(Last(b.stack)),
           RevertStack(entry, WithTop(b.stack, f)) = b.stack,
           NEW c, c = ReplaceTop(b, entry, f)
    PROVE  BuilderOK(c) /\ Leads(b, c) /\ c.stack # <<>> /\ Last(c.stack) = f /\ c.root = b.root /\ c.out = b.out
<1>1. Shaped(b) /\ IsSeq(b.journal) /\ StackOK(b.stack)
  BY DEF BuilderOK
<1>2. /\ Shaped(c) /\ c.stack = WithTop(b.stack, f) /\ c.root = b.root /\ c.out = b.out
      /\ c.journal = Append(b.journal, entry)
  BY <1>1, ReplaceTopIs
<1>3. StackOK(c.stack) /\ c.stack # <<>> /\ Last(c.stack) = f
  BY <1>1, <1>2, StackReplace
<1>4. IsSeq(c.journal)
  BY <1>1, <1>2, AppendIsSeq
<1>5. Leads(b, c)
  BY <1>1, <1>2, LeadsOne
<1>. QED BY <1>2, <1>3, <1>4, <1>5 DEF BuilderOK

LEMMA PushStep ==
    ASSUME NEW b, BuilderOK(b), b.stack # <<>>, NEW f, FrameOK(f),
           IF KeyString(f) THEN ForKey(Last(b.stack)) ELSE ForValue(Last(b.stack)),
           NEW c, c = PushTop(b, f)
    PROVE  BuilderOK(c) /\ Leads(b, c) /\ c.stack # <<>> /\ Last(c.stack) = f /\ c.root = b.root /\ c.out = b.out
<1>1. Shaped(b) /\ IsSeq(b.journal) /\ StackOK(b.stack) /\ IsSeq(b.stack)
  BY DEF BuilderOK, StackOK
<1>2. /\ Shaped(c) /\ c.stack = Append(b.stack, f) /\ c.root = b.root /\ c.out = b.out
      /\ c.journal = Append(b.journal, [op |-> "PopFrame"])
  BY <1>1, PushTopIs
<1>3. StackOK(c.stack)
  BY <1>1, <1>2, StackPush
<1>4. IsSeq(c.journal) /\ c.stack # <<>> /\ Last(c.stack) = f /\ Front(c.stack) = b.stack
  BY <1>1, <1>2, AppendIsSeq
<1>5. RevertStack([op |-> "PopFrame"], c.stack) = b.stack
  BY <1>4 DEF RevertStack
<1>6. Leads(b, c)
  BY <1>1, <1>2, <1>5, LeadsOne
<1>. QED BY <1>2, <1>3, <1>4, <1>6 DEF BuilderOK

(* A builder whose top frame was popped, before its value is attached.      *)
LEMMA PopStep ==
    ASSUME NEW b, BuilderOK(b), b.stack # <<>>, NEW c, c = PopTop(b)
    PROVE  /\ Shaped(c) /\ IsSeq(c.journal) /\ StackOK(c.stack) /\ Leads(b, c)
           /\ c.root = b.root /\ c.out = b.out /\ c.stack = Front(b.stack)
<1>1. Shaped(b) /\ IsSeq(b.journal) /\ StackOK(b.stack) /\ IsSeq(b.stack)
  BY DEF BuilderOK, StackOK
<1>2. /\ Shaped(c) /\ c.stack = Front(b.stack) /\ c.root = b.root /\ c.out = b.out
      /\ c.journal = Append(b.journal, PushFrame(b))
  BY <1>1, PopTopIs
<1>3. StackOK(c.stack)
  BY <1>1, <1>2, StackPop
<1>4. IsSeq(c.journal) /\ Append(c.stack, Last(b.stack)) = b.stack
  BY <1>1, <1>2, AppendIsSeq, FrontIsSeq
<1>5. RevertStack(PushFrame(b), c.stack) = b.stack
  BY <1>4 DEF RevertStack, PushFrame
<1>6. Leads(b, c)
  BY <1>1, <1>2, <1>5, LeadsOne
<1>. QED BY <1>2, <1>3, <1>4, <1>6

----------------------------------------------------------------------------
(* Each journal entry takes back the mutation it is recorded for.           *)

LEMMA RevertTop ==
    ASSUME NEW s, IsSeq(s), s # <<>>, NEW f, NEW entry, entry.depth = Len(s),
           entry.op \notin {"RestoreRoot", "PopFrame", "PushFrame"},
           RevertFrame(entry, f) = Last(s)
    PROVE  RevertStack(entry, WithTop(s, f)) = s
<1>1. PICK t : t = WithTop(s, f)
  OBVIOUS
<1>2. Len(t) = Len(s) /\ Last(t) = f /\ WithTop(t, Last(s)) = WithTop(s, Last(s)) /\ WithTop(s, Last(s)) = s
  BY <1>1, ReplaceIsSeq
<1>3. RevertStack(entry, t) = [t EXCEPT ![Len(s)] = RevertFrame(entry, t[Len(s)])]
  BY DEF RevertStack
<1>4. t[Len(s)] = f
  BY <1>2 DEF Last
<1>5. RevertStack(entry, t) = WithTop(t, Last(s))
  BY <1>2, <1>3, <1>4 DEF WithTop
<1>. QED BY <1>1, <1>2, <1>5

LEMMA RevertScalar ==
    ASSUME NEW b, IsSeq(b.stack), b.stack # <<>>, NEW f
    PROVE  RevertStack(RestoreScalar(b), WithTop(b.stack, f)) = b.stack
<1>1. PICK entry : entry = RestoreScalar(b)
  OBVIOUS
<1>2. entry.depth = Len(b.stack) /\ entry.op = "RestoreScalar" /\ entry.old = Last(b.stack)
  BY <1>1 DEF RestoreScalar
<1>3. RevertFrame(entry, f) = Last(b.stack)
  BY <1>2 DEF RevertFrame
<1>. QED BY <1>1, <1>2, <1>3, RevertTop

LEMMA RevertString ==
    ASSUME NEW b, IsSeq(b.stack), b.stack # <<>>, StrFrame(Last(b.stack)), NEW f, f.as_key = Last(b.stack).as_key
    PROVE  RevertStack(RestoreString(b), WithTop(b.stack, f)) = b.stack
<1>1. PICK entry : entry = RestoreString(b)
  OBVIOUS
<1>2. /\ entry.depth = Len(b.stack) /\ entry.op = "RestoreString"
      /\ entry.decoder = Last(b.stack).decoder /\ entry.text = Last(b.stack).text
  BY <1>1 DEF RestoreString
<1>3. RevertFrame(entry, f) = Last(b.stack)
  BY <1>2 DEF RevertFrame, StrFrame
<1>. QED BY <1>1, <1>2, <1>3, RevertTop

(* f is the object frame of s with another phase; b holds the phase of s.   *)
LEMMA RevertPhase ==
    ASSUME NEW b, NEW s, IsSeq(s), s # <<>>, Len(s) = Len(b.stack), ObjectFrame(Last(s)),
           Last(s).phase = Last(b.stack).phase, NEW phase, NEW f, f = [Last(s) EXCEPT !.phase = phase]
    PROVE  RevertStack(RestoreObjectPhase(b), WithTop(s, f)) = s
<1>1. PICK entry : entry = RestoreObjectPhase(b)
  OBVIOUS
<1>2. entry.depth = Len(s) /\ entry.op = "RestoreObjectPhase" /\ entry.phase = Last(s).phase
  BY <1>1 DEF RestoreObjectPhase
<1>3. RevertFrame(entry, f) = [f EXCEPT !.phase = Last(s).phase]
  BY <1>2 DEF RevertFrame
<1>4. [f EXCEPT !.phase = Last(s).phase] = Last(s)
  BY DEF ObjectFrame
<1>. QED BY <1>1, <1>2, <1>3, <1>4, RevertTop

LEMMA RevertChildren ==
    ASSUME NEW b, IsSeq(b.stack), b.stack # <<>>, ArrayFrame(Last(b.stack)), NEW value, NEW f,
           f = [kind |-> "Array", children |-> Append(Last(b.stack).children, value)]
    PROVE  RevertStack(TruncateChildren(b), WithTop(b.stack, f)) = b.stack
<1>1. PICK entry : entry = TruncateChildren(b)
  OBVIOUS
<1>2. PICK old : old = Last(b.stack).children
  OBVIOUS
<1>3. entry.depth = Len(b.stack) /\ entry.op = "TruncateChildren" /\ entry.old_len = Len(old)
  BY <1>1, <1>2 DEF TruncateChildren
<1>4. SubSeq(f.children, 1, Len(old)) = old
  BY <1>2, AppendIsSeq DEF ArrayFrame
<1>5. RevertFrame(entry, f) = [f EXCEPT !.children = old]
  BY <1>3, <1>4 DEF RevertFrame
<1>6. [f EXCEPT !.children = old] = Last(b.stack)
  BY <1>2 DEF ArrayFrame
<1>7. RevertFrame(entry, f) = Last(b.stack)
  BY <1>5, <1>6
<1>8. RevertStack(entry, WithTop(b.stack, f)) = b.stack
  BY <1>3, <1>7, RevertTop
<1>. QED BY <1>1, <1>8

LEMMA RevertEntries ==
    ASSUME NEW b, IsSeq(b.stack), b.stack # <<>>, ObjectFrame(Last(b.stack)), NEW entry, NEW f,
           f = [kind |-> "Object", phase |-> Last(b.stack).phase, entries |-> Append(Last(b.stack).entries, entry)]
    PROVE  RevertStack(TruncateEntries(b), WithTop(b.stack, f)) = b.stack
<1>1. PICK undo : undo = TruncateEntries(b)
  OBVIOUS
<1>2. PICK old : old = Last(b.stack).entries
  OBVIOUS
<1>3. undo.depth = Len(b.stack) /\ undo.op = "TruncateEntries" /\ undo.old_len = Len(old)
  BY <1>1, <1>2 DEF TruncateEntries
<1>4. SubSeq(f.entries, 1, Len(old)) = old
  BY <1>2, AppendIsSeq DEF ObjectFrame
<1>5. RevertFrame(undo, f) = [f EXCEPT !.entries = old]
  BY <1>3, <1>4 DEF RevertFrame
<1>6. [f EXCEPT !.entries = old] = Last(b.stack)
  BY <1>2 DEF ObjectFrame
<1>7. RevertFrame(undo, f) = Last(b.stack)
  BY <1>5, <1>6
<1>8. RevertStack(undo, WithTop(b.stack, f)) = b.stack
  BY <1>3, <1>7, RevertTop
<1>. QED BY <1>1, <1>8

----------------------------------------------------------------------------
(* The builder's operations.                                               *)

(* complete_value on a popped builder: its error returns are never taken.   *)
LEMMA CompleteStep ==
    ASSUME NEW a, Shaped(a), IsSeq(a.journal), StackOK(a.stack), a.root = <<>>,
           a.stack # <<>> => ForValue(Last(a.stack)),
           NEW value, NEW c, c = CompleteValue(a, value)
    PROVE  /\ BuilderOK(c) /\ Leads(a, c) /\ c.out = a.out
           /\ c.root = <<>> => c.stack # <<>> /\ (ArrayFrame(Last(c.stack)) \/ ForKey(Last(c.stack)))
<1>1. CASE a.stack = <<>>
  <2>1. PICK d : d = Record(a, [op |-> "RestoreRoot"])
    OBVIOUS
  <2>2. /\ Shaped(d) /\ d.stack = a.stack /\ d.root = a.root /\ d.out = a.out
        /\ d.journal = Append(a.journal, [op |-> "RestoreRoot"])
    BY <2>1, RecordIs
  <2>3. c = [d EXCEPT !.root = <<value>>]
    BY <1>1, <2>1 DEF CompleteValue
  <2>4. /\ Shaped(c) /\ c.stack = <<>> /\ c.root = <<value>> /\ c.out = a.out
        /\ c.journal = Append(a.journal, [op |-> "RestoreRoot"])
    BY <1>1, <2>2, <2>3 DEF Shaped
  <2>5. IsSeq(c.journal) /\ c.root # <<>> /\ StackOK(c.stack)
    BY <2>4, AppendIsSeq DEF StackOK
  <2>6. RevertStack([op |-> "RestoreRoot"], c.stack) = a.stack
    BY <1>1, <2>4 DEF RevertStack
  <2>7. Leads(a, c)
    BY <2>4, <2>6, LeadsOne
  <2>. QED BY <2>4, <2>5, <2>7 DEF BuilderOK
<1>2. CASE a.stack # <<>> /\ ArrayFrame(Last(a.stack))
  <2>1. PICK top : top = Last(a.stack)
    OBVIOUS
  <2>2. PICK f : f = [kind |-> "Array", children |-> Append(top.children, value)]
    OBVIOUS
  <2>3. top.kind = "Array" /\ [top EXCEPT !.children = Append(top.children, value)] = f
    BY <1>2, <2>1, <2>2 DEF ArrayFrame
  <2>4. c = ReplaceTop(a, TruncateChildren(a), f)
    BY <1>2, <2>1, <2>3 DEF CompleteValue
  <2>5. ArrayFrame(f)
    BY <1>2, <2>1, <2>2, AppendIsSeq DEF ArrayFrame
  <2>6. FrameOK(f) /\ ~KeyString(f) /\ ~KeyString(Last(a.stack))
    BY <1>2, <2>5 DEF FrameOK, ArrayFrame, KeyString, StrFrame
  <2>7. IsSeq(a.stack) /\ BuilderOK(a)
    BY <1>2 DEF StackOK, BuilderOK
  <2>8. RevertStack(TruncateChildren(a), WithTop(a.stack, f)) = a.stack
    BY <1>2, <2>1, <2>2, <2>7, RevertChildren
  <2>9. BuilderOK(c) /\ Leads(a, c) /\ c.stack # <<>> /\ Last(c.stack) = f /\ c.root = a.root /\ c.out = a.out
    BY <1>2, <2>4, <2>6, <2>7, <2>8, ReplaceStep
  <2>. QED BY <2>5, <2>9
<1>3. CASE a.stack # <<>> /\ ObjectFrame(Last(a.stack)) /\ Last(a.stack).phase.at = "Value"
  <2>1. PICK top : top = Last(a.stack)
    OBVIOUS
  <2>2. PICK entry : entry = <<top.phase.key, value>>
    OBVIOUS
  <2>3. PICK f : f = [kind |-> "Object", phase |-> KeyOrClose, entries |-> Append(top.entries, entry)]
    OBVIOUS
  <2>4. PICK g : g = [kind |-> "Object", phase |-> top.phase, entries |-> Append(top.entries, entry)]
    OBVIOUS
  <2>5. top.kind = "Object" /\ top.phase.at = "Value"
    BY <1>3, <2>1 DEF ObjectFrame
  <2>6. PICK d : d = Record(a, TruncateEntries(a))
    OBVIOUS
  <2>7. c = ReplaceTop(d, RestoreObjectPhase(a), f)
    BY <1>3, <2>1, <2>2, <2>3, <2>5, <2>6 DEF CompleteValue, AddEntry
  <2>8. /\ Shaped(d) /\ d.stack = a.stack /\ d.root = a.root /\ d.out = a.out
        /\ d.journal = Append(a.journal, TruncateEntries(a))
    BY <2>6, RecordIs
  <2>9. /\ Shaped(c) /\ c.stack = WithTop(a.stack, f) /\ c.root = a.root /\ c.out = a.out
        /\ c.journal = Append(d.journal, RestoreObjectPhase(a))
    BY <2>7, <2>8, ReplaceTopIs
  <2>10. ObjectFrame(f) /\ ObjectFrame(g) /\ ForKey(f)
    <3>1. IsSeq(Append(top.entries, entry))
      BY <1>3, <2>1, AppendIsSeq DEF ObjectFrame
    <3>. QED BY <2>3, <2>4, <2>5, <3>1 DEF ObjectFrame, ForKey, KeyOrClose
  <2>11. FrameOK(f) /\ ~KeyString(f) /\ FrameOK(g) /\ ~KeyString(g) /\ ~KeyString(Last(a.stack))
    BY <1>3, <2>10 DEF FrameOK, ObjectFrame, KeyString, StrFrame
  <2>12. IsSeq(a.stack)
    BY <1>3 DEF StackOK
  <2>13. PICK s : s = WithTop(a.stack, g)
    OBVIOUS
  <2>14. IsSeq(s) /\ s # <<>> /\ Len(s) = Len(a.stack) /\ Last(s) = g /\ WithTop(s, f) = WithTop(a.stack, f)
    BY <1>3, <2>12, <2>13, ReplaceIsSeq
  <2>15. RevertStack(TruncateEntries(a), s) = a.stack
    BY <1>3, <2>1, <2>4, <2>12, <2>13, RevertEntries
  <2>16. RevertStack(RestoreObjectPhase(a), c.stack) = s
    <3>1. PICK list : list = Append(top.entries, entry)
      OBVIOUS
    <3>2. PICK phase : phase = KeyOrClose
      OBVIOUS
    <3>3. /\ f = [kind |-> "Object", phase |-> phase, entries |-> list]
          /\ g = [kind |-> "Object", phase |-> top.phase, entries |-> list]
      BY <2>3, <2>4, <3>1, <3>2, Zenon
    <3>4. f = [g EXCEPT !.phase = phase] /\ g.phase = top.phase
      BY <3>3
    <3>. QED BY <2>1, <2>9, <2>10, <2>14, <3>4, RevertPhase
  <2>17. PICK e : e = [stack |-> s, journal |-> d.journal]
    OBVIOUS
  <2>18. e.stack = s /\ e.journal = Append(a.journal, TruncateEntries(a)) /\ e.journal = d.journal
    BY <2>8, <2>17
  <2>19. IsSeq(d.journal) /\ IsSeq(c.journal)
    BY <2>8, <2>9, AppendIsSeq
  <2>20. Leads(a, e)
    BY <2>15, <2>18, LeadsOne
  <2>21. Leads(e, c)
    BY <2>9, <2>16, <2>18, <2>19, LeadsOne
  <2>22. Leads(a, c)
    BY <2>20, <2>21, LeadsTrans
  <2>23. StackOK(c.stack) /\ c.stack # <<>> /\ Last(c.stack) = f
    BY <1>3, <2>9, <2>11, StackReplace
  <2>24. BuilderOK(c)
    BY <2>9, <2>19, <2>23 DEF BuilderOK
  <2>. QED BY <2>9, <2>10, <2>22, <2>23, <2>24
<1>. QED BY <1>1, <1>2, <1>3 DEF ForValue

(* attach_key on a popped builder, likewise.                                *)
LEMMA AttachStep ==
    ASSUME NEW a, Shaped(a), IsSeq(a.journal), StackOK(a.stack), a.root = <<>>, a.stack # <<>>,
           ForKey(Last(a.stack)), NEW key, NEW c, c = AttachKey(a, key)
    PROVE  BuilderOK(c) /\ Leads(a, c) /\ c.out = a.out
<1>1. PICK top : top = Last(a.stack)
  OBVIOUS
<1>2. PICK phase : phase = [at |-> "Colon", key |-> key]
  OBVIOUS
<1>3. PICK f : f = [top EXCEPT !.phase = phase]
  OBVIOUS
<1>4. ObjectFrame(top) /\ top.kind = "Object"
  BY <1>1 DEF ForKey, ObjectFrame
<1>5. c = ReplaceTop(a, RestoreObjectPhase(a), f)
  BY <1>1, <1>2, <1>3, <1>4 DEF AttachKey, InPhase
<1>6. phase.at = "Colon"
  BY <1>2
<1>7. ObjectFrame(f)
  BY <1>3, <1>4, <1>6 DEF ObjectFrame
<1>8. FrameOK(f) /\ ~KeyString(f) /\ ~KeyString(Last(a.stack))
  BY <1>1, <1>4, <1>7 DEF FrameOK, ObjectFrame, KeyString, StrFrame
<1>9. IsSeq(a.stack) /\ BuilderOK(a)
  BY DEF StackOK, BuilderOK
<1>10. RevertStack(RestoreObjectPhase(a), WithTop(a.stack, f)) = a.stack
  BY <1>1, <1>3, <1>4, <1>9, RevertPhase
<1>. QED BY <1>5, <1>8, <1>9, <1>10, ReplaceStep

(* The builder after a turn of push_byte's loop that began with b.          *)
Stepped(b, c) ==
    /\ BuilderOK(c)
    /\ Leads(b, c)
    /\ c.out \in {"run", "ok", "err"}
    /\ c.out = "run" => c.root = <<>>

LEMMA DoneStep ==
    ASSUME NEW b, NEW d, BuilderOK(d), Leads(b, d), d.out = "run", NEW c, c = Done(d)
    PROVE  Stepped(b, c) /\ c.out = "ok"
<1>1. Shaped(d) /\ IsSeq(d.journal)
  BY DEF BuilderOK
<1>2. Shaped(c) /\ c.stack = d.stack /\ c.root = d.root /\ c.journal = d.journal /\ c.out = "ok"
  BY <1>1, DoneIs
<1>3. Leads(d, c)
  BY <1>1, <1>2, LeadsSame
<1>4. Leads(b, c)
  BY <1>3, LeadsTrans
<1>5. BuilderOK(c)
  BY <1>2 DEF BuilderOK
<1>. QED BY <1>2, <1>4, <1>5 DEF Stepped

LEMMA ErrStep ==
    ASSUME NEW b, BuilderOK(b), NEW c, c = [b EXCEPT !.out = "err"]
    PROVE  Stepped(b, c) /\ c.out = "err"
<1>1. Shaped(b) /\ IsSeq(b.journal)
  BY DEF BuilderOK
<1>2. Shaped(c) /\ c.stack = b.stack /\ c.root = b.root /\ c.journal = b.journal /\ c.out = "err"
  BY <1>1, OutIs
<1>3. Leads(b, c)
  BY <1>1, <1>2, LeadsSame
<1>4. BuilderOK(c)
  BY <1>2 DEF BuilderOK
<1>. QED BY <1>2, <1>3, <1>4 DEF Stepped

(* Whatever frame a turn may leave on top of a container or a finished item. *)
LEMMA ClosedStep ==
    ASSUME NEW b, BuilderOK(b), b.stack # <<>>, b.root = <<>>, ~KeyString(Last(b.stack)),
           NEW value, NEW d, d = CompleteValue(PopTop(b), value)
    PROVE  /\ BuilderOK(d) /\ Leads(b, d) /\ d.out = b.out
           /\ d.root = <<>> => d.stack # <<>> /\ (ArrayFrame(Last(d.stack)) \/ ForKey(Last(d.stack)))
<1>1. PICK a : a = PopTop(b)
  OBVIOUS
<1>2. /\ Shaped(a) /\ IsSeq(a.journal) /\ StackOK(a.stack) /\ Leads(b, a)
      /\ a.root = <<>> /\ a.out = b.out /\ a.stack = Front(b.stack)
  BY <1>1, PopStep
<1>3. a.stack # <<>> => ForValue(Last(a.stack))
  BY <1>2, StackPop DEF BuilderOK
<1>4. /\ BuilderOK(d) /\ Leads(a, d) /\ d.out = b.out
      /\ d.root = <<>> => d.stack # <<>> /\ (ArrayFrame(Last(d.stack)) \/ ForKey(Last(d.stack)))
  BY <1>1, <1>2, <1>3, CompleteStep
<1>5. Leads(b, d)
  BY <1>2, <1>4, LeadsTrans
<1>. QED BY <1>4, <1>5

LEMMA ScalarStep ==
    ASSUME NEW b, BuilderOK(b), b.stack # <<>>, b.root = <<>>, b.out = "run", NEW byte,
           NEW frame, frame = Last(b.stack), ScalarFrame(frame), NEW next,
           NEW c, c = BuildScalarNext(b, frame, byte, next)
    PROVE  /\ Stepped(b, c)
           /\ c.out = "run" => next = "Done" /\ c.stack # <<>> /\ (ArrayFrame(Last(c.stack)) \/ ForKey(Last(c.stack)))
<1>1. ~KeyString(frame)
  BY DEF ScalarFrame, KeyString, StrFrame
<1>2. IsSeq(b.stack)
  BY DEF BuilderOK, StackOK
<1>3. ASSUME NEW f, FrameOK(f), ~KeyString(f), c = Done(ReplaceTop(b, RestoreScalar(b), f))
      PROVE  Stepped(b, c) /\ c.out = "ok"
  <2>1. PICK d : d = ReplaceTop(b, RestoreScalar(b), f)
    OBVIOUS
  <2>2. RevertStack(RestoreScalar(b), WithTop(b.stack, f)) = b.stack
    BY <1>2, RevertScalar
  <2>3. BuilderOK(d) /\ Leads(b, d) /\ d.out = "run"
    BY <1>1, <1>3, <2>1, <2>2, ReplaceStep
  <2>. QED BY <1>3, <2>1, <2>3, DoneStep
<1>4. CASE next = "StartString"
  <2>1. FrameOK(StringStart(FALSE)) /\ ~KeyString(StringStart(FALSE))
    BY DEF FrameOK, StringStart, StrFrame, KeyString
  <2>2. c = Done(ReplaceTop(b, RestoreScalar(b), StringStart(FALSE)))
    BY <1>4 DEF BuildScalarNext
  <2>. QED BY <1>3, <2>1, <2>2
<1>5. CASE next = "StartArray"
  <2>1. PICK f : f = [kind |-> "Array", children |-> <<>>]
    OBVIOUS
  <2>2. FrameOK(f) /\ ~KeyString(f)
    BY <2>1, EmptyIsSeq DEF FrameOK, ArrayFrame, StrFrame, KeyString
  <2>3. c = Done(ReplaceTop(b, RestoreScalar(b), f))
    BY <1>5, <2>1 DEF BuildScalarNext
  <2>. QED BY <1>3, <2>2, <2>3
<1>6. CASE next = "StartObject"
  <2>1. PICK f : f = [kind |-> "Object", phase |-> KeyOrClose, entries |-> <<>>]
    OBVIOUS
  <2>2. FrameOK(f) /\ ~KeyString(f)
    BY <2>1, EmptyIsSeq DEF FrameOK, ObjectFrame, StrFrame, KeyString, KeyOrClose
  <2>3. c = Done(ReplaceTop(b, RestoreScalar(b), f))
    BY <1>6, <2>1 DEF BuildScalarNext
  <2>. QED BY <1>3, <2>2, <2>3
<1>7. CASE next = "Invalid"
  <2>1. c = [b EXCEPT !.out = "err"]
    BY <1>7 DEF BuildScalarNext
  <2>. QED BY <2>1, ErrStep
<1>8. CASE next = "Done"
  <2>1. PICK d : d = CompleteValue(PopTop(b), ScalarValue(frame))
    OBVIOUS
  <2>2. /\ BuilderOK(d) /\ Leads(b, d) /\ d.out = "run"
        /\ d.root = <<>> => d.stack # <<>> /\ (ArrayFrame(Last(d.stack)) \/ ForKey(Last(d.stack)))
    BY <1>1, <2>1, ClosedStep
  <2>3. c = IF d.root # <<>> THEN Done(d) ELSE d
    BY <1>8, <2>1 DEF BuildScalarNext, BuildScalarClosed
  <2>4. CASE d.root # <<>>
    BY <2>2, <2>3, <2>4, DoneStep
  <2>5. CASE d.root = <<>>
    BY <1>8, <2>2, <2>3, <2>5 DEF Stepped
  <2>. QED BY <2>4, <2>5
<1>9. CASE next \notin {"StartString", "StartArray", "StartObject", "Invalid", "Done"}
  <2>1. PICK text : text = IF next \in NumberPhases THEN Append(frame.text, byte)
                           ELSE IF next = "LiteralDone" THEN <<frame.phase>> ELSE frame.text
    OBVIOUS
  <2>2. PICK f : f = [kind |-> "Scalar", phase |-> next, text |-> text]
    OBVIOUS
  <2>3. FrameOK(f) /\ ~KeyString(f)
    BY <2>2 DEF FrameOK, ScalarFrame, StrFrame, KeyString
  <2>4. c = Done(ReplaceTop(b, RestoreScalar(b), f))
    BY <1>9, <2>1, <2>2 DEF BuildScalarNext
  <2>. QED BY <1>3, <2>3, <2>4
<1>. QED BY <1>4, <1>5, <1>6, <1>7, <1>8, <1>9

LEMMA StringStep ==
    ASSUME NEW b, BuilderOK(b), b.stack # <<>>, b.root = <<>>, b.out = "run", NEW byte,
           NEW frame, frame = Last(b.stack), StrFrame(frame), NEW c, c = BuildString(b, frame, byte)
    PROVE  Stepped(b, c) /\ c.out # "run"
<1>1. CASE byte = "\"" /\ frame.decoder = "None" /\ frame.as_key
  <2>1. PICK a : a = PopTop(b)
    OBVIOUS
  <2>2. /\ Shaped(a) /\ IsSeq(a.journal) /\ StackOK(a.stack) /\ Leads(b, a)
        /\ a.root = <<>> /\ a.out = "run" /\ a.stack = Front(b.stack)
    BY <2>1, PopStep
  <2>3. KeyString(Last(b.stack))
    BY <1>1 DEF KeyString
  <2>4. a.stack # <<>> /\ ForKey(Last(a.stack))
    BY <2>2, <2>3, StackPop DEF BuilderOK
  <2>5. PICK d : d = AttachKey(a, frame.text)
    OBVIOUS
  <2>6. BuilderOK(d) /\ Leads(a, d) /\ d.out = "run"
    BY <2>2, <2>4, <2>5, AttachStep
  <2>7. Leads(b, d)
    BY <2>2, <2>6, LeadsTrans
  <2>8. c = Done(d)
    BY <1>1, <2>1, <2>5 DEF BuildString
  <2>9. Stepped(b, c) /\ c.out = "ok"
    BY <2>6, <2>7, <2>8, DoneStep
  <2>. QED BY <2>9
<1>2. CASE byte = "\"" /\ frame.decoder = "None" /\ ~frame.as_key
  <2>1. ~KeyString(Last(b.stack))
    BY <1>2 DEF KeyString
  <2>2. PICK d : d = CompleteValue(PopTop(b), <<"String", frame.text>>)
    OBVIOUS
  <2>3. BuilderOK(d) /\ Leads(b, d) /\ d.out = "run"
    BY <2>1, <2>2, ClosedStep
  <2>4. c = Done(d)
    BY <1>2, <2>2 DEF BuildString
  <2>5. Stepped(b, c) /\ c.out = "ok"
    BY <2>3, <2>4, DoneStep
  <2>. QED BY <2>5
<1>3. CASE ~(byte = "\"" /\ frame.decoder = "None")
  <2>1. PICK step : step = Decode(frame.decoder, byte)
    OBVIOUS
  <2>2. step.decoder \in {"None", "Started"}
    BY <2>1 DEF Decode, StrFrame
  <2>3. c = BuildStringStep(b, frame, step)
    BY <1>3, <2>1 DEF BuildString
  <2>4. CASE step.ok
    <3>1. PICK text : text = frame.text \o step.scalar
      OBVIOUS
    <3>2. PICK f : f = [kind |-> "Str", decoder |-> step.decoder, text |-> text, as_key |-> frame.as_key]
      OBVIOUS
    <3>3. StrFrame(f) /\ f.as_key = frame.as_key
      BY <2>2, <3>2 DEF StrFrame
    <3>4. FrameOK(f) /\ (KeyString(f) <=> KeyString(Last(b.stack)))
      BY <3>3 DEF FrameOK, KeyString
    <3>5. IsSeq(b.stack)
      BY DEF BuilderOK, StackOK
    <3>6. RevertStack(RestoreString(b), WithTop(b.stack, f)) = b.stack
      BY <3>3, <3>5, RevertString
    <3>7. PICK d : d = ReplaceTop(b, RestoreString(b), f)
      OBVIOUS
    <3>8. BuilderOK(d) /\ Leads(b, d) /\ d.out = "run"
      BY <3>4, <3>6, <3>7, ReplaceStep
    <3>9. c = Done(d)
      BY <2>3, <2>4, <3>1, <3>2, <3>7 DEF BuildStringStep
    <3>10. Stepped(b, c) /\ c.out = "ok"
      BY <3>8, <3>9, DoneStep
    <3>. QED BY <3>10
  <2>5. CASE ~step.ok
    <3>1. c = [b EXCEPT !.out = "err"]
      BY <2>3, <2>5 DEF BuildStringStep
    <3>2. Stepped(b, c) /\ c.out = "err"
      BY <3>1, ErrStep
    <3>. QED BY <3>2
  <2>. QED BY <2>4, <2>5
<1>. QED BY <1>1, <1>2, <1>3

LEMMA ContainerStep ==
    ASSUME NEW b, BuilderOK(b), b.stack # <<>>, b.root = <<>>, b.out = "run", NEW byte,
           NEW frame, frame = Last(b.stack), ArrayFrame(frame) \/ ObjectFrame(frame),
           NEW c, c = BuildContainer(b, frame, byte)
    PROVE  Stepped(b, c) /\ (c.out = "run" => c.stack # <<>> /\ Last(c.stack) = ValueStart)
<1>1. ~KeyString(frame)
  BY DEF ArrayFrame, ObjectFrame, KeyString, StrFrame
<1>2. FrameOK(ValueStart) /\ ~KeyString(ValueStart) /\ FrameOK(StringStart(TRUE)) /\ KeyString(StringStart(TRUE))
  BY DEF ValueStart, StringStart, FrameOK, ScalarFrame, StrFrame, KeyString
<1>3. ASSUME c = Done(b) PROVE Stepped(b, c) /\ c.out = "ok"
  <2>1. Leads(b, b)
    BY LeadsSame DEF BuilderOK
  <2>. QED BY <1>3, <2>1, DoneStep
<1>4. ASSUME NEW value, c = Done(CompleteValue(PopTop(b), value)) PROVE Stepped(b, c) /\ c.out = "ok"
  <2>1. PICK d : d = CompleteValue(PopTop(b), value)
    OBVIOUS
  <2>2. BuilderOK(d) /\ Leads(b, d) /\ d.out = "run"
    BY <1>1, <2>1, ClosedStep
  <2>. QED BY <1>4, <2>1, <2>2, DoneStep
<1>5. ASSUME c = PushTop(b, ValueStart), ForValue(frame)
      PROVE  Stepped(b, c) /\ c.stack # <<>> /\ Last(c.stack) = ValueStart
  <2>1. /\ BuilderOK(c) /\ Leads(b, c) /\ c.stack # <<>> /\ Last(c.stack) = ValueStart
        /\ c.root = b.root /\ c.out = b.out
    BY <1>2, <1>5, PushStep
  <2>. QED BY <2>1 DEF Stepped
<1>6. ASSUME c = [b EXCEPT !.out = "err"] PROVE Stepped(b, c) /\ c.out = "err"
  BY <1>6, ErrStep
<1>7. CASE ArrayFrame(frame)
  <2>1. frame.kind = "Array" /\ ForValue(frame)
    BY <1>7 DEF ArrayFrame, ForValue
  <2>2. \/ c = Done(b)
        \/ \E value : c = Done(CompleteValue(PopTop(b), value))
        \/ c = PushTop(b, ValueStart)
    BY <2>1 DEF BuildContainer
  <2>. QED BY <1>3, <1>4, <1>5, <2>1, <2>2
<1>8. CASE ObjectFrame(frame)
  <2>1. frame.kind = "Object" /\ frame.phase.at \in {"KeyOrClose", "Colon", "Value"}
    BY <1>8 DEF ObjectFrame
  <2>2. CASE frame.phase.at = "KeyOrClose"
    <3>1. \/ c = Done(b)
          \/ c = Done(PushTop(b, StringStart(TRUE)))
          \/ \E value : c = Done(CompleteValue(PopTop(b), value))
          \/ c = [b EXCEPT !.out = "err"]
      BY <2>1, <2>2 DEF BuildContainer
    <3>2. ASSUME c = Done(PushTop(b, StringStart(TRUE))) PROVE Stepped(b, c) /\ c.out = "ok"
      <4>1. PICK d : d = PushTop(b, StringStart(TRUE))
        OBVIOUS
      <4>2. ForKey(Last(b.stack))
        BY <1>8, <2>2 DEF ForKey
      <4>3. BuilderOK(d) /\ Leads(b, d) /\ d.out = "run"
        BY <1>2, <4>1, <4>2, PushStep
      <4>. QED BY <3>2, <4>1, <4>3, DoneStep
    <3>. QED BY <1>3, <1>4, <1>6, <3>1, <3>2
  <2>3. CASE frame.phase.at = "Colon"
    <3>1. PICK phase : phase = [at |-> "Value", key |-> frame.phase.key]
      OBVIOUS
    <3>2. PICK f : f = [frame EXCEPT !.phase = phase]
      OBVIOUS
    <3>3. \/ c = Done(b)
          \/ c = Done(ReplaceTop(b, RestoreObjectPhase(b), f))
          \/ c = [b EXCEPT !.out = "err"]
      <4>1. f = InPhase(frame, "Value", frame.phase.key)
        BY <3>1, <3>2 DEF InPhase
      <4>. QED BY <2>1, <2>3, <4>1 DEF BuildContainer
    <3>4. ASSUME c = Done(ReplaceTop(b, RestoreObjectPhase(b), f)) PROVE Stepped(b, c) /\ c.out = "ok"
      <4>1. phase.at = "Value"
        BY <3>1
      <4>2. ObjectFrame(f)
        BY <1>8, <3>2, <4>1 DEF ObjectFrame
      <4>3. FrameOK(f) /\ ~KeyString(f)
        BY <4>2 DEF FrameOK, ObjectFrame, KeyString, StrFrame
      <4>4. IsSeq(b.stack)
        BY DEF BuilderOK, StackOK
      <4>5. RevertStack(RestoreObjectPhase(b), WithTop(b.stack, f)) = b.stack
        BY <1>8, <3>2, <4>4, RevertPhase
      <4>6. PICK d : d = ReplaceTop(b, RestoreObjectPhase(b), f)
        OBVIOUS
      <4>7. BuilderOK(d) /\ Leads(b, d) /\ d.out = "run"
        BY <1>1, <4>3, <4>5, <4>6, ReplaceStep
      <4>. QED BY <3>4, <4>6, <4>7, DoneStep
    <3>. QED BY <1>3, <1>6, <3>3, <3>4
  <2>4. CASE frame.phase.at = "Value"
    <3>1. c = Done(b) \/ c = PushTop(b, ValueStart)
      BY <2>1, <2>4 DEF BuildContainer
    <3>2. ForValue(frame)
      BY <1>8, <2>4 DEF ForValue
    <3>. QED BY <1>3, <1>5, <3>1, <3>2
  <2>. QED BY <2>1, <2>2, <2>3, <2>4
<1>. QED BY <1>7, <1>8

----------------------------------------------------------------------------
(* No row of step_scalar leads to Done: a value does not end before it began. *)
LEMMA RowsContinue ==
    ASSUME NEW row \in Continue
    PROVE  row[3] # "Done"
<1>1. CASE row \in LiteralRows
  <2>1. PICK w \in Literals : row \in {SubSeq(w, i, i + 2) : i \in {j \in 1 .. Len(w) - 2 : j % 2 = 1}}
    BY <1>1, Zenon DEF LiteralRows
  <2>2. PICK i \in {j \in 1 .. Len(w) - 2 : j % 2 = 1} : row = SubSeq(w, i, i + 2)
    BY <2>1, Zenon
  <2>3. Len(w) \in Nat /\ \A k \in 1 .. Len(w) : w[k] # "Done"
    <3>1. CASE w = <<"BeforeValue", "n", "n", "u", "nu", "l", "nul", "l", "LiteralDone">>
      <4>1. Len(w) = 9
        BY <3>1
      <4>2. \A k \in 1 .. 9 : k = 1 \/ k = 2 \/ k = 3 \/ k = 4 \/ k = 5 \/ k = 6 \/ k = 7 \/ k = 8 \/ k = 9
        OBVIOUS
      <4>3. \A k \in 1 .. 9 : w[k] # "Done"
        BY <3>1, <4>2
      <4>. QED BY <4>1, <4>3
    <3>2. CASE w = <<"BeforeValue", "t", "t", "r", "tr", "u", "tru", "e", "LiteralDone">>
      <4>1. Len(w) = 9
        BY <3>2
      <4>2. \A k \in 1 .. 9 : k = 1 \/ k = 2 \/ k = 3 \/ k = 4 \/ k = 5 \/ k = 6 \/ k = 7 \/ k = 8 \/ k = 9
        OBVIOUS
      <4>3. \A k \in 1 .. 9 : w[k] # "Done"
        BY <3>2, <4>2
      <4>. QED BY <4>1, <4>3
    <3>3. CASE w = <<"BeforeValue", "f", "f", "a", "fa", "l", "fal", "s", "fals", "e", "LiteralDone">>
      <4>1. Len(w) = 11
        BY <3>3
      <4>2. \A k \in 1 .. 11 : k = 1 \/ k = 2 \/ k = 3 \/ k = 4 \/ k = 5 \/ k = 6 \/ k = 7 \/ k = 8 \/ k = 9 \/ k = 10 \/ k = 11
        OBVIOUS
      <4>3. \A k \in 1 .. 11 : w[k] # "Done"
        BY <3>3, <4>2
      <4>. QED BY <4>1, <4>3
    <3>. QED BY <3>1, <3>2, <3>3 DEF Literals
  <2>4. i \in Int /\ i + 2 \in Int /\ i + 2 \in 1 .. Len(w) /\ 3 \in 1 .. (i + 2) - i + 1 /\ i + 3 - 1 = i + 2
    BY <2>2, <2>3
  <2>5. row[3] = w[i + 2]
    <3>. DEFINE S == {w[k] : k \in i .. i + 2}
    <3>1. \A k \in i .. i + 2 : w[k] \in S
      OBVIOUS
    <3>2. \A k \in 1 .. (i + 2) - i + 1 : SubSeq(w, i, i + 2)[k] = w[i + k - 1]
      <4>. HIDE DEF S
      <4>. QED BY <2>4, <3>1, SubSeqProperties
    <3>. QED BY <2>2, <2>4, <3>2
  <2>. QED BY <2>3, <2>4, <2>5
<1>2. CASE row \in NumberRows
  <2>1. row[3] \in NumberPhases
    BY <1>2 DEF NumberRows, NumberPhases
  <2>. QED BY <2>1 DEF NumberPhases
<1>. QED BY <1>1, <1>2 DEF Continue

LEMMA ValueNotDone ==
    ASSUME NEW byte
    PROVE  StepScalar("BeforeValue", byte) # "Done"
<1>1. CASE <<"BeforeValue", byte>> \in DOMAIN ContinueFrom
  <2>1. PICK key : key = <<"BeforeValue", byte>>
    OBVIOUS
  <2>. DEFINE Rows == {row \in Continue : <<row[1], row[2]>> = key}
              chosen == CHOOSE row \in Continue : <<row[1], row[2]>> = key
  <2>2. key \in {<<row[1], row[2]>> : row \in Continue}
    BY <1>1, <2>1 DEF ContinueFrom, RowFunction
  <2>3. chosen \in Continue
    BY <2>2, Zenon
  <2>4. ContinueFrom[key] = chosen[3]
    BY <2>2 DEF ContinueFrom, RowFunction
  <2>5. StepScalar("BeforeValue", byte) = ContinueFrom[key]
    BY <1>1, <2>1 DEF StepScalar, StepRow
  <2>. QED BY <2>3, <2>4, <2>5, RowsContinue
<1>2. CASE <<"BeforeValue", byte>> \notin DOMAIN ContinueFrom
  BY <1>2 DEF StepScalar, StepRow, ScalarIsComplete
<1>. QED BY <1>1, <1>2

(* One turn of the loop.  A turn that leaves the byte to the next one either
   closed a number or literal above a container, or opened a value.        *)
LEMMA TurnStep ==
    ASSUME NEW b, BuilderOK(b), b.out = "run", b.root = <<>>, NEW byte, NEW c, c = BuildStep(b, byte)
    PROVE  /\ Stepped(b, c)
           /\ c.out = "run" =>
                /\ c.stack # <<>>
                /\ \/ ScalarFrame(Last(b.stack)) /\ Last(b.stack) # ValueStart
                        /\ (ArrayFrame(Last(c.stack)) \/ ForKey(Last(c.stack)))
                   \/ ~ScalarFrame(Last(b.stack)) /\ Last(c.stack) = ValueStart
<1>1. b.stack # <<>> /\ FrameOK(Last(b.stack))
  BY DEF BuilderOK, StackOK
<1>2. PICK frame : frame = Last(b.stack)
  OBVIOUS
<1>3. CASE ScalarFrame(frame)
  <2>1. frame.kind = "Scalar"
    BY <1>3 DEF ScalarFrame
  <2>2. PICK next : next = StepScalar(frame.phase, byte)
    OBVIOUS
  <2>3. c = BuildScalarNext(b, frame, byte, next)
    BY <1>2, <2>1, <2>2 DEF BuildStep, BuildScalar
  <2>4. /\ Stepped(b, c)
        /\ c.out = "run" => next = "Done" /\ c.stack # <<>> /\ (ArrayFrame(Last(c.stack)) \/ ForKey(Last(c.stack)))
    BY <1>1, <1>2, <1>3, <2>3, ScalarStep
  <2>5. next = "Done" => frame # ValueStart
    <3>1. frame = ValueStart => frame.phase = "BeforeValue"
      BY DEF ValueStart
    <3>2. StepScalar("BeforeValue", byte) # "Done"
      BY ValueNotDone
    <3>. QED BY <2>2, <3>1, <3>2
  <2>. QED BY <1>2, <1>3, <2>4, <2>5
<1>4. CASE StrFrame(frame)
  <2>1. frame.kind = "Str"
    BY <1>4 DEF StrFrame
  <2>2. c = BuildString(b, frame, byte)
    BY <1>2, <2>1 DEF BuildStep
  <2>. QED BY <1>1, <1>2, <1>4, <2>2, StringStep
<1>5. CASE ArrayFrame(frame) \/ ObjectFrame(frame)
  <2>1. frame.kind \in {"Array", "Object"} /\ ~ScalarFrame(frame)
    BY <1>5 DEF ArrayFrame, ObjectFrame, ScalarFrame
  <2>2. c = BuildContainer(b, frame, byte)
    BY <1>2, <2>1 DEF BuildStep
  <2>. QED BY <1>1, <1>2, <1>5, <2>1, <2>2, ContainerStep
<1>. QED BY <1>1, <1>2, <1>3, <1>4, <1>5 DEF FrameOK

LEMMA BuildByteIs ==
    ASSUME NEW b, NEW byte, NEW b1, b1 = BuildStep(b, byte), NEW b2, b2 = BuildStep(b1, byte),
           NEW b3, b3 = BuildStep(b2, byte)
    PROVE  BuildByte(b, byte) = b3
<1>. DEFINE Eq(g) == g = [turn \in 0 .. BuildTurns |-> IF turn = 0 THEN b ELSE BuildStep(g[turn - 1], byte)]
            after == CHOOSE g : Eq(g)
            h == [turn \in 0 .. BuildTurns |-> IF turn = 0 THEN b ELSE IF turn = 1 THEN b1 ELSE IF turn = 2 THEN b2 ELSE b3]
<1>1. BuildByte(b, byte) = after[BuildTurns]
  BY DEF BuildByte
<1>2. BuildTurns = 3 /\ \A turn \in 0 .. BuildTurns : turn = 0 \/ turn = 1 \/ turn = 2 \/ turn = 3
  BY DEF BuildTurns
<1>3. Eq(h)
  <2>1. h[0] = b /\ h[1] = b1 /\ h[2] = b2 /\ h[3] = b3 /\ h = [turn \in 0 .. BuildTurns |-> h[turn]]
    BY <1>2
  <2>. HIDE DEF h
  <2>2. \A turn \in 0 .. BuildTurns : h[turn] = IF turn = 0 THEN b ELSE BuildStep(h[turn - 1], byte)
    BY <1>2, <2>1
  <2>. QED BY <2>1, <2>2
<1>. HIDE DEF Eq
<1>4. Eq(after)
  BY <1>3, Zenon
<1>. HIDE DEF after
<1>5. \A turn \in 0 .. BuildTurns : after[turn] = IF turn = 0 THEN b ELSE BuildStep(after[turn - 1], byte)
  BY <1>4, Zenon DEF Eq
<1>6. after[0] = b /\ after[1] = BuildStep(after[0], byte)
  BY <1>2, <1>5
<1>7. after[2] = BuildStep(after[1], byte) /\ after[3] = BuildStep(after[2], byte)
  BY <1>2, <1>5
<1>. QED BY <1>1, <1>2, <1>6, <1>7

(* push_byte: its loop ends within three turns, and leads back to b.       *)
LEMMA ByteStep ==
    ASSUME NEW b, BuilderOK(b), b.out = "run", b.root = <<>>, NEW byte, NEW c, c = BuildByte(b, byte)
    PROVE  BuilderOK(c) /\ Leads(b, c) /\ c.out \in {"ok", "err"}
<1>1. PICK b1 : b1 = BuildStep(b, byte)
  OBVIOUS
<1>2. PICK b2 : b2 = BuildStep(b1, byte)
  OBVIOUS
<1>3. PICK b3 : b3 = BuildStep(b2, byte)
  OBVIOUS
<1>4. c = b3
  BY <1>1, <1>2, <1>3, BuildByteIs
<1>5. /\ Stepped(b, b1)
      /\ b1.out = "run" =>
            \/ ArrayFrame(Last(b1.stack)) \/ ForKey(Last(b1.stack))
            \/ Last(b1.stack) = ValueStart
  BY <1>1, TurnStep
<1>6. \A x : x.out # "run" => BuildStep(x, byte) = x
  BY DEF BuildStep
<1>7. CASE b1.out # "run"
  <2>1. b3 = b1
    BY <1>2, <1>3, <1>6, <1>7
  <2>. QED BY <1>4, <1>5, <1>7, <2>1 DEF Stepped
<1>8. CASE b1.out = "run"
  <2>1. BuilderOK(b1) /\ b1.root = <<>> /\ Leads(b, b1)
    BY <1>5, <1>8 DEF Stepped
  <2>2. /\ Stepped(b1, b2)
        /\ b2.out = "run" => Last(b2.stack) = ValueStart
    <3>1. /\ Stepped(b1, b2)
          /\ b2.out = "run" =>
                \/ ScalarFrame(Last(b1.stack)) /\ Last(b1.stack) # ValueStart
                \/ Last(b2.stack) = ValueStart
      BY <1>2, <1>8, <2>1, TurnStep
    <3>2. ~(ScalarFrame(Last(b1.stack)) /\ Last(b1.stack) # ValueStart)
      BY <1>5, <1>8 DEF ForKey, ArrayFrame, ObjectFrame, ScalarFrame
    <3>. QED BY <3>1, <3>2
  <2>3. Leads(b, b2)
    BY <2>1, <2>2, LeadsTrans DEF Stepped
  <2>4. CASE b2.out # "run"
    <3>1. b3 = b2
      BY <1>3, <1>6, <2>4
    <3>. QED BY <1>4, <2>2, <2>3, <2>4, <3>1 DEF Stepped
  <2>5. CASE b2.out = "run"
    <3>1. BuilderOK(b2) /\ b2.root = <<>> /\ ScalarFrame(Last(b2.stack)) /\ Last(b2.stack) = ValueStart
      BY <2>2, <2>5 DEF Stepped, ScalarFrame, ValueStart
    <3>2. Stepped(b2, b3) /\ b3.out # "run"
      BY <1>3, <2>5, <3>1, TurnStep
    <3>3. Leads(b, b3)
      BY <2>3, <3>2, LeadsTrans DEF Stepped
    <3>. QED BY <1>4, <3>2, <3>3 DEF Stepped
  <2>. QED BY <2>4, <2>5
<1>. QED BY <1>7, <1>8

(* feed_item: a byte either is built, and its journal leads back, or leaves
   the builder as it was.                                                  *)
LEMMA FeedStep ==
    ASSUME NEW b, BuilderOK(b), b.out = "ok", NEW byte, NEW c, c = FeedItem(b, byte)
    PROVE  \/ c.out = "ok" /\ BuilderOK(c) /\ Leads(b, c)
           \/ c.out = "err" /\ c = [b EXCEPT !.out = "err"]
<1>1. Shaped(b) /\ IsSeq(b.journal)
  BY DEF BuilderOK
<1>2. PICK a : a = [b EXCEPT !.out = "run"]
  OBVIOUS
<1>3. PICK fed : fed = BuildByte(a, byte)
  OBVIOUS
<1>4. c = FeedItemFed(b, byte, fed)
  BY <1>2, <1>3 DEF FeedItem
<1>5. CASE b.root # <<>>
  <2>1. c = [b EXCEPT !.out = IF byte \in WS THEN "ok" ELSE "err"]
    BY <1>4, <1>5 DEF FeedItemFed
  <2>2. CASE byte \in WS
    <3>1. c = [b EXCEPT !.out = "ok"]
      BY <2>1, <2>2
    <3>2. c = b
      BY <1>1, <3>1 DEF Shaped
    <3>3. Leads(b, b)
      BY <1>1, LeadsSame
    <3>. QED BY <3>2, <3>3
  <2>3. CASE byte \notin WS
    <3>1. c = [b EXCEPT !.out = "err"]
      BY <2>1, <2>3
    <3>. QED BY <1>1, <3>1, OutIs
  <2>. QED BY <2>2, <2>3
<1>6. CASE b.root = <<>>
  <2>1. Shaped(a) /\ a.stack = b.stack /\ a.root = b.root /\ a.journal = b.journal /\ a.out = "run"
    BY <1>1, <1>2, OutIs
  <2>2. BuilderOK(a)
    BY <2>1 DEF BuilderOK
  <2>3. BuilderOK(fed) /\ Leads(a, fed) /\ fed.out \in {"ok", "err"}
    BY <1>3, <1>6, <2>1, <2>2, ByteStep
  <2>4. Leads(b, a)
    BY <1>1, <2>1, LeadsSame
  <2>5. Leads(b, fed)
    BY <2>3, <2>4, LeadsTrans
  <2>6. CASE fed.out = "ok"
    <3>1. c = fed
      BY <1>4, <1>6, <2>6 DEF FeedItemFed
    <3>. QED BY <2>3, <2>5, <2>6, <3>1
  <2>7. CASE fed.out # "ok"
    <3>1. RestoreBuilder(fed, BuilderMark(b)) = [b EXCEPT !.out = "ok"]
      BY <2>5, RestoreGoesBack
    <3>2. c = [[b EXCEPT !.out = "ok"] EXCEPT !.out = "err"]
      BY <1>4, <1>6, <2>7, <3>1 DEF FeedItemFed
    <3>3. PICK s, r, j : b = [stack |-> s, root |-> r, journal |-> j, out |-> "ok"]
      BY <1>1 DEF Shaped
    <3>4. c = [b EXCEPT !.out = "err"] /\ c.out = "err"
      BY <3>2, <3>3
    <3>. QED BY <3>4
  <2>. QED BY <2>6, <2>7
<1>. QED BY <1>5, <1>6

LEMMA FinishStep ==
    ASSUME NEW b, BuilderOK(b), CanFinish(b), NEW c, c = FinishBuilder(b)
    PROVE  BuilderOK(c) /\ Leads(b, c) /\ c.out = b.out
<1>1. CASE b.root # <<>>
  <2>1. c = b
    BY <1>1 DEF FinishBuilder
  <2>2. Leads(b, b)
    BY LeadsSame DEF BuilderOK
  <2>. QED BY <2>1, <2>2
<1>2. CASE b.root = <<>>
  <2>1. b.stack # <<>> /\ Len(b.stack) = 1 /\ b.stack[1].kind = "Scalar"
    BY <1>2 DEF BuilderOK, CanFinish
  <2>2. Last(b.stack) = b.stack[1]
    BY <2>1 DEF Last
  <2>3. ~KeyString(Last(b.stack))
    BY <2>1, <2>2 DEF KeyString, StrFrame
  <2>4. c = CompleteValue(PopTop(b), ScalarValue(b.stack[1]))
    BY <1>2 DEF FinishBuilder
  <2>. QED BY <1>2, <2>1, <2>3, <2>4, ClosedStep
<1>. QED BY <1>1, <1>2

----------------------------------------------------------------------------
(* The builder of one item in the life of its array: bytes fed, the item
   finished, and history committed.                                        *)

BuilderStep(b, c) ==
    /\ c.out = "ok"
    /\ (\E byte : c = FeedItem(b, byte)) \/ (CanFinish(b) /\ c = FinishBuilder(b))

BuilderRun(r, n) ==
    /\ r[0] = NewBuilder
    /\ \A i \in 1 .. n : BuilderStep(r[i - 1], r[i]) \/ r[i] = CommitHistory(r[i - 1])

LEMMA NewBuilderOK == BuilderOK(NewBuilder) /\ NewBuilder.out = "ok"
<1>1. PICK s : s = <<ValueStart>>
  OBVIOUS
<1>2. PICK b : b = NewBuilder
  OBVIOUS
<1>3. b = [stack |-> s, root |-> <<>>, journal |-> <<>>, out |-> "ok"]
  BY <1>1, <1>2 DEF NewBuilder
<1>4. Shaped(b) /\ b.stack = s /\ b.root = <<>> /\ b.journal = <<>> /\ b.out = "ok"
  BY <1>3 DEF Shaped
<1>5. s \in Seq({ValueStart}) /\ Len(s) = 1 /\ s # <<>> /\ s[1] = ValueStart
  BY <1>1
<1>6. IsSeq(s) /\ Last(s) = ValueStart
  BY <1>5 DEF IsSeq, Last
<1>7. FrameOK(ValueStart) /\ ~KeyString(ValueStart)
  BY DEF ValueStart, FrameOK, ScalarFrame, KeyString, StrFrame
<1>8. StackOK(s)
  BY <1>5, <1>6, <1>7 DEF StackOK
<1>. QED BY <1>2, <1>4, <1>5, <1>8, EmptyIsSeq DEF BuilderOK

LEMMA StepKeeps ==
    ASSUME NEW b, BuilderOK(b), b.out = "ok", NEW c, BuilderStep(b, c)
    PROVE  BuilderOK(c) /\ Leads(b, c) /\ c.out = "ok"
<1>1. ASSUME NEW byte, c = FeedItem(b, byte) PROVE BuilderOK(c) /\ Leads(b, c)
  BY <1>1, FeedStep DEF BuilderStep
<1>2. ASSUME CanFinish(b), c = FinishBuilder(b) PROVE BuilderOK(c) /\ Leads(b, c)
  BY <1>2, FinishStep
<1>. QED BY <1>1, <1>2 DEF BuilderStep

LEMMA CommitKeeps ==
    ASSUME NEW b, BuilderOK(b), NEW c, c = CommitHistory(b)
    PROVE  BuilderOK(c) /\ c.out = b.out
<1>1. Shaped(c) /\ c.stack = b.stack /\ c.root = b.root /\ c.journal = <<>> /\ c.out = b.out
  BY DEF CommitHistory, BuilderOK, Shaped
<1>. QED BY <1>1, EmptyIsSeq DEF BuilderOK

LEMMA RunKeeps ==
    ASSUME NEW n \in Nat, NEW r, BuilderRun(r, n)
    PROVE  \A i \in 0 .. n : BuilderOK(r[i]) /\ r[i].out = "ok"
<1>. DEFINE S == {i \in 0 .. n : BuilderOK(r[i]) /\ r[i].out = "ok"}
<1>1. 0 \in S
  BY NewBuilderOK DEF BuilderRun
<1>2. ASSUME NEW i \in 1 .. n, i - 1 \in S PROVE i \in S
  <2>1. BuilderOK(r[i - 1]) /\ r[i - 1].out = "ok" /\ i \in 0 .. n
    BY <1>2
  <2>2. BuilderStep(r[i - 1], r[i]) \/ r[i] = CommitHistory(r[i - 1])
    BY DEF BuilderRun
  <2>3. BuilderOK(r[i]) /\ r[i].out = "ok"
    BY <2>1, <2>2, StepKeeps, CommitKeeps
  <2>. QED BY <2>1, <2>3
<1>3. 0 .. n \subseteq S
  <2>. HIDE DEF S
  <2>. QED BY <1>1, <1>2, SetInduction
<1>. QED BY <1>3

(* restore of the builder (CanonicalBuild entries of the session's journal)
   gives back exactly the builder its mark was taken of, whatever bytes were
   fed and finishes done since, as long as history was not committed in
   between: stack, partial containers, completed value and journal.        *)
THEOREM BuilderUndo ==
    ASSUME NEW n \in Nat, NEW r, BuilderRun(r, n), NEW j \in 0 .. n, NEW k \in j .. n,
           \A i \in j + 1 .. k : BuilderStep(r[i - 1], r[i])
    PROVE  RestoreBuilder(r[k], BuilderMark(r[j])) = r[j]
<1>1. \A i \in 0 .. n : BuilderOK(r[i]) /\ r[i].out = "ok"
  BY RunKeeps
<1>. DEFINE S == {i \in 0 .. k - j : Leads(r[j], r[j + i])}
<1>2. 0 \in S
  <2>1. Leads(r[j], r[j]) /\ j + 0 = j /\ 0 \in 0 .. k - j
    BY <1>1, LeadsSame DEF BuilderOK
  <2>. QED BY <2>1
<1>3. ASSUME NEW i \in 1 .. k - j, i - 1 \in S PROVE i \in S
  <2>1. /\ Leads(r[j], r[(j + i) - 1]) /\ j + i \in j + 1 .. k /\ (j + i) - 1 \in 0 .. n
        /\ i \in 0 .. k - j
    <3>1. j + (i - 1) = (j + i) - 1
      OBVIOUS
    <3>. QED BY <1>3, <3>1
  <2>2. Leads(r[(j + i) - 1], r[j + i])
    BY <1>1, <2>1, StepKeeps
  <2>3. Leads(r[j], r[j + i])
    BY <2>1, <2>2, LeadsTrans
  <2>. QED BY <2>1, <2>3
<1>4. 0 .. k - j \subseteq S
  <2>1. k - j \in Nat
    OBVIOUS
  <2>. HIDE DEF S
  <2>. QED BY <1>2, <1>3, <2>1, SetInduction
<1>5. Leads(r[j], r[k])
  <2>1. k - j \in S /\ j + (k - j) = k
    BY <1>4
  <2>. QED BY <2>1
<1>6. RestoreBuilder(r[k], BuilderMark(r[j])) = [r[j] EXCEPT !.out = "ok"]
  BY <1>1, <1>5, RestoreGoesBack
<1>7. [r[j] EXCEPT !.out = "ok"] = r[j]
  BY <1>1 DEF BuilderOK, Shaped
<1>. QED BY <1>6, <1>7

(* push_byte's loop ends within three turns on every byte, and a byte that it
   cannot build leaves the builder exactly as it was, journal included.     *)
THEOREM PushByteEnds ==
    ASSUME NEW n \in Nat, NEW r, BuilderRun(r, n), NEW byte
    PROVE  /\ r[n].root = <<>> => BuildByte([r[n] EXCEPT !.out = "run"], byte).out \in {"ok", "err"}
           /\ FeedItem(r[n], byte).out # "ok" => FeedItem(r[n], byte) = [r[n] EXCEPT !.out = "err"]
<1>1. PICK b : b = r[n]
  OBVIOUS
<1>2. BuilderOK(b) /\ b.out = "ok"
  BY <1>1, RunKeeps
<1>3. PICK a : a = [b EXCEPT !.out = "run"]
  OBVIOUS
<1>4. Shaped(a) /\ a.stack = b.stack /\ a.root = b.root /\ a.journal = b.journal /\ a.out = "run"
  BY <1>2, <1>3, OutIs DEF BuilderOK
<1>5. BuilderOK(a)
  BY <1>2, <1>4 DEF BuilderOK
<1>6. b.root = <<>> => BuildByte(a, byte).out \in {"ok", "err"}
  BY <1>4, <1>5, ByteStep
<1>7. FeedItem(b, byte).out # "ok" => FeedItem(b, byte) = [b EXCEPT !.out = "err"]
  BY <1>2, FeedStep
<1>. QED BY <1>1, <1>3, <1>6, <1>7

----------------------------------------------------------------------------
(* The set of values seen in an array: buckets that are never empty.        *)

SetOK(set) ==
    /\ set = [hash \in DOMAIN set |-> set[hash]]
    /\ \A hash \in DOMAIN set : IsSeq(set[hash]) /\ set[hash] # <<>>

Inserted(set, after, hash, bucket, value) ==
    /\ IsSeq(bucket)
    /\ DOMAIN after = DOMAIN set \cup {hash}
    /\ after = [x \in DOMAIN after |-> after[x]]
    /\ after[hash] = Append(bucket, value)
    /\ \A x \in DOMAIN set \ {hash} : after[x] = set[x]

LEMMA InsertIs ==
    ASSUME NEW set, SetOK(set), NEW value, NEW hash, hash = Fingerprint(value),
           NEW bucket, bucket = ItemBucket(set, hash), NEW after, after = SetInsert(set, value)
    PROVE  Inserted(set, after, hash, bucket, value)
<1>1. IsSeq(bucket)
  BY EmptyIsSeq DEF ItemBucket, SetOK
<1>2. PICK longer : longer = Append(bucket, value)
  OBVIOUS
<1>3. after = [x \in DOMAIN set \cup {hash} |-> IF x = hash THEN Append(ItemBucket(set, x), value) ELSE set[x]]
  BY DEF SetInsert
<1>4. after = [x \in DOMAIN set \cup {hash} |-> IF x = hash THEN longer ELSE set[x]]
  BY <1>2, <1>3
<1>. QED BY <1>1, <1>2, <1>4 DEF Inserted

(* Whether a value was seen is decided by the value, whatever values share its
   fingerprint, and rollback_insert takes an insert back exactly.           *)
THEOREM SeenByValue ==
    ASSUME NEW set, SetOK(set), NEW value
    PROVE  /\ SetOK(SetInsert(set, value))
           /\ \A other : SetContains(SetInsert(set, value), other) <=> (other = value \/ SetContains(set, other))
           /\ RollbackInsert(SetInsert(set, value), Fingerprint(value), Len(ItemBucket(set, Fingerprint(value)))) = set
<1>1. PICK hash : hash = Fingerprint(value)
  OBVIOUS
<1>2. PICK bucket : bucket = ItemBucket(set, hash)
  OBVIOUS
<1>3. PICK after : after = SetInsert(set, value)
  OBVIOUS
<1>4. PICK longer : longer = Append(bucket, value)
  OBVIOUS
<1>5. /\ IsSeq(bucket)
      /\ DOMAIN after = DOMAIN set \cup {hash}
      /\ after = [x \in DOMAIN after |-> after[x]]
      /\ after[hash] = longer
      /\ \A x \in DOMAIN set \ {hash} : after[x] = set[x]
  <2>1. Inserted(set, after, hash, bucket, value)
    BY <1>1, <1>2, <1>3, InsertIs
  <2>. QED BY <1>4, <2>1, Zenon DEF Inserted
<1>6. /\ IsSeq(longer) /\ longer # <<>> /\ Len(longer) = Len(bucket) + 1 /\ SubSeq(longer, 1, Len(bucket)) = bucket
      /\ \A i \in 1 .. Len(bucket) : longer[i] = bucket[i]
      /\ longer[Len(bucket) + 1] = value
  BY <1>4, <1>5, AppendIsSeq
<1>7. SetOK(after)
  BY <1>5, <1>6 DEF SetOK
<1>8. ToSet(longer) = ToSet(bucket) \cup {value}
  <2>1. PICK S : longer \in Seq(S)
    BY <1>6 DEF IsSeq
  <2>2. PICK T : bucket \in Seq(T)
    BY <1>5 DEF IsSeq
  <2>3. DOMAIN longer = 1 .. Len(bucket) + 1 /\ DOMAIN bucket = 1 .. Len(bucket) /\ Len(bucket) \in Nat
    BY <1>6, <2>1, <2>2
  <2>4. 1 .. Len(bucket) + 1 = (1 .. Len(bucket)) \cup {Len(bucket) + 1}
    BY <2>3
  <2>. QED BY <1>6, <2>3, <2>4 DEF ToSet
<1>9. ASSUME NEW other PROVE SetContains(after, other) <=> (other = value \/ SetContains(set, other))
  <2>1. CASE Fingerprint(other) = hash
    <3>1. ItemBucket(after, hash) = longer
      BY <1>5 DEF ItemBucket
    <3>. QED BY <1>2, <1>8, <2>1, <3>1 DEF SetContains
  <2>2. CASE Fingerprint(other) # hash
    <3>1. other # value
      BY <1>1, <2>2
    <3>2. ItemBucket(after, Fingerprint(other)) = ItemBucket(set, Fingerprint(other))
      BY <1>5, <2>2 DEF ItemBucket
    <3>. QED BY <3>1, <3>2 DEF SetContains
  <2>. QED BY <2>1, <2>2
<1>10. RollbackInsert(after, hash, Len(bucket)) = set
  <2>1. CASE hash \in DOMAIN set
    <3>1. bucket = set[hash] /\ Len(bucket) # 0
      <4>1. bucket = set[hash] /\ bucket # <<>>
        BY <1>2, <2>1 DEF ItemBucket, SetOK
      <4>2. PICK T : bucket \in Seq(T)
        BY <1>5 DEF IsSeq
      <4>. QED BY <4>1, <4>2
    <3>2. RollbackInsert(after, hash, Len(bucket)) = [after EXCEPT ![hash] = bucket]
      BY <1>5, <1>6, <3>1 DEF RollbackInsert
    <3>3. DOMAIN after = DOMAIN set
      BY <1>5, <2>1
    <3>4. [after EXCEPT ![hash] = bucket] = [x \in DOMAIN set |-> set[x]]
      BY <1>5, <2>1, <3>1, <3>3
    <3>. QED BY <3>2, <3>4 DEF SetOK
  <2>2. CASE hash \notin DOMAIN set
    <3>1. bucket = <<>> /\ Len(bucket) = 0
      BY <1>2, <2>2 DEF ItemBucket
    <3>2. RollbackInsert(after, hash, Len(bucket)) = [x \in DOMAIN after \ {hash} |-> after[x]]
      BY <3>1 DEF RollbackInsert, Restrict
    <3>3. DOMAIN after \ {hash} = DOMAIN set
      BY <1>5, <2>2
    <3>4. \A x \in DOMAIN set : after[x] = set[x]
      BY <1>5, <2>2
    <3>5. [x \in DOMAIN after \ {hash} |-> after[x]] = [x \in DOMAIN set |-> set[x]]
      BY <3>3, <3>4
    <3>. QED BY <3>2, <3>5 DEF SetOK
  <2>. QED BY <2>1, <2>2
<1>. QED BY <1>1, <1>2, <1>3, <1>7, <1>9, <1>10

----------------------------------------------------------------------------
(* Remainders.                                                             *)

LEMMA ModDivision ==
    ASSUME NEW x \in Nat, NEW m \in Nat \ {0}
    PROVE  x % m \in 0 .. m - 1 /\ \E q \in Nat : x = q * m + (x % m)
<1>1. x % m \in 0 .. m - 1
  OBVIOUS
<1>2. x = m * (x \div m) + (x % m)
  OBVIOUS
<1>3. x \div m \in Int
  OBVIOUS
<1>4. x \div m >= 0
  BY <1>1, <1>2, <1>3
<1>5. m * (x \div m) = (x \div m) * m
  BY <1>3
<1>6. x \div m \in Nat /\ x = (x \div m) * m + (x % m)
  BY <1>2, <1>3, <1>4, <1>5
<1>. QED BY <1>1, <1>6, Zenon

LEMMA ProductGrows ==
    ASSUME NEW d \in Nat \ {0}, NEW m \in Nat
    PROVE  d * m >= m
OBVIOUS

(* x is q times m and y more.                                              *)
Splits(x, q, m, y) == x = q * m + y

LEMMA ModUnique ==
    ASSUME NEW m \in Nat \ {0}, NEW q \in Nat, NEW r \in 0 .. m - 1, NEW x, Splits(x, q, m, r)
    PROVE  x % m = r
<1>0. x = q * m + r
  BY DEF Splits
<1>1. q * m \in Nat /\ x \in Nat
  BY <1>0
<1>2. PICK p \in Nat : x = p * m + (x % m)
  BY <1>1, ModDivision
<1>3. x % m \in 0 .. m - 1
  BY <1>1, ModDivision
<1>4. ~(q > p)
  <2>1. SUFFICES ASSUME q > p PROVE FALSE
    OBVIOUS
  <2>2. (q - p) * m >= m
    BY <2>1, ProductGrows
  <2>3. (q - p) * m = q * m - p * m
    OBVIOUS
  <2>4. q * m - p * m = (x % m) - r
    BY <1>0, <1>1, <1>2, <1>3
  <2>. QED BY <1>3, <2>2, <2>3, <2>4
<1>5. ~(p > q)
  <2>1. SUFFICES ASSUME p > q PROVE FALSE
    OBVIOUS
  <2>2. (p - q) * m >= m
    BY <2>1, ProductGrows
  <2>3. (p - q) * m = p * m - q * m
    OBVIOUS
  <2>4. p * m - q * m = r - (x % m)
    BY <1>0, <1>1, <1>2, <1>3
  <2>. QED BY <1>3, <2>2, <2>3, <2>4
<1>6. p = q
  BY <1>4, <1>5
<1>. QED BY <1>0, <1>1, <1>2, <1>3, <1>6

LEMMA ModShift ==
    ASSUME NEW m \in Nat \ {0}, NEW q \in Nat, NEW y \in Nat, NEW x, Splits(x, q, m, y)
    PROVE  x % m = y % m
<1>1. PICK r \in 0 .. m - 1 : r = y % m
  BY ModDivision
<1>2. PICK p \in Nat : y = p * m + r
  BY <1>1, ModDivision
<1>3. PICK s \in Nat : s = q + p
  OBVIOUS
<1>4. s * m = q * m + p * m /\ q * m \in Nat /\ p * m \in Nat
  BY <1>3
<1>5. Splits(x, s, m, r)
  BY <1>2, <1>4 DEF Splits
<1>. QED BY <1>1, <1>5, ModUnique

LEMMA ModTimes ==
    ASSUME NEW m \in Nat \ {0}, NEW x \in Nat, NEW y \in Nat
    PROVE  ((x % m) * y) % m = (x * y) % m
<1>1. PICK r \in Nat : r = x % m
  BY ModDivision
<1>2. PICK q \in Nat : x = q * m + r
  BY <1>1, ModDivision
<1>3. PICK xy \in Nat, qy \in Nat, ry \in Nat : xy = x * y /\ qy = q * y /\ ry = r * y
  OBVIOUS
<1>4. xy = qy * m + ry
  BY <1>2, <1>3
<1>5. Splits(xy, qy, m, ry)
  BY <1>4 DEF Splits
<1>6. xy % m = ry % m
  BY <1>5, ModShift
<1>. QED BY <1>1, <1>3, <1>6

LEMMA ModPlus ==
    ASSUME NEW m \in Nat \ {0}, NEW x \in Nat, NEW y \in Nat
    PROVE  ((x % m) + y) % m = (x + y) % m
<1>1. PICK r \in Nat : r = x % m
  BY ModDivision
<1>2. PICK q \in Nat : x = q * m + r
  BY <1>1, ModDivision
<1>3. PICK xy \in Nat, ry \in Nat : xy = x + y /\ ry = r + y
  OBVIOUS
<1>4. q * m \in Nat
  OBVIOUS
<1>5. Splits(xy, q, m, ry)
  BY <1>2, <1>3, <1>4 DEF Splits
<1>6. xy % m = ry % m
  BY <1>5, ModShift
<1>. QED BY <1>1, <1>3, <1>6

----------------------------------------------------------------------------
(* Powers, by multiplication and by squaring.                               *)

(* g tabulates the powers of base.                                         *)
Powers(g, base, n) ==
    /\ g \in [0 .. n -> Nat]
    /\ g[0] = 1
    /\ \A k \in 1 .. n : g[k] = base * g[k - 1]

LEMMA PowersExist ==
    ASSUME NEW base \in Nat, NEW n \in Nat
    PROVE  \E g : Powers(g, base, n) /\ Power(base, n) = g[n]
<1>. DEFINE F == [i \in 1 .. n |-> [v \in Nat |-> base * v]]
            Eq(g) == g = [k \in 0 .. n |-> IF k = 0 THEN 1 ELSE base * g[k - 1]]
            power == CHOOSE g : Eq(g)
<1>1. F \in [1 .. n -> [Nat -> Nat]] /\ 1 \in Nat
  OBVIOUS
<1>2. PICK h \in [0 .. n -> Nat] : Follows(h, 1, n, F)
  <2>. HIDE DEF F
  <2>. QED BY <1>1, RecursionExists
<1>3. h[0] = 1 /\ \A i \in 1 .. n : h[i] = F[i][h[i - 1]]
  BY <1>2 DEF Follows
<1>4. \A i \in 1 .. n : h[i] = base * h[i - 1]
  <2>1. ASSUME NEW i \in 1 .. n PROVE h[i] = base * h[i - 1]
    <3>1. i - 1 \in 0 .. n
      OBVIOUS
    <3>2. h[i - 1] \in Nat
      BY <1>2, <3>1
    <3>. QED BY <1>3, <3>2
  <2>. QED BY <2>1
<1>5. Eq(h)
  <2>1. \A k \in 0 .. n : k # 0 => k \in 1 .. n
    OBVIOUS
  <2>2. \A k \in 0 .. n : h[k] = IF k = 0 THEN 1 ELSE base * h[k - 1]
    BY <1>3, <1>4, <2>1
  <2>3. h = [k \in 0 .. n |-> h[k]]
    BY <1>2
  <2>. QED BY <2>2, <2>3
<1>6. Power(base, n) = power[n]
  BY DEF Power
<1>. HIDE DEF Eq
<1>7. Eq(power)
  BY <1>5, Zenon
<1>. HIDE DEF power
<1>8. power = [k \in 0 .. n |-> power[k]]
  BY <1>7, Zenon DEF Eq
<1>9. \A k \in 0 .. n : power[k] = IF k = 0 THEN 1 ELSE base * power[k - 1]
  BY <1>7, Zenon DEF Eq
<1>10. power[0] = 1 /\ \A k \in 1 .. n : power[k] = base * power[k - 1]
  BY <1>9
<1>11. \A k \in 0 .. n : power[k] \in Nat
  <2>. DEFINE S == {k \in 0 .. n : power[k] \in Nat}
  <2>1. 0 \in S
    BY <1>10
  <2>2. \A k \in 1 .. n : k - 1 \in S => k \in S
    BY <1>10
  <2>3. 0 .. n \subseteq S
    <3>. HIDE DEF S
    <3>. QED BY <2>1, <2>2, SetInduction
  <2>. QED BY <2>3
<1>12. Powers(power, base, n)
  BY <1>8, <1>10, <1>11 DEF Powers
<1>. QED BY <1>6, <1>12

LEMMA PowerIs ==
    ASSUME NEW base \in Nat, NEW n \in Nat
    PROVE  /\ Power(base, n) \in Nat
           /\ Power(base, 0) = 1
           /\ Power(base, n + 1) = base * Power(base, n)
<1>1. PICK f : Powers(f, base, n) /\ Power(base, n) = f[n]
  BY PowersExist
<1>2. PICK g : Powers(g, base, n + 1) /\ Power(base, n + 1) = g[n + 1]
  BY PowersExist
<1>3. PICK z : Powers(z, base, 0) /\ Power(base, 0) = z[0]
  BY PowersExist
<1>4. /\ f[0] = 1 /\ \A k \in 1 .. n : f[k] = base * f[k - 1]
      /\ g[0] = 1 /\ \A k \in 1 .. n + 1 : g[k] = base * g[k - 1]
      /\ f[n] \in Nat
  BY <1>1, <1>2 DEF Powers
<1>5. f[n] = g[n]
  <2>. DEFINE S == {k \in 0 .. n : f[k] = g[k]}
  <2>1. 0 \in S
    BY <1>4
  <2>2. ASSUME NEW k \in 1 .. n, k - 1 \in S PROVE k \in S
    <3>1. k \in 1 .. n + 1 /\ k \in 0 .. n
      OBVIOUS
    <3>2. f[k] = base * f[k - 1] /\ g[k] = base * g[k - 1] /\ f[k - 1] = g[k - 1]
      BY <1>4, <2>2, <3>1
    <3>. QED BY <3>1, <3>2
  <2>3. 0 .. n \subseteq S
    <3>. HIDE DEF S
    <3>. QED BY <2>1, <2>2, SetInduction
  <2>4. n \in S
    BY <2>3
  <2>. QED BY <2>4
<1>6. g[n + 1] = base * g[n]
  <2>1. n + 1 \in 1 .. n + 1 /\ (n + 1) - 1 = n
    OBVIOUS
  <2>2. g[n + 1] = base * g[(n + 1) - 1]
    BY <1>4, <2>1
  <2>. QED BY <2>1, <2>2
<1>7. Power(base, 0) = 1
  BY <1>3 DEF Powers
<1>. QED BY <1>1, <1>2, <1>4, <1>5, <1>6, <1>7

LEMMA PowerPositive ==
    ASSUME NEW base \in Nat \ {0}, NEW n \in Nat
    PROVE  Power(base, n) \in Nat \ {0}
<1>. DEFINE S == {k \in 0 .. n : Power(base, k) \in Nat \ {0}}
<1>1. 0 \in S
  BY PowerIs
<1>2. ASSUME NEW k \in 1 .. n, k - 1 \in S PROVE k \in S
  <2>1. k - 1 \in Nat /\ (k - 1) + 1 = k /\ k \in 0 .. n
    OBVIOUS
  <2>2. Power(base, k) = base * Power(base, k - 1)
    BY <2>1, PowerIs
  <2>3. PICK p \in Nat \ {0} : p = Power(base, k - 1)
    BY <1>2
  <2>4. base * p \in Nat \ {0}
    OBVIOUS
  <2>. QED BY <2>1, <2>2, <2>3, <2>4
<1>3. 0 .. n \subseteq S
  <2>. HIDE DEF S
  <2>. QED BY <1>1, <1>2, SetInduction
<1>4. n \in S
  BY <1>3
<1>. QED BY <1>4

LEMMA PowerSum ==
    ASSUME NEW base \in Nat, NEW j \in Nat, NEW n \in Nat
    PROVE  Power(base, j + n) = Power(base, j) * Power(base, n)
<1>. DEFINE S == {k \in 0 .. n : Power(base, j + k) = Power(base, j) * Power(base, k)}
<1>1. 0 \in S
  <2>1. Power(base, j) \in Nat
    BY PowerIs
  <2>2. Power(base, 0) = 1
    BY PowerIs
  <2>3. j + 0 = j /\ 0 \in 0 .. n
    OBVIOUS
  <2>. QED BY <2>1, <2>2, <2>3
<1>2. ASSUME NEW k \in 1 .. n, k - 1 \in S PROVE k \in S
  <2>1. k - 1 \in Nat /\ (k - 1) + 1 = k /\ k \in 0 .. n /\ j + (k - 1) \in Nat /\ (j + (k - 1)) + 1 = j + k
    OBVIOUS
  <2>2. PICK x \in Nat, y \in Nat : x = Power(base, j) /\ y = Power(base, k - 1)
    BY <2>1, PowerIs
  <2>3. Power(base, k) = base * y
    BY <2>1, <2>2, PowerIs
  <2>4. Power(base, j + (k - 1)) = x * y
    BY <1>2, <2>2
  <2>5. Power(base, j + k) = base * (x * y)
    <3>1. Power(base, (j + (k - 1)) + 1) = base * Power(base, j + (k - 1))
      BY <2>1, PowerIs
    <3>. QED BY <2>1, <2>4, <3>1
  <2>6. base * (x * y) = x * (base * y)
    OBVIOUS
  <2>. QED BY <2>1, <2>2, <2>3, <2>5, <2>6
<1>3. 0 .. n \subseteq S
  <2>. HIDE DEF S
  <2>. QED BY <1>1, <1>2, SetInduction
<1>4. n \in S
  BY <1>3
<1>. QED BY <1>4

LEMMA PowerSquare ==
    ASSUME NEW base \in Nat, NEW n \in Nat
    PROVE  Power(base * base, n) = Power(base, n + n)
<1>. DEFINE S == {k \in 0 .. n : Power(base * base, k) = Power(base, k + k)}
<1>1. 0 \in S
  <2>1. PICK sq \in Nat : sq = base * base
    OBVIOUS
  <2>2. Power(base, 0) = 1
    BY PowerIs
  <2>3. Power(sq, 0) = 1
    BY PowerIs
  <2>4. 0 + 0 = 0 /\ 0 \in 0 .. n
    OBVIOUS
  <2>. QED BY <2>1, <2>2, <2>3, <2>4
<1>2. ASSUME NEW k \in 1 .. n, k - 1 \in S PROVE k \in S
  <2>1. PICK i \in Nat : i = k - 1
    OBVIOUS
  <2>2. k = i + 1 /\ k \in 0 .. n /\ i + i \in Nat /\ (i + i) + 1 \in Nat /\ ((i + i) + 1) + 1 = k + k
    BY <2>1
  <2>3. PICK sq \in Nat : sq = base * base
    OBVIOUS
  <2>4. Power(sq, i) = Power(base, i + i)
    BY <1>2, <2>1, <2>3
  <2>5. PICK y \in Nat : y = Power(base, i + i)
    BY <2>2, PowerIs
  <2>6. Power(sq, k) = sq * y
    BY <2>2, <2>4, <2>5, PowerIs
  <2>7. Power(base, (i + i) + 1) = base * y
    BY <2>2, <2>5, PowerIs
  <2>8. Power(base, ((i + i) + 1) + 1) = base * (base * y)
    BY <2>2, <2>7, PowerIs
  <2>9. sq * y = base * (base * y)
    BY <2>3
  <2>. QED BY <2>2, <2>3, <2>6, <2>8, <2>9
<1>3. 0 .. n \subseteq S
  <2>. HIDE DEF S
  <2>. QED BY <1>1, <1>2, SetInduction
<1>4. n \in S
  BY <1>3
<1>. QED BY <1>4

LEMMA ModTimesRight ==
    ASSUME NEW m \in Nat \ {0}, NEW x \in Nat, NEW y \in Nat
    PROVE  (x * (y % m)) % m = (x * y) % m
<1>1. PICK r \in Nat : r = y % m
  BY ModDivision
<1>2. (r * x) % m = (y * x) % m
  BY <1>1, ModTimes
<1>3. r * x = x * r /\ y * x = x * y
  OBVIOUS
<1>. QED BY <1>1, <1>2, <1>3

LEMMA PowerMod ==
    ASSUME NEW m \in Nat \ {0}, NEW base \in Nat, NEW n \in Nat
    PROVE  Power(base % m, n) % m = Power(base, n) % m
<1>. DEFINE S == {k \in 0 .. n : Power(base % m, k) % m = Power(base, k) % m}
<1>1. PICK r \in Nat : r = base % m
  BY ModDivision
<1>2. 0 \in S
  <2>1. Power(r, 0) = 1
    BY PowerIs
  <2>2. Power(base, 0) = 1
    BY PowerIs
  <2>. QED BY <1>1, <2>1, <2>2
<1>3. ASSUME NEW k \in 1 .. n, k - 1 \in S PROVE k \in S
  <2>1. PICK i \in Nat : i = k - 1
    OBVIOUS
  <2>2. k = i + 1 /\ k \in 0 .. n
    BY <2>1
  <2>3. PICK x \in Nat, y \in Nat : x = Power(r, i) /\ y = Power(base, i)
    BY PowerIs
  <2>4. x % m = y % m
    BY <1>1, <1>3, <2>1, <2>3
  <2>5. Power(r, k) = r * x
    BY <2>2, <2>3, PowerIs
  <2>6. Power(base, k) = base * y
    BY <2>2, <2>3, PowerIs
  <2>7. (r * x) % m = (base * x) % m
    BY <1>1, ModTimes
  <2>8. (base * (x % m)) % m = (base * x) % m
    BY ModTimesRight
  <2>9. (base * (y % m)) % m = (base * y) % m
    BY ModTimesRight
  <2>10. (r * x) % m = (base * y) % m
    BY <2>4, <2>7, <2>8, <2>9
  <2>. QED BY <1>1, <2>2, <2>5, <2>6, <2>10
<1>4. 0 .. n \subseteq S
  <2>. HIDE DEF S
  <2>. QED BY <1>2, <1>3, SetInduction
<1>5. n \in S
  BY <1>4
<1>. QED BY <1>5

(* The loop of modular_power_of_ten: result * base^exponent stays 10^n.     *)
TurnOK(t, n, m, k) ==
    /\ t = [exponent |-> t.exponent, base |-> t.base, result |-> t.result]
    /\ t.exponent \in Nat /\ t.exponent <= n - k
    /\ t.base \in Nat
    /\ t.result \in 0 .. m - 1
    /\ (t.result * Power(t.base, t.exponent)) % m = Power(10, n) % m

(* What a turn computes from an exponent that is not zero.                  *)
Halved(m, e, b, r, h, s, v) ==
    h = e \div 2 /\ s = (b * b) % m /\ v = IF e % 2 = 1 THEN (r * b) % m ELSE r

LEMMA HalfTurn ==
    ASSUME NEW m \in Nat \ {0}, NEW e \in Nat \ {0}, NEW b \in Nat, NEW r \in Nat,
           NEW h, NEW s, NEW v, Halved(m, e, b, r, h, s, v)
    PROVE  (v * Power(s, h)) % m = (r * Power(b, e)) % m
<1>0. h = e \div 2 /\ s = (b * b) % m /\ v = IF e % 2 = 1 THEN (r * b) % m ELSE r
  BY DEF Halved
<1>1. h \in Nat /\ h <= e - 1 /\ (e % 2 = 1 \/ e % 2 = 0) /\ e = (h + h) + (e % 2)
  BY <1>0
<1>2. PICK sq \in Nat : sq = b * b
  OBVIOUS
<1>3. s \in Nat /\ s = sq % m
  BY <1>0, <1>2, ModDivision
<1>4. PICK x \in Nat, y \in Nat : x = Power(s, h) /\ y = Power(sq, h)
  BY <1>1, <1>2, <1>3, PowerIs
<1>5. x % m = y % m
  BY <1>1, <1>3, <1>4, PowerMod
<1>6. y = Power(b, h + h)
  BY <1>1, <1>2, <1>4, PowerSquare
<1>7. ASSUME NEW z \in Nat PROVE (z * x) % m = (z * y) % m
  <2>1. (z * (x % m)) % m = (z * x) % m
    BY ModTimesRight
  <2>2. (z * (y % m)) % m = (z * y) % m
    BY ModTimesRight
  <2>. QED BY <1>5, <2>1, <2>2
<1>8. CASE e % 2 = 1
  <2>1. PICK rb \in Nat : rb = r * b
    OBVIOUS
  <2>2. ((rb % m) * x) % m = (rb * x) % m
    BY ModTimes
  <2>3. (rb * x) % m = (rb * y) % m
    BY <1>7
  <2>4. PICK d \in Nat : d = h + h
    BY <1>1
  <2>5. Power(b, e) = b * y
    <3>1. e = d + 1
      BY <1>1, <1>8, <2>4
    <3>2. y = Power(b, d)
      BY <1>6, <2>4
    <3>3. Power(b, d + 1) = b * Power(b, d)
      BY PowerIs
    <3>. QED BY <3>1, <3>2, <3>3
  <2>6. rb * y = r * (b * y)
    BY <2>1
  <2>. QED BY <1>1, <1>2, <1>3, <1>4, <1>0, <1>8, <2>1, <2>2, <2>3, <2>5, <2>6
<1>9. CASE e % 2 = 0
  <2>1. e = h + h
    BY <1>1, <1>9
  <2>2. Power(b, e) = y
    BY <1>6, <2>1
  <2>3. (r * x) % m = (r * y) % m
    BY <1>7
  <2>. QED BY <1>1, <1>2, <1>3, <1>0, <1>4, <1>9, <2>2, <2>3
<1>. QED BY <1>1, <1>8, <1>9

LEMMA ModularTurnStep ==
    ASSUME NEW m \in Nat \ {0}, NEW n \in Nat, NEW k \in 1 .. n, NEW t, TurnOK(t, n, m, k - 1)
    PROVE  TurnOK(ModularTurn(t, m), n, m, k)
<1>1. PICK e \in Nat, b \in Nat, r \in Nat : e = t.exponent /\ b = t.base /\ r = t.result
  BY DEF TurnOK
<1>2. /\ e <= n - (k - 1) /\ r \in 0 .. m - 1
      /\ (r * Power(b, e)) % m = Power(10, n) % m
      /\ t = [exponent |-> e, base |-> b, result |-> r]
  BY <1>1 DEF TurnOK
<1>3. CASE e = 0
  <2>1. ModularTurn(t, m) = t
    BY <1>1, <1>3 DEF ModularTurn
  <2>2. 0 <= n - k
    OBVIOUS
  <2>. QED BY <1>1, <1>2, <1>3, <2>1, <2>2 DEF TurnOK
<1>4. CASE e # 0
  <2>1. PICK h \in Nat : h = e \div 2 /\ h <= e - 1
    BY <1>4
  <2>2. PICK s \in Nat : s = (b * b) % m
    <3>1. PICK sq \in Nat : sq = b * b
      OBVIOUS
    <3>2. sq % m \in 0 .. m - 1
      BY ModDivision
    <3>. QED BY <3>1, <3>2
  <2>3. PICK v \in 0 .. m - 1 : v = IF e % 2 = 1 THEN (r * b) % m ELSE r
    <3>1. r * b \in Nat
      OBVIOUS
    <3>2. (r * b) % m \in 0 .. m - 1
      BY <3>1, ModDivision
    <3>. QED BY <1>2, <3>2
  <2>4. ModularTurn(t, m) = [exponent |-> h, base |-> s, result |-> v]
    BY <1>1, <1>4, <2>1, <2>2, <2>3 DEF ModularTurn
  <2>5. (v * Power(s, h)) % m = (r * Power(b, e)) % m
    <3>1. e \in Nat \ {0}
      BY <1>4
    <3>2. Halved(m, e, b, r, h, s, v)
      BY <2>1, <2>2, <2>3 DEF Halved
    <3>. QED BY <3>1, <3>2, HalfTurn
  <2>6. h <= n - k
    BY <1>2, <2>1
  <2>7. PICK u : u = ModularTurn(t, m)
    OBVIOUS
  <2>8. u.exponent = h /\ u.base = s /\ u.result = v
    BY <2>4, <2>7
  <2>9. TurnOK(u, n, m, k)
    BY <1>2, <2>4, <2>5, <2>6, <2>7, <2>8 DEF TurnOK
  <2>. QED BY <2>7, <2>9
<1>. QED BY <1>3, <1>4

(* modular_power_of_ten is right for every exponent and modulus: squaring   *)
(* the base and halving the exponent computes the remainder of the power,   *)
(* within as many turns as the exponent is large.                           *)
THEOREM ModularPowerIs ==
    ASSUME NEW n \in Nat, NEW m \in Nat \ {0}
    PROVE  ModularPowerOfTen(n, m) = PowerOfTen(n) % m
<1>. DEFINE D == [exponent : Nat, base : Nat, result : Nat]
            q == [exponent |-> n, base |-> 10 % m, result |-> 1 % m]
            F == [i \in 1 .. n |-> [t \in D |-> ModularTurn(t, m)]]
            Eq(g) == g = [k \in 0 .. n |-> IF k = 0 THEN q ELSE ModularTurn(g[k - 1], m)]
            after == CHOOSE g : Eq(g)
<1>1. q \in D
  <2>1. 10 % m \in 0 .. m - 1 /\ 1 % m \in 0 .. m - 1
    BY ModDivision
  <2>. QED BY <2>1
<1>2. \A t \in D : ModularTurn(t, m) \in D
  <2>1. ASSUME NEW t \in D PROVE ModularTurn(t, m) \in D
    <3>1. PICK e \in Nat, b \in Nat, r \in Nat : e = t.exponent /\ b = t.base /\ r = t.result
      OBVIOUS
    <3>2. b * b \in Nat /\ r * b \in Nat
      OBVIOUS
    <3>3. (b * b) % m \in Nat /\ (r * b) % m \in Nat /\ e \div 2 \in Nat
      BY <3>2, ModDivision
    <3>. QED BY <3>1, <3>3 DEF ModularTurn
  <2>. QED BY <2>1
<1>3. PICK h \in [0 .. n -> D] : Follows(h, q, n, F)
  <2>1. F \in [1 .. n -> [D -> D]]
    BY <1>2
  <2>. HIDE DEF F, D, q
  <2>. QED BY <1>1, <2>1, RecursionExists
<1>4. h[0] = q /\ \A i \in 1 .. n : h[i] = F[i][h[i - 1]]
  BY <1>3 DEF Follows
<1>5. \A i \in 1 .. n : h[i] = ModularTurn(h[i - 1], m)
  <2>1. ASSUME NEW i \in 1 .. n PROVE h[i] = ModularTurn(h[i - 1], m)
    <3>1. i - 1 \in 0 .. n
      OBVIOUS
    <3>. HIDE DEF D, q
    <3>2. h[i - 1] \in D
      BY <1>3, <3>1
    <3>. QED BY <1>4, <3>2
  <2>. QED BY <2>1
<1>. HIDE DEF q
<1>6. Eq(h)
  <2>1. \A k \in 0 .. n : k # 0 => k \in 1 .. n
    OBVIOUS
  <2>2. \A k \in 0 .. n : h[k] = IF k = 0 THEN q ELSE ModularTurn(h[k - 1], m)
    BY <1>4, <1>5, <2>1
  <2>3. h = [k \in 0 .. n |-> h[k]]
    BY <1>3
  <2>. QED BY <2>2, <2>3
<1>7. ModularPowerOfTen(n, m) = after[n].result
  BY Zenon DEF ModularPowerOfTen, q
<1>. HIDE DEF Eq
<1>8. Eq(after)
  BY <1>6, Zenon
<1>. HIDE DEF after
<1>9. \A k \in 0 .. n : after[k] = IF k = 0 THEN q ELSE ModularTurn(after[k - 1], m)
  BY <1>8, Zenon DEF Eq
<1>10. after[0] = q /\ \A k \in 1 .. n : after[k] = ModularTurn(after[k - 1], m)
  BY <1>9
<1>. DEFINE S == {k \in 0 .. n : TurnOK(after[k], n, m, k)}
<1>11. 0 \in S
  <2>1. PICK r \in Nat, s \in Nat : r = 1 % m /\ s = 10 % m
    <3>1. 1 % m \in 0 .. m - 1 /\ 10 % m \in 0 .. m - 1
      BY ModDivision
    <3>. QED BY <3>1
  <2>2. q = [exponent |-> n, base |-> s, result |-> r]
    BY <2>1 DEF q
  <2>3. r \in 0 .. m - 1
    BY <2>1, ModDivision
  <2>4. PICK x \in Nat, y \in Nat : x = Power(s, n) /\ y = Power(10, n)
    BY PowerIs
  <2>5. x % m = y % m
    BY <2>1, <2>4, PowerMod
  <2>6. (r * x) % m = (1 * x) % m
    BY <2>1, ModTimes
  <2>7. (r * Power(s, n)) % m = Power(10, n) % m
    BY <2>4, <2>5, <2>6
  <2>8. TurnOK(q, n, m, 0)
    BY <2>2, <2>3, <2>7 DEF TurnOK
  <2>. QED BY <1>10, <2>8
<1>12. ASSUME NEW k \in 1 .. n, k - 1 \in S PROVE k \in S
  <2>1. TurnOK(after[k - 1], n, m, k - 1)
    BY <1>12
  <2>2. TurnOK(ModularTurn(after[k - 1], m), n, m, k)
    BY <2>1, ModularTurnStep
  <2>. QED BY <1>10, <2>2
<1>13. 0 .. n \subseteq S
  <2>. HIDE DEF S
  <2>. QED BY <1>11, <1>12, SetInduction
<1>14. TurnOK(after[n], n, m, n)
  <2>1. n \in S
    BY <1>13
  <2>. QED BY <2>1
<1>15. after[n].exponent = 0 /\ after[n].result \in 0 .. m - 1 /\ after[n].base \in Nat
       /\ (after[n].result * Power(after[n].base, after[n].exponent)) % m = Power(10, n) % m
  BY <1>14 DEF TurnOK
<1>16. PICK v \in 0 .. m - 1, w \in Nat : v = after[n].result /\ w = after[n].base
  BY <1>15
<1>17. Power(w, 0) = 1
  BY PowerIs
<1>18. (v * 1) % m = Power(10, n) % m
  BY <1>15, <1>16, <1>17
<1>19. v % m = v
  <2>1. Splits(v, 0, m, v)
    BY DEF Splits
  <2>. QED BY <2>1, ModUnique
<1>20. v = Power(10, n) % m
  BY <1>18, <1>19
<1>. QED BY <1>7, <1>16, <1>20 DEF PowerOfTen

----------------------------------------------------------------------------
(* The accumulator against the decimal value of the text.                  *)

(* What a number text says, read as a decimal: the digits before the        *)
(* exponent as one integer, how many of them are behind the point, and the  *)
(* exponent.                                                               *)
ReadByte(v, byte) ==
    CASE byte = "." -> [v EXCEPT !.fraction = TRUE]
      [] byte \in {"e", "E"} -> [v EXCEPT !.exponent = TRUE]
      [] byte = "-" /\ v.exponent -> [v EXCEPT !.exponent_negative = TRUE]
      [] byte = "-" /\ ~v.exponent /\ v.mantissa = 0 /\ ~v.fraction -> [v EXCEPT !.negative = TRUE]
      [] byte \in Digits /\ v.exponent -> [v EXCEPT !.exponent_value = 10 * @ + DigitOf[byte]]
      [] byte \in Digits /\ ~v.exponent ->
            [v EXCEPT !.mantissa = 10 * @ + DigitOf[byte],
                      !.fraction_digits = IF v.fraction THEN @ + 1 ELSE @]
      [] OTHER -> v

NothingRead ==
    [negative |-> FALSE, mantissa |-> 0, fraction |-> FALSE, fraction_digits |-> 0,
     exponent |-> FALSE, exponent_negative |-> FALSE, exponent_value |-> 0]

Readings ==
    [negative : BOOLEAN, mantissa : Nat, fraction : BOOLEAN, fraction_digits : Nat,
     exponent : BOOLEAN, exponent_negative : BOOLEAN, exponent_value : Nat]

Accumulators(L) ==
    [negative : BOOLEAN, fraction : BOOLEAN, exponent : BOOLEAN, exponent_negative : BOOLEAN,
     exponent_value : Nat, fraction_digits : Nat, core_digits : Nat, leading : {L},
     pending_zeros : Nat, core_mod : Nat, bytes : Nat, started : BOOLEAN, finished : BOOLEAN]

(* The mantissa without the zeros it ends in, as the accumulator knows it.  *)
CoreOf(a, core, mantissa, m) ==
    /\ core \in Nat
    /\ mantissa = core * Power(10, a.pending_zeros)
    /\ (a.core_digits = 0) <=> (core = 0)
    /\ core = 0 => a.pending_zeros = 0
    /\ core # 0 => core % 10 # 0
    /\ m > 1 => a.core_mod = core % m

Agrees(a, v, m) ==
    /\ \E L : a \in Accumulators(L)
    /\ v \in Readings
    /\ ~a.finished
    /\ a.negative = v.negative /\ a.fraction = v.fraction /\ a.exponent = v.exponent
    /\ a.exponent_negative = v.exponent_negative
    /\ a.fraction_digits = v.fraction_digits
    /\ a.exponent_value = IF v.exponent_value <= ExponentCap THEN v.exponent_value ELSE ExponentCap
    /\ \E core : CoreOf(a, core, v.mantissa, m)

LEMMA DigitOfType == \A d \in Digits : DigitOf[d] \in 0 .. 9
<1>1. ASSUME NEW d \in Digits PROVE \E n \in 0 .. 9 : <<"0", "1", "2", "3", "4", "5", "6", "7", "8", "9">>[n + 1] = d
  BY DEF Digits, NonZero
<1>. QED BY <1>1 DEF DigitOf

LEMMA MinPair ==
    ASSUME NEW x \in Int, NEW y \in Int
    PROVE  Min({x, y}) = IF x <= y THEN x ELSE y
BY DEF Min

LEMMA CoreDigit ==
    ASSUME NEW L, NEW a \in Accumulators(L), NEW digit \in 0 .. 9, NEW m \in Nat \ {0}
    PROVE  LET b == PushCoreDigit(a, digit, m) IN
           /\ \E K : b \in Accumulators(K)
           /\ b.core_digits = a.core_digits + 1
           /\ b.pending_zeros = a.pending_zeros
           /\ b.core_mod = IF m > 1 THEN (a.core_mod * 10 + digit) % m ELSE a.core_mod
           /\ b.negative = a.negative /\ b.fraction = a.fraction
           /\ b.exponent = a.exponent /\ b.exponent_negative = a.exponent_negative
           /\ b.fraction_digits = a.fraction_digits /\ b.exponent_value = a.exponent_value
           /\ b.finished = a.finished
<1>1. PICK K : K = IF Len(a.leading) < LeadingDigits THEN Append(a.leading, digit) ELSE a.leading
  OBVIOUS
<1>2. PICK c \in Nat : c = IF m > 1 THEN (a.core_mod * 10 + digit) % m ELSE a.core_mod
  <2>1. PICK x \in Nat : x = a.core_mod * 10 + digit
    BY DEF Accumulators
  <2>2. x % m \in 0 .. m - 1
    BY ModDivision
  <2>. QED BY <2>1, <2>2 DEF Accumulators
<1>3. PushCoreDigit(a, digit, m) = [a EXCEPT !.leading = K, !.core_digits = @ + 1, !.core_mod = c]
  BY <1>1, <1>2 DEF PushCoreDigit
<1>4. PushCoreDigit(a, digit, m) \in Accumulators(K)
  <2>1. PICK d \in Nat : d = a.core_digits + 1
    BY DEF Accumulators
  <2>2. PushCoreDigit(a, digit, m) =
          [negative |-> a.negative, fraction |-> a.fraction, exponent |-> a.exponent,
           exponent_negative |-> a.exponent_negative, exponent_value |-> a.exponent_value,
           fraction_digits |-> a.fraction_digits, core_digits |-> d, leading |-> K,
           pending_zeros |-> a.pending_zeros, core_mod |-> c, bytes |-> a.bytes,
           started |-> a.started, finished |-> a.finished]
    BY <1>3, <2>1 DEF Accumulators
  <2>. QED BY <2>2 DEF Accumulators
<1>. QED BY <1>2, <1>3, <1>4 DEF Accumulators

LEMMA FlushZeros ==
    ASSUME NEW L, NEW a \in Accumulators(L), NEW m \in Nat \ {0}
    PROVE  LET b == FlushPendingZeros(a, m) IN
           /\ \E K : b \in Accumulators(K)
           /\ b.core_digits = a.core_digits + a.pending_zeros
           /\ b.pending_zeros = 0
           /\ b.core_mod = IF m > 1 THEN (a.core_mod * Power(10, a.pending_zeros)) % m ELSE a.core_mod
           /\ b.negative = a.negative /\ b.fraction = a.fraction
           /\ b.exponent = a.exponent /\ b.exponent_negative = a.exponent_negative
           /\ b.fraction_digits = a.fraction_digits /\ b.exponent_value = a.exponent_value
           /\ b.finished = a.finished
<1>1. PICK K : K = a.leading \o [i \in 1 .. Min({LeadingDigits - Len(a.leading), a.pending_zeros}) |-> 0]
  OBVIOUS
<1>2. PICK z \in Nat, g \in Nat : z = a.pending_zeros /\ g = a.core_mod
  BY DEF Accumulators
<1>3. PICK p \in Nat, r \in Nat : p = Power(10, z) /\ r = p % m
  <2>1. Power(10, z) \in Nat
    BY PowerIs
  <2>2. PICK p \in Nat : p = Power(10, z)
    BY <2>1
  <2>3. p % m \in 0 .. m - 1
    BY ModDivision
  <2>. QED BY <2>2, <2>3
<1>4. ModularPowerOfTen(z, m) = r
  BY <1>3, ModularPowerIs DEF PowerOfTen
<1>5. (g * r) % m = (g * p) % m
  BY <1>3, ModTimesRight
<1>6. PICK c \in Nat : c = IF m > 1 THEN (g * p) % m ELSE g
  <2>1. PICK x \in Nat : x = g * p
    OBVIOUS
  <2>2. x % m \in 0 .. m - 1
    BY ModDivision
  <2>. QED BY <2>1, <2>2
<1>7. FlushPendingZeros(a, m) = [a EXCEPT !.leading = K, !.core_digits = @ + z, !.core_mod = c, !.pending_zeros = 0]
  BY <1>1, <1>2, <1>4, <1>5, <1>6 DEF FlushPendingZeros
<1>8. FlushPendingZeros(a, m) \in Accumulators(K)
  <2>1. PICK d \in Nat : d = a.core_digits + z
    BY DEF Accumulators
  <2>2. FlushPendingZeros(a, m) =
          [negative |-> a.negative, fraction |-> a.fraction, exponent |-> a.exponent,
           exponent_negative |-> a.exponent_negative, exponent_value |-> a.exponent_value,
           fraction_digits |-> a.fraction_digits, core_digits |-> d, leading |-> K,
           pending_zeros |-> 0, core_mod |-> c, bytes |-> a.bytes,
           started |-> a.started, finished |-> a.finished]
    BY <1>7, <2>1 DEF Accumulators
  <2>. QED BY <2>2 DEF Accumulators
<1>. QED BY <1>2, <1>3, <1>6, <1>7, <1>8 DEF Accumulators

(* push enters its match with the byte counted.                             *)
LEMMA Counted ==
    ASSUME NEW a, NEW v, NEW m \in Nat \ {0}, Agrees(a, v, m)
    PROVE  Agrees([a EXCEPT !.started = TRUE, !.bytes = @ + 1], v, m)
<1>1. PICK L : a \in Accumulators(L)
  BY DEF Agrees
<1>2. PICK core : CoreOf(a, core, v.mantissa, m)
  BY DEF Agrees
<1>3. PICK b : b = [a EXCEPT !.started = TRUE, !.bytes = @ + 1]
  OBVIOUS
<1>4. PICK n \in Nat : n = a.bytes + 1
  BY <1>1 DEF Accumulators
<1>5. b = [negative |-> a.negative, fraction |-> a.fraction, exponent |-> a.exponent,
           exponent_negative |-> a.exponent_negative, exponent_value |-> a.exponent_value,
           fraction_digits |-> a.fraction_digits, core_digits |-> a.core_digits, leading |-> a.leading,
           pending_zeros |-> a.pending_zeros, core_mod |-> a.core_mod, bytes |-> n,
           started |-> TRUE, finished |-> a.finished]
  BY <1>1, <1>3, <1>4 DEF Accumulators
<1>6. b \in Accumulators(L)
  BY <1>1, <1>5 DEF Accumulators
<1>7. /\ b.negative = a.negative /\ b.fraction = a.fraction
      /\ b.exponent = a.exponent /\ b.exponent_negative = a.exponent_negative
      /\ b.exponent_value = a.exponent_value /\ b.fraction_digits = a.fraction_digits
      /\ b.core_digits = a.core_digits /\ b.pending_zeros = a.pending_zeros /\ b.core_mod = a.core_mod
      /\ b.finished = a.finished
  BY <1>5
<1>8. CoreOf(b, core, v.mantissa, m)
  BY <1>2, <1>7 DEF CoreOf
<1>9. Agrees(b, v, m)
  BY <1>6, <1>7, <1>8 DEF Agrees
<1>. QED BY <1>3, <1>9

(* A byte that sets a flag changes neither the core nor the counts.         *)
OnlyFlags(a, v, b, w) ==
    /\ b.negative = w.negative /\ b.fraction = w.fraction
    /\ b.exponent = w.exponent /\ b.exponent_negative = w.exponent_negative
    /\ b.finished = a.finished
    /\ b.exponent_value = a.exponent_value /\ b.fraction_digits = a.fraction_digits
    /\ b.core_digits = a.core_digits /\ b.pending_zeros = a.pending_zeros /\ b.core_mod = a.core_mod
    /\ w.mantissa = v.mantissa /\ w.exponent_value = v.exponent_value /\ w.fraction_digits = v.fraction_digits

LEMMA FlagByte ==
    ASSUME NEW a, NEW v, NEW b, NEW w, NEW m \in Nat \ {0}, Agrees(a, v, m),
           NEW L, b \in Accumulators(L), w \in Readings, OnlyFlags(a, v, b, w)
    PROVE  Agrees(b, w, m)
<1>1. PICK core : CoreOf(a, core, v.mantissa, m)
  BY DEF Agrees
<1>2. CoreOf(b, core, w.mantissa, m)
  BY <1>1 DEF CoreOf, OnlyFlags
<1>. QED BY <1>2 DEF Agrees, OnlyFlags

ExponentPushed(b, a, digit) == b = [a EXCEPT !.exponent_value = Min({@ * 10 + digit, ExponentCap})]

ExponentRead(w, v, digit) == w = [v EXCEPT !.exponent_value = 10 * @ + digit]

MantissaRead(w, v, digit) ==
    w = [v EXCEPT !.mantissa = 10 * @ + digit, !.fraction_digits = IF v.fraction THEN @ + 1 ELSE @]

LEMMA ExponentByte ==
    ASSUME NEW a, NEW v, NEW m \in Nat \ {0}, Agrees(a, v, m), NEW digit \in 0 .. 9,
           NEW b, ExponentPushed(b, a, digit), NEW w, ExponentRead(w, v, digit)
    PROVE  Agrees(b, w, m)
<1>1. PICK L : a \in Accumulators(L)
  BY DEF Agrees
<1>2. PICK core : CoreOf(a, core, v.mantissa, m)
  BY DEF Agrees
<1>3. PICK x \in Nat, y \in Nat, cap \in Nat : x = a.exponent_value /\ y = v.exponent_value /\ cap = ExponentCap
  BY <1>1, NumberAssumption DEF Accumulators, Agrees, Readings
<1>4. x = IF y <= cap THEN y ELSE cap
  BY <1>3 DEF Agrees
<1>5. PICK u \in Nat, z \in Nat : u = x * 10 + digit /\ z = 10 * y + digit
  OBVIOUS
<1>6. PICK e \in Nat : e = IF u <= cap THEN u ELSE cap
  OBVIOUS
<1>7. Min({u, cap}) = e
  BY <1>6, MinPair
<1>8. e = IF z <= cap THEN z ELSE cap
  BY <1>4, <1>5, <1>6
<1>9. b = [a EXCEPT !.exponent_value = e]
  BY <1>3, <1>5, <1>7 DEF ExponentPushed
<1>10. w = [v EXCEPT !.exponent_value = z]
  BY <1>3, <1>5 DEF ExponentRead
<1>13. b \in Accumulators(L) /\ w \in Readings /\ b.exponent_value = e /\ w.exponent_value = z
  BY <1>1, <1>9, <1>10 DEF Accumulators, Readings, Agrees
<1>14. /\ b.negative = a.negative /\ b.fraction = a.fraction
       /\ b.exponent = a.exponent /\ b.exponent_negative = a.exponent_negative
       /\ b.fraction_digits = a.fraction_digits
       /\ b.core_digits = a.core_digits /\ b.pending_zeros = a.pending_zeros /\ b.core_mod = a.core_mod
       /\ b.finished = a.finished
  BY <1>1, <1>9 DEF Accumulators
<1>15. /\ w.negative = v.negative /\ w.mantissa = v.mantissa /\ w.fraction = v.fraction /\ w.exponent = v.exponent
       /\ w.exponent_negative = v.exponent_negative /\ w.fraction_digits = v.fraction_digits
  BY <1>10 DEF Readings, Agrees
<1>16. CoreOf(b, core, w.mantissa, m)
  BY <1>2, <1>14, <1>15 DEF CoreOf
<1>17. Agrees(b, w, m)
  BY <1>3, <1>8, <1>13, <1>14, <1>15, <1>16 DEF Agrees
<1>. QED BY <1>17

(* u is x with the digit d behind it.                                       *)
Appended(u, x, d) == u = x * 10 + d

Remainder(r, x, m) == r = x % m

LEMMA ModAppend ==
    ASSUME NEW m \in Nat \ {0}, NEW x \in Nat, NEW d \in Nat, NEW r, Remainder(r, x, m),
           NEW u, Appended(u, r, d), NEW w, Appended(w, x, d)
    PROVE  u % m = w % m
<1>1. r = x % m /\ r \in Nat
  BY ModDivision DEF Remainder
<1>2. PICK y \in Nat, z \in Nat : y = r * 10 /\ z = x * 10
  BY <1>1
<1>3. y % m = z % m
  BY <1>1, <1>2, ModTimes
<1>4. ((y % m) + d) % m = (y + d) % m
  BY ModPlus
<1>5. ((z % m) + d) % m = (z + d) % m
  BY ModPlus
<1>. QED BY <1>2, <1>3, <1>4, <1>5 DEF Appended

(* The fields of an accumulator after a digit that is not zero.             *)
NonZeroPushed(b, a, digit, m) == b = PushCoreDigit(FlushPendingZeros(a, m), digit, m)

(* A non-zero digit: the zeros held back become digits of the core.         *)
LEMMA NonZeroDigit ==
    ASSUME NEW L, NEW a \in Accumulators(L), NEW m \in Nat \ {0}, NEW core, NEW mantissa \in Nat,
           CoreOf(a, core, mantissa, m), NEW digit \in 1 .. 9,
           NEW b, NonZeroPushed(b, a, digit, m), NEW n, Appended(n, mantissa, digit)
    PROVE  /\ \E K : b \in Accumulators(K)
           /\ CoreOf(b, n, n, m)
           /\ b.negative = a.negative /\ b.fraction = a.fraction
           /\ b.exponent = a.exponent /\ b.exponent_negative = a.exponent_negative
           /\ b.fraction_digits = a.fraction_digits /\ b.exponent_value = a.exponent_value
           /\ b.finished = a.finished
<1>1. PICK f : f = FlushPendingZeros(a, m)
  OBVIOUS
<1>2. PICK K : f \in Accumulators(K)
  BY <1>1, FlushZeros
<1>3. /\ f.core_digits = a.core_digits + a.pending_zeros /\ f.pending_zeros = 0
      /\ f.core_mod = IF m > 1 THEN (a.core_mod * Power(10, a.pending_zeros)) % m ELSE a.core_mod
      /\ f.negative = a.negative /\ f.fraction = a.fraction
      /\ f.exponent = a.exponent /\ f.exponent_negative = a.exponent_negative
      /\ f.fraction_digits = a.fraction_digits /\ f.exponent_value = a.exponent_value
      /\ f.finished = a.finished
  BY <1>1, FlushZeros
<1>4. b = PushCoreDigit(f, digit, m)
  BY <1>1 DEF NonZeroPushed
<1>5. digit \in 0 .. 9
  OBVIOUS
<1>6. /\ \E J : b \in Accumulators(J)
      /\ b.core_digits = f.core_digits + 1
      /\ b.pending_zeros = f.pending_zeros
      /\ b.core_mod = IF m > 1 THEN (f.core_mod * 10 + digit) % m ELSE f.core_mod
      /\ b.negative = f.negative /\ b.fraction = f.fraction
      /\ b.exponent = f.exponent /\ b.exponent_negative = f.exponent_negative
      /\ b.fraction_digits = f.fraction_digits /\ b.exponent_value = f.exponent_value
      /\ b.finished = f.finished
  <2>1. PICK c : c = PushCoreDigit(f, digit, m)
    OBVIOUS
  <2>2. /\ \E J : c \in Accumulators(J)
        /\ c.core_digits = f.core_digits + 1
        /\ c.pending_zeros = f.pending_zeros
        /\ c.core_mod = IF m > 1 THEN (f.core_mod * 10 + digit) % m ELSE f.core_mod
        /\ c.negative = f.negative /\ c.fraction = f.fraction
        /\ c.exponent = f.exponent /\ c.exponent_negative = f.exponent_negative
        /\ c.fraction_digits = f.fraction_digits /\ c.exponent_value = f.exponent_value
        /\ c.finished = f.finished
    BY <1>2, <1>5, <2>1, CoreDigit
  <2>3. b = c
    BY <1>4, <2>1
  <2>. QED BY <2>2, <2>3
<1>7. n \in Nat \ {0} /\ n = 10 * mantissa + digit
  BY DEF Appended
<1>8. n % 10 = digit
  <2>1. Splits(n, mantissa, 10, digit)
    BY <1>7 DEF Splits
  <2>2. digit \in 0 .. 10 - 1
    OBVIOUS
  <2>. QED BY <2>1, <2>2, ModUnique
<1>9. n = n * Power(10, 0)
  <2>1. Power(10, 0) = 1
    BY PowerIs
  <2>. QED BY <1>7, <2>1
<1>10. b.core_digits # 0 /\ b.pending_zeros = 0
  BY <1>3, <1>6 DEF Accumulators
<1>11. ASSUME m > 1 PROVE b.core_mod = n % m
  <2>1. PICK z \in Nat, g \in Nat : z = a.pending_zeros /\ g = a.core_mod
    BY DEF Accumulators
  <2>2. PICK p \in Nat : p = Power(10, z)
    BY PowerIs
  <2>3. core \in Nat /\ mantissa = core * p /\ g = core % m
    BY <1>11, <2>1, <2>2 DEF CoreOf
  <2>4. (g * p) % m = mantissa % m
    BY <2>3, ModTimes
  <2>5. f.core_mod = mantissa % m
    BY <1>3, <1>11, <2>1, <2>2, <2>4
  <2>6. PICK r : Remainder(r, mantissa, m)
    BY DEF Remainder
  <2>7. PICK u : Appended(u, r, digit)
    BY DEF Appended
  <2>9. u % m = n % m
    <3>1. digit \in Nat
      OBVIOUS
    <3>. QED BY <2>6, <2>7, <3>1, ModAppend
  <2>10. u = r * 10 + digit
    BY <2>7 DEF Appended
  <2>11. r = mantissa % m
    BY <2>6 DEF Remainder
  <2>. QED BY <1>6, <1>11, <2>5, <2>9, <2>10, <2>11
<1>12. CoreOf(b, n, n, m)
  <2>1. n \in Nat /\ n # 0 /\ n % 10 # 0
    BY <1>7, <1>8
  <2>. QED BY <1>9, <1>10, <1>11, <2>1 DEF CoreOf
<1>. QED BY <1>1, <1>3, <1>4, <1>6, <1>7, <1>12

LEMMA MantissaByte ==
    ASSUME NEW a, NEW v, NEW m \in Nat \ {0}, Agrees(a, v, m), NEW digit \in 0 .. 9, ~a.exponent
    PROVE  \A w : MantissaRead(w, v, digit) => Agrees(PushDigit(a, digit, m), w, m)
<1>0. SUFFICES ASSUME NEW w, MantissaRead(w, v, digit) PROVE Agrees(PushDigit(a, digit, m), w, m)
  OBVIOUS
<1>1. PICK L : a \in Accumulators(L)
  BY DEF Agrees
<1>2. PICK core : CoreOf(a, core, v.mantissa, m)
  BY DEF Agrees
<1>3. PICK x \in Nat, k \in Nat : x = v.mantissa /\ k = v.fraction_digits
  BY DEF Agrees, Readings
<1>4. PICK y \in Nat : y = 10 * x + digit
  OBVIOUS
<1>5. PICK j \in Nat : j = IF a.fraction THEN k + 1 ELSE k
  OBVIOUS
<1>6. w = [v EXCEPT !.mantissa = y, !.fraction_digits = j]
  BY <1>0, <1>3, <1>4, <1>5 DEF Agrees, MantissaRead
<1>8. /\ w \in Readings /\ w.mantissa = y /\ w.fraction_digits = j /\ w.exponent_value = v.exponent_value
      /\ w.negative = v.negative /\ w.fraction = v.fraction
      /\ w.exponent = v.exponent /\ w.exponent_negative = v.exponent_negative
  <2>1. w = [negative |-> v.negative, mantissa |-> y, fraction |-> v.fraction, fraction_digits |-> j, exponent |-> v.exponent,
             exponent_negative |-> v.exponent_negative, exponent_value |-> v.exponent_value]
    BY <1>6 DEF Agrees, Readings
  <2>. QED BY <2>1 DEF Agrees, Readings
<1>9. PICK c : c = [a EXCEPT !.fraction_digits = j]
  OBVIOUS
<1>10. c = [a EXCEPT !.fraction_digits = IF a.fraction THEN @ + 1 ELSE @]
  BY <1>3, <1>5, <1>9 DEF Agrees
<1>11. c \in Accumulators(L) /\ c.fraction_digits = j
  BY <1>1, <1>9 DEF Accumulators
<1>12. /\ c.negative = a.negative /\ c.fraction = a.fraction
       /\ c.exponent = a.exponent /\ c.exponent_negative = a.exponent_negative
       /\ c.exponent_value = a.exponent_value /\ c.core_digits = a.core_digits
       /\ c.pending_zeros = a.pending_zeros /\ c.core_mod = a.core_mod /\ c.finished = a.finished
  BY <1>1, <1>9 DEF Accumulators
<1>13. CoreOf(c, core, x, m)
  BY <1>2, <1>3, <1>12 DEF CoreOf
<1>14. PICK b : b = PushDigit(a, digit, m)
  OBVIOUS
<1>15. CASE digit # 0
  <2>1. NonZeroPushed(b, c, digit, m)
    BY <1>10, <1>14, <1>15 DEF PushDigit, NonZeroPushed
  <2>2. digit \in 1 .. 9 /\ Appended(y, x, digit)
    BY <1>4, <1>15 DEF Appended
  <2>3. /\ \E K : b \in Accumulators(K)
        /\ CoreOf(b, y, y, m)
        /\ b.negative = c.negative /\ b.fraction = c.fraction
        /\ b.exponent = c.exponent /\ b.exponent_negative = c.exponent_negative
        /\ b.fraction_digits = c.fraction_digits /\ b.exponent_value = c.exponent_value
        /\ b.finished = c.finished
    BY <1>11, <1>13, <2>1, <2>2, NonZeroDigit
  <2>4. CoreOf(b, y, w.mantissa, m)
    BY <1>4, <1>8, <2>3
  <2>5. Agrees(b, w, m)
    BY <1>8, <1>11, <1>12, <2>3, <2>4 DEF Agrees
  <2>. QED BY <1>14, <2>5
<1>16. CASE digit = 0
  <2>1. PICK z \in Nat : z = a.pending_zeros
    BY <1>1 DEF Accumulators
  <2>2. PICK u \in Nat : u = IF a.core_digits > 0 THEN z + 1 ELSE z
    OBVIOUS
  <2>3. b = [c EXCEPT !.pending_zeros = u]
    BY <1>10, <1>12, <1>14, <1>16, <2>1, <2>2 DEF PushDigit
  <2>4. b \in Accumulators(L) /\ b.pending_zeros = u
    BY <1>11, <2>3 DEF Accumulators
  <2>5. /\ b.negative = c.negative /\ b.fraction = c.fraction /\ b.exponent = c.exponent /\ b.exponent_negative = c.exponent_negative
        /\ b.exponent_value = c.exponent_value /\ b.core_digits = c.core_digits
        /\ b.core_mod = c.core_mod /\ b.finished = c.finished /\ b.fraction_digits = c.fraction_digits
    BY <1>11, <2>3 DEF Accumulators
  <2>6. core \in Nat /\ a.core_digits \in Nat /\ ((a.core_digits = 0) <=> (core = 0))
    BY <1>1, <1>2 DEF CoreOf, Accumulators
  <2>7. y = core * Power(10, u)
    <3>1. PICK p \in Nat : p = Power(10, z)
      BY PowerIs
    <3>2. x = core * p
      BY <1>2, <1>3, <2>1, <3>1 DEF CoreOf
    <3>3. CASE core = 0
      <4>1. u = z
        BY <2>2, <2>6, <3>3
      <4>. QED BY <1>4, <1>16, <3>1, <3>2, <3>3, <4>1
    <3>4. CASE core # 0
      <4>1. u = z + 1
        BY <2>2, <2>6, <3>4
      <4>2. Power(10, z + 1) = 10 * p
        BY <3>1, PowerIs
      <4>3. 10 * (core * p) = core * (10 * p)
        BY <2>6
      <4>. QED BY <1>4, <1>16, <3>2, <4>1, <4>2, <4>3
    <3>. QED BY <3>3, <3>4
  <2>8. CoreOf(b, core, w.mantissa, m)
    BY <1>2, <1>8, <1>12, <2>1, <2>2, <2>4, <2>5, <2>6, <2>7 DEF CoreOf
  <2>9. Agrees(b, w, m)
    BY <1>8, <1>11, <1>12, <2>4, <2>5, <2>8 DEF Agrees
  <2>. QED BY <1>14, <2>9
<1>. QED BY <1>15, <1>16

(* One byte keeps the accumulator in step with the reading.                 *)
LEMMA PushAgrees ==
    ASSUME NEW a, NEW v, NEW m \in Nat \ {0}, Agrees(a, v, m), NEW byte, byte \notin WS
    PROVE  Agrees(PushNumberByte(a, byte, m), ReadByte(v, byte), m)
<1>1. PICK b : b = [a EXCEPT !.started = TRUE, !.bytes = @ + 1]
  OBVIOUS
<1>2. Agrees(b, v, m)
  BY <1>1, Counted
<1>3. PICK L : b \in Accumulators(L)
  BY <1>2 DEF Agrees
<1>4. /\ a.exponent = v.exponent /\ a.exponent \in BOOLEAN /\ ~a.finished /\ b.exponent = a.exponent
      /\ v \in Readings
  BY <1>2 DEF Agrees, Readings
<1>5. PushNumberByte(a, byte, m) =
        CASE byte = "-" /\ ~a.exponent /\ a.core_digits = 0 /\ ~a.fraction -> [b EXCEPT !.negative = TRUE]
          [] byte = "-" /\ a.exponent -> [b EXCEPT !.exponent_negative = TRUE]
          [] byte = "." -> [b EXCEPT !.fraction = TRUE]
          [] byte \in {"e", "E"} -> [b EXCEPT !.exponent = TRUE]
          [] byte \in Digits -> PushDigit(b, DigitOf[byte], m)
          [] OTHER -> b
  BY <1>1, <1>4 DEF PushNumberByte
<1>6. "-" \notin Digits /\ "." \notin Digits /\ "e" \notin Digits /\ "E" \notin Digits
  BY DEF Digits, NonZero
<1>7. CASE byte = "-" /\ a.exponent
  <2>1. PushNumberByte(a, byte, m) = [b EXCEPT !.exponent_negative = TRUE]
    BY <1>5, <1>6, <1>7
  <2>2. ReadByte(v, byte) = [v EXCEPT !.exponent_negative = TRUE]
    BY <1>4, <1>6, <1>7 DEF ReadByte
  <2>. QED
    <3>1. PICK c, w : c = [b EXCEPT !.exponent_negative = TRUE] /\ w = [v EXCEPT !.exponent_negative = TRUE]
      OBVIOUS
    <3>2. c \in Accumulators(L) /\ w \in Readings
      BY <1>3, <1>4, <3>1 DEF Accumulators, Readings
    <3>3. OnlyFlags(b, v, c, w)
      BY <1>2, <1>3, <1>4, <3>1 DEF Accumulators, Readings, Agrees, OnlyFlags
    <3>4. Agrees(c, w, m)
      BY <1>2, <3>2, <3>3, FlagByte
    <3>. QED BY <2>1, <2>2, <3>1, <3>4
<1>8. CASE byte = "."
  <2>1. PushNumberByte(a, byte, m) = [b EXCEPT !.fraction = TRUE]
    BY <1>5, <1>6, <1>8
  <2>2. ReadByte(v, byte) = [v EXCEPT !.fraction = TRUE]
    BY <1>4, <1>6, <1>8 DEF ReadByte
  <2>. QED
    <3>1. PICK c, w : c = [b EXCEPT !.fraction = TRUE] /\ w = [v EXCEPT !.fraction = TRUE]
      OBVIOUS
    <3>2. c \in Accumulators(L) /\ w \in Readings
      BY <1>3, <1>4, <3>1 DEF Accumulators, Readings
    <3>3. OnlyFlags(b, v, c, w)
      BY <1>2, <1>3, <1>4, <3>1 DEF Accumulators, Readings, Agrees, OnlyFlags
    <3>4. Agrees(c, w, m)
      BY <1>2, <3>2, <3>3, FlagByte
    <3>. QED BY <2>1, <2>2, <3>1, <3>4
<1>9. CASE byte \in {"e", "E"}
  <2>1. PushNumberByte(a, byte, m) = [b EXCEPT !.exponent = TRUE]
    BY <1>5, <1>6, <1>9
  <2>2. ReadByte(v, byte) = [v EXCEPT !.exponent = TRUE]
    BY <1>4, <1>6, <1>9 DEF ReadByte
  <2>. QED
    <3>1. PICK c, w : c = [b EXCEPT !.exponent = TRUE] /\ w = [v EXCEPT !.exponent = TRUE]
      OBVIOUS
    <3>2. c \in Accumulators(L) /\ w \in Readings
      BY <1>3, <1>4, <3>1 DEF Accumulators, Readings
    <3>3. OnlyFlags(b, v, c, w)
      BY <1>2, <1>3, <1>4, <3>1 DEF Accumulators, Readings, Agrees, OnlyFlags
    <3>4. Agrees(c, w, m)
      BY <1>2, <3>2, <3>3, FlagByte
    <3>. QED BY <2>1, <2>2, <3>1, <3>4
<1>10. CASE byte \in Digits
  <2>1. PICK d \in 0 .. 9 : d = DigitOf[byte]
    BY <1>10, DigitOfType
  <2>2. PushNumberByte(a, byte, m) = PushDigit(b, d, m)
    BY <1>5, <1>6, <1>10, <2>1
  <2>3. CASE a.exponent
    <3>1. PICK c, w : c = PushDigit(b, d, m) /\ w = ReadByte(v, byte)
      OBVIOUS
    <3>2. ExponentPushed(c, b, d)
      BY <1>4, <2>3, <3>1 DEF PushDigit, ExponentPushed
    <3>3. ExponentRead(w, v, d)
      BY <1>4, <1>6, <1>10, <2>1, <2>3, <3>1 DEF ReadByte, ExponentRead
    <3>4. Agrees(c, w, m)
      BY <1>2, <3>2, <3>3, ExponentByte
    <3>. QED BY <2>2, <3>1, <3>4
  <2>4. CASE ~a.exponent
    <3>1. PICK w : w = ReadByte(v, byte)
      OBVIOUS
    <3>2. MantissaRead(w, v, d)
      BY <1>4, <1>6, <1>10, <2>1, <2>4, <3>1 DEF ReadByte, MantissaRead
    <3>3. ~b.exponent
      BY <1>4, <2>4
    <3>4. Agrees(PushDigit(b, d, m), w, m)
      BY <1>2, <3>2, <3>3, MantissaByte
    <3>. QED BY <2>2, <3>1, <3>4
  <2>. QED BY <1>4, <2>3, <2>4
<1>11. CASE byte = "-" /\ ~a.exponent
  <2>1. (a.core_digits = 0 /\ ~a.fraction) <=> (v.mantissa = 0 /\ ~v.fraction)
    <3>1. PICK core : CoreOf(a, core, v.mantissa, m)
      BY DEF Agrees
    <3>2. PICK z \in Nat : z = a.pending_zeros
      BY DEF Agrees, Accumulators
    <3>3. PICK p \in Nat \ {0} : p = Power(10, z)
      BY PowerPositive
    <3>4. core \in Nat /\ v.mantissa = core * p /\ ((a.core_digits = 0) <=> (core = 0))
      BY <3>1, <3>2, <3>3 DEF CoreOf
    <3>5. (core * p = 0) <=> (core = 0)
      BY <3>4
    <3>. QED BY <3>4, <3>5 DEF Agrees
  <2>2. PICK c, w : c = PushNumberByte(a, byte, m) /\ w = ReadByte(v, byte)
    OBVIOUS
  <2>3. CASE a.core_digits = 0 /\ ~a.fraction
    <3>1. c = [b EXCEPT !.negative = TRUE]
      BY <1>4, <1>5, <1>6, <1>11, <2>2, <2>3
    <3>2. w = [v EXCEPT !.negative = TRUE]
      BY <1>4, <1>6, <1>11, <2>1, <2>2, <2>3 DEF ReadByte
    <3>3. c \in Accumulators(L) /\ w \in Readings
      BY <1>3, <1>4, <3>1, <3>2 DEF Accumulators, Readings
    <3>4. OnlyFlags(b, v, c, w)
      BY <1>2, <1>3, <1>4, <3>1, <3>2 DEF Accumulators, Readings, Agrees, OnlyFlags
    <3>. QED BY <1>2, <2>2, <3>3, <3>4, FlagByte
  <2>4. CASE ~(a.core_digits = 0 /\ ~a.fraction)
    <3>1. c = b
      BY <1>5, <1>6, <1>11, <2>2, <2>4
    <3>2. w = v
      BY <1>4, <1>6, <1>11, <2>1, <2>2, <2>4 DEF ReadByte
    <3>. QED BY <1>2, <2>2, <3>1, <3>2
  <2>. QED BY <2>3, <2>4
<1>12. CASE byte \notin Digits \cup {"-", ".", "e", "E"}
  <2>1. PushNumberByte(a, byte, m) = b
    BY <1>5, <1>12
  <2>2. ReadByte(v, byte) = v
    BY <1>12 DEF ReadByte
  <2>. QED BY <1>2, <2>1, <2>2
<1>. QED BY <1>4, <1>7, <1>8, <1>9, <1>10, <1>11, <1>12

(* The accumulators and the readings of the first bytes of a text without   *)
(* white space.                                                            *)
NumberRun(a, v, text, n, m) ==
    /\ a[0] = NewAccumulator /\ v[0] = NothingRead
    /\ \A i \in 1 .. n : /\ text[i] \notin WS
                         /\ a[i] = PushNumberByte(a[i - 1], text[i], m)
                         /\ v[i] = ReadByte(v[i - 1], text[i])

LEMMA RunAgrees ==
    ASSUME NEW m \in Nat \ {0}, NEW n \in Nat, NEW a, NEW v, NEW text, NumberRun(a, v, text, n, m)
    PROVE  Agrees(a[n], v[n], m)
<1>. DEFINE S == {i \in 0 .. n : Agrees(a[i], v[i], m)}
<1>1. 0 \in S
  <2>1. PICK b, w : b = NewAccumulator /\ w = NothingRead
    OBVIOUS
  <2>2. b \in Accumulators(<<>>) /\ w \in Readings
    BY <2>1 DEF NewAccumulator, Accumulators, NothingRead, Readings
  <2>3. Power(10, 0) = 1
    BY PowerIs
  <2>4. CoreOf(b, 0, w.mantissa, m)
    <3>1. 0 % m = 0
      <4>1. Splits(0, 0, m, 0)
        BY DEF Splits
      <4>. QED BY <4>1, ModUnique
    <3>. QED BY <2>1, <2>3, <3>1 DEF CoreOf, NewAccumulator, NothingRead
  <2>5. Agrees(b, w, m)
    BY <2>1, <2>2, <2>4, NumberAssumption DEF Agrees, NewAccumulator, NothingRead
  <2>. QED BY <2>1, <2>5 DEF NumberRun
<1>2. ASSUME NEW i \in 1 .. n, i - 1 \in S PROVE i \in S
  <2>1. Agrees(a[i - 1], v[i - 1], m) /\ text[i] \notin WS
    BY <1>2 DEF NumberRun
  <2>2. Agrees(PushNumberByte(a[i - 1], text[i], m), ReadByte(v[i - 1], text[i]), m)
    BY <2>1, PushAgrees
  <2>. QED BY <2>2 DEF NumberRun
<1>3. 0 .. n \subseteq S
  <2>. HIDE DEF S
  <2>. QED BY <1>1, <1>2, SetInduction
<1>4. n \in S
  BY <1>3
<1>. QED BY <1>4

----------------------------------------------------------------------------
(* Divisibility.                                                           *)

Divides(d, x) == \E q \in Nat : x = q * d

LEMMA DividesIsMod ==
    ASSUME NEW d \in Nat \ {0}, NEW x \in Nat
    PROVE  (x % d = 0) <=> Divides(d, x)
<1>1. ASSUME x % d = 0 PROVE Divides(d, x)
  <2>1. PICK q \in Nat : x = q * d + (x % d)
    BY ModDivision
  <2>2. q * d \in Nat
    OBVIOUS
  <2>. QED BY <1>1, <2>1, <2>2 DEF Divides
<1>2. ASSUME Divides(d, x) PROVE x % d = 0
  <2>1. PICK q \in Nat : x = q * d
    BY <1>2 DEF Divides
  <2>2. Splits(x, q, d, 0)
    BY <2>1 DEF Splits
  <2>. QED BY <2>2, ModUnique
<1>. QED BY <1>1, <1>2

LEMMA Cancel ==
    ASSUME NEW x \in Nat, NEW y \in Nat, NEW p \in Nat \ {0}
    PROVE  (x * p = y * p) <=> (x = y)
<1>1. ASSUME x * p = y * p, x > y PROVE FALSE
  <2>1. (x - y) * p >= p
    BY <1>1, ProductGrows
  <2>2. (x - y) * p = x * p - y * p
    OBVIOUS
  <2>. QED BY <1>1, <2>1, <2>2
<1>2. ASSUME x * p = y * p, y > x PROVE FALSE
  <2>1. (y - x) * p >= p
    BY <1>2, ProductGrows
  <2>2. (y - x) * p = y * p - x * p
    OBVIOUS
  <2>. QED BY <1>2, <2>1, <2>2
<1>. QED BY <1>1, <1>2

(* mantissa * 10^shift is a whole multiple of coef.                         *)
ScaledMultiple(mantissa, shift, coef) ==
    IF shift >= 0 THEN Divides(coef, mantissa * PowerOfTen(shift))
                  ELSE Divides(coef * PowerOfTen(-shift), mantissa)

LEMMA CoreMultiple ==
    ASSUME NEW core \in Nat, core # 0, core % 10 # 0, NEW z \in Nat, NEW shift \in Int, NEW coef \in Nat \ {0},
           NEW mantissa, mantissa = core * Power(10, z)
    PROVE  ScaledMultiple(mantissa, shift, coef)
             <=> (shift + z >= 0 /\ Divides(coef, core * Power(10, shift + z)))
<1>1. PICK p \in Nat \ {0} : p = Power(10, z)
  BY PowerPositive
<1>2. mantissa \in Nat /\ mantissa = core * p
  BY <1>1
<1>3. CASE shift >= 0
  <2>1. shift \in Nat /\ shift + z \in Nat
    BY <1>3
  <2>2. PICK s \in Nat : s = Power(10, shift)
    BY <2>1, PowerIs
  <2>3. Power(10, shift + z) = s * p
    BY <1>1, <2>1, <2>2, PowerSum
  <2>4. mantissa * s = core * (s * p)
    BY <1>2
  <2>. QED BY <1>3, <2>1, <2>2, <2>3, <2>4 DEF ScaledMultiple, PowerOfTen
<1>4. CASE shift < 0 /\ shift + z >= 0
  <2>1. PICK k \in Nat, j \in Nat : k = -shift /\ j = shift + z
    BY <1>4
  <2>2. PICK s \in Nat \ {0} : s = Power(10, k)
    BY PowerPositive
  <2>3. PICK t \in Nat : t = Power(10, j)
    BY PowerIs
  <2>4. p = t * s
    <3>1. z = j + k
      BY <2>1
    <3>. QED BY <1>1, <2>2, <2>3, <3>1, PowerSum
  <2>5. PICK x \in Nat, c \in Nat : x = core * t /\ c = coef * s
    OBVIOUS
  <2>6. mantissa = x * s
    BY <1>2, <2>4, <2>5
  <2>7. ASSUME NEW q \in Nat PROVE (mantissa = q * c) <=> (x = q * coef)
    <3>1. PICK y \in Nat : y = q * coef
      OBVIOUS
    <3>2. q * c = y * s
      BY <2>5, <3>1
    <3>3. (x * s = y * s) <=> (x = y)
      BY Cancel
    <3>. QED BY <2>6, <3>1, <3>2, <3>3
  <2>8. Divides(c, mantissa) <=> Divides(coef, x)
    BY <2>7 DEF Divides
  <2>9. ScaledMultiple(mantissa, shift, coef) <=> Divides(c, mantissa)
    BY <1>4, <2>1, <2>2, <2>5 DEF ScaledMultiple, PowerOfTen
  <2>. QED BY <1>4, <2>1, <2>3, <2>5, <2>8, <2>9
<1>5. CASE shift + z < 0
  <2>1. PICK k \in Nat, j \in Nat : k = -shift /\ j = (k - z) - 1
    BY <1>5
  <2>2. PICK s \in Nat : s = Power(10, j)
    BY PowerIs
  <2>3. Power(10, k) = p * (10 * s)
    <3>1. Power(10, j + 1) = 10 * s
      BY <2>2, PowerIs
    <3>2. j + 1 \in Nat /\ k = z + (j + 1)
      BY <2>1
    <3>3. Power(10, z + (j + 1)) = Power(10, z) * Power(10, j + 1)
      BY <3>2, PowerSum
    <3>. QED BY <1>1, <3>1, <3>2, <3>3
  <2>4. PICK c \in Nat : c = coef * (p * (10 * s))
    OBVIOUS
  <2>5. ScaledMultiple(mantissa, shift, coef) <=> Divides(c, mantissa)
    BY <1>5, <2>1, <2>3, <2>4 DEF ScaledMultiple, PowerOfTen
  <2>6. ASSUME Divides(c, mantissa) PROVE FALSE
    <3>1. PICK q \in Nat : mantissa = q * c
      BY <2>6 DEF Divides
    <3>2. PICK u \in Nat : u = (q * coef) * s
      OBVIOUS
    <3>3. q * c = (u * 10) * p
      BY <2>4, <3>2
    <3>4. PICK y \in Nat : y = u * 10
      OBVIOUS
    <3>5. core * p = y * p
      BY <1>2, <3>1, <3>3, <3>4
    <3>6. core = y
      BY <3>5, Cancel
    <3>7. Splits(core, u, 10, 0)
      BY <3>4, <3>6 DEF Splits
    <3>8. core % 10 = 0
      BY <3>7, ModUnique
    <3>. QED BY <3>8
  <2>. QED BY <1>5, <2>5, <2>6
<1>. QED BY <1>3, <1>4, <1>5

(* The power of ten of the last digit before the exponent.                  *)
DecimalShift(v) ==
    (IF v.exponent_negative THEN -v.exponent_value ELSE v.exponent_value) - v.fraction_digits

LEMMA AgreedShift ==
    ASSUME NEW a, NEW v, NEW m, Agrees(a, v, m), v.exponent_value <= ExponentCap
    PROVE  DecimalShift(v) \in Int /\ ValueShift(a) = DecimalShift(v) + a.pending_zeros
<1>1. PICK L : a \in Accumulators(L)
  BY DEF Agrees
<1>2. PICK e \in Nat, k \in Nat, z \in Nat :
        /\ e = v.exponent_value /\ k = v.fraction_digits /\ z = a.pending_zeros
        /\ a.exponent_value = e /\ a.fraction_digits = k
  BY <1>1 DEF Agrees, Accumulators, Readings
<1>3. a.exponent_negative = v.exponent_negative
  BY DEF Agrees
<1>. QED BY <1>2, <1>3 DEF DecimalShift, ValueShift

LEMMA CoreTest ==
    ASSUME NEW m \in Nat, m > 1, NEW core \in Nat, NEW g, g = core % m, NEW s \in Nat
    PROVE  ((g * ModularPowerOfTen(s, m)) % m = 0) <=> Divides(m, core * Power(10, s))
<1>1. m \in Nat \ {0}
  OBVIOUS
<1>2. g \in Nat
  BY <1>1, ModDivision
<1>3. PICK p \in Nat : p = Power(10, s)
  BY PowerIs
<1>4. ModularPowerOfTen(s, m) = p % m
  BY <1>1, <1>3, ModularPowerIs DEF PowerOfTen
<1>5. (g * (p % m)) % m = (g * p) % m
  BY <1>1, <1>2, ModTimesRight
<1>6. (g * p) % m = (core * p) % m
  BY <1>1, ModTimes
<1>7. PICK x \in Nat : x = core * p
  OBVIOUS
<1>8. (x % m = 0) <=> Divides(m, x)
  BY <1>1, DividesIsMod
<1>. QED BY <1>3, <1>4, <1>5, <1>6, <1>7, <1>8

LEMMA MultipleTest ==
    ASSUME NEW a, NEW v, NEW m \in Nat \ {0}, Agrees(a, v, m), NEW shift \in Int, NEW c \in {1, m},
           NEW multiple, multiple.coef = c
    PROVE  NumberIsMultipleShift(a, multiple, shift + a.pending_zeros) <=> ScaledMultiple(v.mantissa, shift, c)
<1>1. PICK L : a \in Accumulators(L)
  BY DEF Agrees
<1>2. PICK core \in Nat : CoreOf(a, core, v.mantissa, m)
  BY DEF Agrees, CoreOf
<1>3. PICK z \in Nat : z = a.pending_zeros
  BY <1>1 DEF Accumulators
<1>4. PICK s \in Int : s = shift + z
  OBVIOUS
<1>5. v.mantissa = core * Power(10, z) /\ (a.core_digits = 0 <=> core = 0)
  BY <1>2, <1>3 DEF CoreOf
<1>6. CASE core = 0
  <2>1. v.mantissa = 0
    <3>1. Power(10, z) \in Nat
      BY PowerIs
    <3>. QED BY <1>5, <1>6, <3>1
  <2>2. ASSUME NEW d \in Nat PROVE Divides(d, 0)
    <3>1. 0 = 0 * d
      OBVIOUS
    <3>. QED BY <3>1 DEF Divides
  <2>3. ScaledMultiple(0, shift, c)
    <3>1. CASE shift >= 0
      <4>1. PICK p \in Nat : p = PowerOfTen(shift)
        BY <3>1, PowerIs DEF PowerOfTen
      <4>2. 0 * p = 0 /\ c \in Nat
        OBVIOUS
      <4>. QED BY <2>2, <3>1, <4>1, <4>2 DEF ScaledMultiple
    <3>2. CASE ~(shift >= 0)
      <4>1. -shift \in Nat
        BY <3>2
      <4>2. PICK p \in Nat : p = PowerOfTen(-shift)
        BY <4>1, PowerIs DEF PowerOfTen
      <4>3. PICK d \in Nat : d = c * p
        OBVIOUS
      <4>. QED BY <2>2, <3>2, <4>2, <4>3 DEF ScaledMultiple
    <3>. QED BY <3>1, <3>2
  <2>4. NumberIsMultipleShift(a, multiple, shift + a.pending_zeros)
    BY <1>5, <1>6 DEF NumberIsMultipleShift
  <2>. QED BY <2>1, <2>3, <2>4
<1>7. CASE core # 0
  <2>1. core % 10 # 0 /\ (m > 1 => a.core_mod = core % m)
    BY <1>2, <1>7 DEF CoreOf
  <2>2. PICK mantissa : mantissa = v.mantissa
    OBVIOUS
  <2>3. c \in Nat \ {0}
    OBVIOUS
  <2>4. ScaledMultiple(mantissa, shift, c) <=> (shift + z >= 0 /\ Divides(c, core * Power(10, shift + z)))
    BY <1>5, <1>7, <2>1, <2>2, <2>3, CoreMultiple
  <2>5. NumberIsMultipleShift(a, multiple, s)
          <=> (s >= 0 /\ (c > 1 => (a.core_mod * ModularPowerOfTen(s, c)) % c = 0))
    BY <1>5, <1>7 DEF NumberIsMultipleShift
  <2>6. ASSUME s >= 0
        PROVE  (c > 1 => (a.core_mod * ModularPowerOfTen(s, c)) % c = 0) <=> Divides(c, core * Power(10, s))
    <3>1. CASE c > 1
      <4>1. c = m /\ m > 1 /\ s \in Nat /\ a.core_mod = core % m
        BY <2>1, <2>6, <3>1
      <4>2. PICK g : g = a.core_mod
        OBVIOUS
      <4>3. ((g * ModularPowerOfTen(s, m)) % m = 0) <=> Divides(m, core * Power(10, s))
        BY <4>1, <4>2, CoreTest
      <4>. QED BY <3>1, <4>1, <4>2, <4>3
    <3>2. CASE ~(c > 1)
      <4>1. c = 1 /\ s \in Nat
        BY <2>3, <2>6, <3>2
      <4>2. PICK p \in Nat : p = Power(10, s)
        BY <4>1, PowerIs
      <4>3. PICK x \in Nat : x = core * p
        OBVIOUS
      <4>4. x = x * 1
        OBVIOUS
      <4>5. Divides(1, x)
        BY <4>4 DEF Divides
      <4>. QED BY <3>2, <4>1, <4>2, <4>3, <4>5
    <3>. QED BY <3>1, <3>2
  <2>. QED BY <1>3, <1>4, <2>2, <2>4, <2>5, <2>6
<1>. QED BY <1>6, <1>7

(* integer and multipleOf are decided exactly: after any text of a number,  *)
(* however many zeros, fraction digits and exponent digits it has, the      *)
(* accumulator - which keeps a residue, a count of digits and the zeros it  *)
(* holds back, never the number - answers multipleOf as the decimal value   *)
(* of the text does, and integer as "a multiple of one" does.  The exponent *)
(* is one that the code's cap does not cut off.                             *)
THEOREM NumberConstraintsExact ==
    ASSUME NEW multiple \in [coef : Nat \ {0}, scale : Nat], NEW n \in Nat, NEW text, NEW a, NEW v,
           NumberRun(a, v, text, n, multiple.coef), v[n].exponent_value <= ExponentCap
    PROVE  /\ NumberIsMultiple(a[n], multiple)
                <=> ScaledMultiple(v[n].mantissa, DecimalShift(v[n]) + multiple.scale, multiple.coef)
           /\ NumberIsInteger(a[n]) <=> ScaledMultiple(v[n].mantissa, DecimalShift(v[n]), 1)
<1>1. PICK m \in Nat \ {0}, k \in Nat : m = multiple.coef /\ k = multiple.scale
  OBVIOUS
<1>2. PICK b, w : b = a[n] /\ w = v[n]
  OBVIOUS
<1>3. Agrees(b, w, m)
  <2>1. Agrees(a[n], v[n], m)
    BY <1>1, RunAgrees
  <2>. QED BY <1>2, <2>1
<1>4. PICK s \in Int : s = DecimalShift(w) /\ ValueShift(b) = s + b.pending_zeros
  BY <1>2, <1>3, AgreedShift
<1>5. PICK z \in Nat : z = b.pending_zeros
  BY <1>3 DEF Agrees, Accumulators
<1>6. NumberIsMultiple(b, multiple) <=> ScaledMultiple(w.mantissa, s + k, m)
  <2>1. PICK t \in Int : t = s + k
    OBVIOUS
  <2>2. NumberIsMultipleShift(b, multiple, t + b.pending_zeros) <=> ScaledMultiple(w.mantissa, t, m)
    BY <1>1, <1>3, MultipleTest
  <2>3. ValueShift(b) + multiple.scale = t + b.pending_zeros
    BY <1>1, <1>4, <1>5, <2>1
  <2>. QED BY <2>1, <2>2, <2>3 DEF NumberIsMultiple
<1>7. NumberIsInteger(b) <=> ScaledMultiple(w.mantissa, s, 1)
  <2>1. PICK one : one = [coef |-> 1, scale |-> 0]
    OBVIOUS
  <2>2. one.coef = 1
    BY <2>1
  <2>3. NumberIsMultipleShift(b, one, s + b.pending_zeros) <=> ScaledMultiple(w.mantissa, s, 1)
    BY <1>3, <2>2, MultipleTest
  <2>4. NumberIsInteger(b) <=> NumberIsMultipleShift(b, one, s + b.pending_zeros)
    BY <1>4, <2>2 DEF NumberIsInteger, NumberIsMultipleShift
  <2>. QED BY <2>3, <2>4
<1>. QED BY <1>1, <1>2, <1>4, <1>6, <1>7

----------------------------------------------------------------------------
(* Decimal digits and the values of their prefixes.                        *)

(* The values of the prefixes of a sequence of digits.                      *)
PrefixValues(P, digits, n) ==
    /\ P \in [0 .. n -> Nat]
    /\ P[0] = 0
    /\ \A i \in 1 .. n : digits[i] \in 0 .. 9 /\ P[i] = 10 * P[i - 1] + digits[i]

(* Comparing digits from the left compares the values.                      *)
LEMMA FirstDiffering ==
    ASSUME NEW n \in Nat, NEW P, NEW Q, NEW d, NEW f, PrefixValues(P, d, n), PrefixValues(Q, f, n),
           NEW j \in 1 .. n, \A i \in 1 .. j - 1 : d[i] = f[i], d[j] < f[j]
    PROVE  P[n] < Q[n]
<1>1. P \in [0 .. n -> Nat] /\ Q \in [0 .. n -> Nat] /\ P[0] = 0 /\ Q[0] = 0
  BY DEF PrefixValues
<1>2. \A i \in 1 .. n : /\ d[i] \in 0 .. 9 /\ P[i] = 10 * P[i - 1] + d[i]
                        /\ f[i] \in 0 .. 9 /\ Q[i] = 10 * Q[i - 1] + f[i]
  BY DEF PrefixValues
<1>3. \A i \in 0 .. n : P[i] \in Nat /\ Q[i] \in Nat
  BY <1>1
<1>. DEFINE S == {i \in 0 .. n : IF i < j THEN P[i] = Q[i] ELSE P[i] < Q[i]}
<1>4. 0 \in S
  BY <1>1
<1>5. ASSUME NEW i \in 1 .. n, i - 1 \in S PROVE i \in S
  <2>1. PICK p \in Nat, q \in Nat, x \in 0 .. 9, y \in 0 .. 9 :
          /\ p = P[i - 1] /\ q = Q[i - 1] /\ x = d[i] /\ y = f[i]
          /\ P[i] = 10 * p + x /\ Q[i] = 10 * q + y
    <3>1. i - 1 \in 0 .. n
      OBVIOUS
    <3>2. P[i - 1] \in Nat /\ Q[i - 1] \in Nat
      BY <1>3, <3>1
    <3>3. /\ d[i] \in 0 .. 9 /\ P[i] = 10 * P[i - 1] + d[i]
          /\ f[i] \in 0 .. 9 /\ Q[i] = 10 * Q[i - 1] + f[i]
      BY <1>2
    <3>. QED BY <3>2, <3>3
  <2>2. CASE i < j
    <3>1. p = q /\ x = y
      BY <1>5, <2>1, <2>2
    <3>. QED BY <2>1, <2>2, <3>1
  <2>3. CASE i = j
    <3>1. p = q /\ x < y
      BY <1>5, <2>1, <2>3
    <3>. QED BY <2>1, <2>3, <3>1
  <2>4. CASE i > j
    <3>1. p < q
      BY <1>5, <2>1, <2>4
    <3>. QED BY <2>1, <2>4, <3>1
  <2>. QED BY <2>2, <2>3, <2>4
<1>6. 0 .. n \subseteq S
  <2>. HIDE DEF S
  <2>. QED BY <1>4, <1>5, SetInduction
<1>7. n \in S
  BY <1>6
<1>. QED BY <1>7

LEMMA SameDigits ==
    ASSUME NEW n \in Nat, NEW P, NEW Q, NEW d, NEW f, PrefixValues(P, d, n), PrefixValues(Q, f, n),
           \A i \in 1 .. n : d[i] = f[i]
    PROVE  P[n] = Q[n]
<1>1. P[0] = 0 /\ Q[0] = 0
  BY DEF PrefixValues
<1>2. \A i \in 1 .. n : P[i] = 10 * P[i - 1] + d[i] /\ Q[i] = 10 * Q[i - 1] + f[i]
  BY DEF PrefixValues
<1>. DEFINE S == {i \in 0 .. n : P[i] = Q[i]}
<1>3. 0 \in S
  BY <1>1
<1>4. ASSUME NEW i \in 1 .. n, i - 1 \in S PROVE i \in S
  BY <1>2, <1>4
<1>5. 0 .. n \subseteq S
  <2>. HIDE DEF S
  <2>. QED BY <1>3, <1>4, SetInduction
<1>6. n \in S
  BY <1>5
<1>. QED BY <1>6

----------------------------------------------------------------------------
(* Division.                                                               *)

LEMMA DivUnique ==
    ASSUME NEW m \in Nat \ {0}, NEW q \in Nat, NEW r \in 0 .. m - 1, NEW x, Splits(x, q, m, r)
    PROVE  x \div m = q
<1>1. x = q * m + r /\ x \in Nat
  <2>1. q * m \in Nat
    OBVIOUS
  <2>. QED BY <2>1 DEF Splits
<1>2. x % m = r
  BY ModUnique
<1>3. x = m * (x \div m) + (x % m) /\ x \div m \in Int
  BY <1>1
<1>4. PICK p \in Int : p = x \div m
  BY <1>3
<1>5. m * p = p * m
  OBVIOUS
<1>6. p * m = q * m
  BY <1>1, <1>2, <1>3, <1>4, <1>5
<1>7. p >= 0
  <2>1. SUFFICES ASSUME p < 0 PROVE FALSE
    OBVIOUS
  <2>2. (-p) * m >= m
    BY <2>1, ProductGrows
  <2>3. (-p) * m = -(p * m)
    OBVIOUS
  <2>4. q * m >= 0
    OBVIOUS
  <2>. QED BY <1>6, <2>2, <2>3, <2>4
<1>8. p = q
  BY <1>6, <1>7, Cancel
<1>. QED BY <1>4, <1>8

LEMMA DivIs ==
    ASSUME NEW x \in Nat, NEW m \in Nat \ {0}
    PROVE  x \div m \in Nat /\ x = (x \div m) * m + (x % m) /\ x % m \in 0 .. m - 1
<1>1. x % m \in 0 .. m - 1
  BY ModDivision
<1>2. PICK q \in Nat : x = q * m + (x % m)
  BY ModDivision
<1>3. PICK r \in 0 .. m - 1 : r = x % m
  BY <1>1
<1>4. Splits(x, q, m, r)
  BY <1>2, <1>3 DEF Splits
<1>5. x \div m = q
  BY <1>4, DivUnique
<1>. QED BY <1>1, <1>2, <1>5

IsProduct(c, a, b) == c = a * b

LEMMA DivDiv ==
    ASSUME NEW x \in Nat, NEW a \in Nat \ {0}, NEW b \in Nat \ {0}, NEW c, IsProduct(c, a, b)
    PROVE  (x \div a) \div b = x \div c
<1>0. c = a * b
  BY DEF IsProduct
<1>1. PICK y \in Nat, r \in 0 .. a - 1 : y = x \div a /\ x = y * a + r
  <2>1. x \div a \in Nat /\ x = (x \div a) * a + (x % a) /\ x % a \in 0 .. a - 1
    BY DivIs
  <2>. QED BY <2>1
<1>2. PICK q \in Nat, t \in 0 .. b - 1 : q = y \div b /\ y = q * b + t
  <2>1. y \div b \in Nat /\ y = (y \div b) * b + (y % b) /\ y % b \in 0 .. b - 1
    BY DivIs
  <2>. QED BY <2>1
<1>3. c \in Nat \ {0}
  BY <1>0
<1>4. PICK ta \in Nat : ta = t * a
  OBVIOUS
<1>5. ta + r \in 0 .. c - 1
  <2>1. (b - 1) * a = c - a
    BY <1>0
  <2>2. t * a <= (b - 1) * a
    OBVIOUS
  <2>. QED BY <1>3, <1>4, <2>1, <2>2
<1>6. x = q * c + (ta + r)
  <2>1. y * a = (q * b) * a + t * a
    <3>1. PICK qb \in Nat : qb = q * b
      OBVIOUS
    <3>2. (qb + t) * a = qb * a + t * a
      OBVIOUS
    <3>. QED BY <1>2, <3>1, <3>2
  <2>2. (q * b) * a = q * c
    BY <1>0
  <2>3. q * c \in Nat
    BY <1>3
  <2>. QED BY <1>1, <1>4, <2>1, <2>2, <2>3
<1>7. PICK s \in 0 .. c - 1 : s = ta + r
  BY <1>5
<1>8. Splits(x, q, c, s)
  BY <1>6, <1>7 DEF Splits
<1>9. x \div c = q
  BY <1>3, <1>8, DivUnique
<1>. QED BY <1>1, <1>2, <1>9

----------------------------------------------------------------------------
(* The decimal digits of a number.                                         *)

LEMMA PowerAbove ==
    ASSUME NEW n \in Nat
    PROVE  n < Power(10, n)
<1>. DEFINE S == {k \in 0 .. n : k < Power(10, k)}
<1>1. 0 \in S
  <2>1. Power(10, 0) = 1
    BY PowerIs
  <2>. QED BY <2>1
<1>2. ASSUME NEW k \in 1 .. n, k - 1 \in S PROVE k \in S
  <2>1. PICK j \in Nat : j = k - 1 /\ k = j + 1
    OBVIOUS
  <2>2. PICK p \in Nat : p = Power(10, j)
    BY PowerIs
  <2>3. Power(10, j + 1) = 10 * p
    BY <2>2, PowerIs
  <2>4. j < p
    BY <1>2, <2>1, <2>2
  <2>. QED BY <2>1, <2>3, <2>4
<1>3. 0 .. n \subseteq S
  <2>. HIDE DEF S
  <2>. QED BY <1>1, <1>2, SetInduction
<1>4. n \in S
  BY <1>3
<1>. QED BY <1>4

LEMMA PowerMonotone ==
    ASSUME NEW j \in Nat, NEW k \in Nat, j <= k
    PROVE  Power(10, j) <= Power(10, k)
<1>1. PICK i \in Nat : k = j + i
  <2>1. k - j \in Nat /\ k = j + (k - j)
    OBVIOUS
  <2>. QED BY <2>1
<1>2. PICK p \in Nat, q \in Nat \ {0} : p = Power(10, j) /\ q = Power(10, i)
  <2>1. Power(10, j) \in Nat
    BY PowerIs
  <2>2. Power(10, i) \in Nat \ {0}
    BY PowerPositive
  <2>. QED BY <2>1, <2>2
<1>3. Power(10, j + i) = p * q
  BY <1>2, PowerSum
<1>4. p * q = q * p /\ q * p >= p
  BY ProductGrows
<1>. QED BY <1>1, <1>2, <1>3, <1>4

(* n is written with k digits; zero with none.                              *)
DigitCount(n, k) ==
    /\ k \in Nat
    /\ n < Power(10, k)
    /\ k # 0 => Power(10, k - 1) <= n

LEMMA DigitCountExists ==
    ASSUME NEW n \in Nat
    PROVE  \E k : DigitCount(n, k)
<1>. DEFINE S == {k \in Nat : n < Power(10, k)}
<1>1. n \in S
  BY PowerAbove
<1>2. PICK k \in S : \A j \in S : k <= j
  <2>1. S \in SUBSET Nat /\ S # {}
    BY <1>1
  <2>. HIDE DEF S
  <2>. QED BY <2>1, LeastNatural
<1>3. ASSUME k # 0 PROVE Power(10, k - 1) <= n
  <2>1. k - 1 \in Nat /\ ~(k <= k - 1)
    BY <1>2, <1>3
  <2>2. Power(10, k - 1) \in Nat
    BY <2>1, PowerIs
  <2>3. ~(n < Power(10, k - 1))
    BY <1>2, <2>1
  <2>. QED BY <2>2, <2>3
<1>. QED BY <1>2, <1>3 DEF DigitCount

LEMMA DigitCountUnique ==
    ASSUME NEW n \in Nat, NEW j, NEW k, DigitCount(n, j), DigitCount(n, k)
    PROVE  j = k
<1>1. ASSUME NEW x \in Nat, NEW y \in Nat, DigitCount(n, x), DigitCount(n, y), x < y PROVE FALSE
  <2>1. y - 1 \in Nat /\ x <= y - 1
    BY <1>1
  <2>2. PICK p \in Nat, q \in Nat : p = Power(10, x) /\ q = Power(10, y - 1)
    BY <2>1, PowerIs
  <2>3. p <= q
    BY <2>1, <2>2, PowerMonotone
  <2>4. n < p /\ q <= n
    BY <1>1, <2>2 DEF DigitCount
  <2>. QED BY <2>2, <2>3, <2>4
<1>2. j \in Nat /\ k \in Nat
  BY DEF DigitCount
<1>3. ~(j < k) /\ ~(k < j)
  BY <1>1, <1>2
<1>. QED BY <1>2, <1>3

(* One digit more, or one less.                                             *)
LEMMA DigitCountStep ==
    ASSUME NEW x \in Nat, NEW d \in 0 .. 9, NEW k, DigitCount(x, k), NEW y, Appended(y, x, d), y # 0
    PROVE  DigitCount(y, k + 1)
<1>1. k \in Nat /\ y = x * 10 + d /\ y \in Nat
  BY DEF DigitCount, Appended
<1>2. PICK p \in Nat \ {0} : p = Power(10, k)
  BY <1>1, PowerPositive
<1>3. Power(10, k + 1) = 10 * p
  BY <1>1, <1>2, PowerIs
<1>4. x < p
  BY <1>2 DEF DigitCount
<1>5. p <= y
  <2>1. CASE k = 0
    <3>1. p = 1
      BY <1>2, <2>1, PowerIs
    <3>. QED BY <1>1, <3>1
  <2>2. CASE k # 0
    <3>1. PICK j \in Nat : j = k - 1 /\ k = j + 1
      BY <1>1, <2>2
    <3>2. PICK q \in Nat : q = Power(10, j)
      BY PowerIs
    <3>3. p = 10 * q
      BY <1>2, <3>1, <3>2, PowerIs
    <3>4. q <= x
      BY <2>2, <3>1, <3>2 DEF DigitCount
    <3>. QED BY <1>1, <3>3, <3>4
  <2>. QED BY <2>1, <2>2
<1>6. k + 1 \in Nat /\ (k + 1) - 1 = k
  BY <1>1
<1>. QED BY <1>1, <1>2, <1>3, <1>4, <1>5, <1>6 DEF DigitCount

(* The digits of n, counted from the left of k places.                      *)
PlacesOf(n, k) == [i \in 1 .. k |-> (n \div Power(10, k - i)) % 10]

LEMMA PlaceIsDigit ==
    ASSUME NEW n \in Nat, NEW j \in Nat
    PROVE  n \div Power(10, j) \in Nat /\ (n \div Power(10, j)) % 10 \in 0 .. 9
<1>1. PICK p \in Nat \ {0} : p = Power(10, j)
  BY PowerPositive
<1>2. PICK q \in Nat : q = n \div p
  BY DivIs
<1>3. q % 10 \in 0 .. 9
  OBVIOUS
<1>. QED BY <1>1, <1>2, <1>3

LEMMA PlaceBelow ==
    ASSUME NEW n \in Nat, NEW j \in Nat
    PROVE  (n \div 10) \div Power(10, j) = n \div Power(10, j + 1)
<1>1. PICK p \in Nat \ {0} : p = Power(10, j)
  BY PowerPositive
<1>2. PICK c : c = 10 * p
  OBVIOUS
<1>3. Power(10, j + 1) = c
  BY <1>1, <1>2, PowerIs
<1>4. PICK ten \in Nat \ {0} : ten = 10
  OBVIOUS
<1>5. IsProduct(c, ten, p)
  BY <1>2, <1>4 DEF IsProduct
<1>6. (n \div ten) \div p = n \div c
  BY <1>5, DivDiv
<1>. QED BY <1>1, <1>3, <1>4, <1>6

LEMMA PlacesAppend ==
    ASSUME NEW n \in Nat, NEW k \in Nat
    PROVE  PlacesOf(n, k + 1) = Append(PlacesOf(n \div 10, k), n % 10)
<1>1. PICK s : s = PlacesOf(n \div 10, k)
  OBVIOUS
<1>2. PICK h \in Nat : h = n \div 10
  OBVIOUS
<1>3. s = [i \in 1 .. k |-> (h \div Power(10, k - i)) % 10]
  BY <1>1, <1>2 DEF PlacesOf
<1>4. \A i \in 1 .. k : (h \div Power(10, k - i)) % 10 \in 0 .. 9
  <2>1. ASSUME NEW i \in 1 .. k PROVE (h \div Power(10, k - i)) % 10 \in 0 .. 9
    <3>1. PICK j \in Nat : j = k - i
      OBVIOUS
    <3>. QED BY <3>1, PlaceIsDigit
  <2>. QED BY <2>1
<1>5. s \in [1 .. k -> 0 .. 9] /\ s \in Seq(0 .. 9) /\ Len(s) = k
  BY <1>3, <1>4
<1>6. \A i \in 1 .. k : s[i] = (n \div Power(10, (k + 1) - i)) % 10
  <2>1. ASSUME NEW i \in 1 .. k PROVE s[i] = (n \div Power(10, (k + 1) - i)) % 10
    <3>1. PICK j \in Nat : j = k - i /\ (k + 1) - i = j + 1
      OBVIOUS
    <3>2. (n \div 10) \div Power(10, j) = n \div Power(10, j + 1)
      BY PlaceBelow
    <3>3. s[i] = (h \div Power(10, j)) % 10
      BY <1>3, <3>1
    <3>. QED BY <1>2, <3>1, <3>2, <3>3
  <2>. QED BY <2>1
<1>7. (n \div Power(10, (k + 1) - (k + 1))) % 10 = n % 10
  <2>1. (k + 1) - (k + 1) = 0
    OBVIOUS
  <2>2. Power(10, 0) = 1
    BY PowerIs
  <2>3. n \div 1 = n
    OBVIOUS
  <2>. QED BY <2>1, <2>2, <2>3
<1>8. PICK t : t = Append(s, n % 10)
  OBVIOUS
<1>9. n % 10 \in 0 .. 9
  OBVIOUS
<1>10. t \in [1 .. k + 1 -> 0 .. 9] /\ (\A i \in 1 .. k : t[i] = s[i]) /\ t[k + 1] = n % 10
  <2>1. PICK e \in 0 .. 9 : e = n % 10
    BY <1>9
  <2>2. t \in Seq(0 .. 9) /\ Len(t) = k + 1
    BY <1>5, <1>8, <2>1
  <2>3. \A i \in 1 .. k : t[i] = s[i]
    BY <1>5, <1>8, <2>1
  <2>4. t[k + 1] = e
    BY <1>5, <1>8, <2>1
  <2>. QED BY <2>1, <2>2, <2>3, <2>4
<1>11. PICK u : u = PlacesOf(n, k + 1)
  OBVIOUS
<1>12. u = [i \in 1 .. k + 1 |-> (n \div Power(10, (k + 1) - i)) % 10]
  BY <1>11 DEF PlacesOf
<1>13. \A i \in 1 .. k + 1 : u[i] = t[i]
  <2>1. \A i \in 1 .. k + 1 : u[i] = (n \div Power(10, (k + 1) - i)) % 10
    BY <1>12
  <2>2. \A i \in 1 .. k + 1 : i \in 1 .. k \/ i = k + 1
    OBVIOUS
  <2>. QED BY <1>6, <1>7, <1>10, <2>1, <2>2
<1>14. t = [i \in 1 .. k + 1 |-> t[i]]
  BY <1>10
<1>15. u = [i \in 1 .. k + 1 |-> u[i]]
  BY <1>12
<1>16. u = t
  BY <1>13, <1>14, <1>15
<1>. QED BY <1>1, <1>8, <1>11, <1>16

LEMMA DigitCountBelow ==
    ASSUME NEW n \in Nat \ {0}, NEW j, DigitCount(n \div 10, j)
    PROVE  DigitCount(n, j + 1)
<1>1. PICK x \in Nat, d \in 0 .. 9 : x = n \div 10 /\ d = n % 10 /\ n = x * 10 + d
  OBVIOUS
<1>2. Appended(n, x, d)
  BY <1>1 DEF Appended
<1>. QED BY <1>1, <1>2, DigitCountStep

LEMMA ZeroDigits ==
    ASSUME NEW k, DigitCount(0, k)
    PROVE  k = 0
<1>1. DigitCount(0, 0)
  <2>1. Power(10, 0) = 1
    BY PowerIs
  <2>. QED BY <2>1 DEF DigitCount
<1>. QED BY <1>1, DigitCountUnique

(* u128_decimal_digits gives the digits of its argument.                    *)
LEMMA DecimalDigitsAre ==
    ASSUME NEW n \in Nat, NEW k, DigitCount(n, k)
    PROVE  DecimalDigits[n] = PlacesOf(n, k)
<1>. DEFINE Count(x) == CHOOSE j : DigitCount(x, j)
            h == [x \in Nat |-> PlacesOf(x, Count(x))]
            Eq(f) == f = [x \in Nat |-> IF x = 0 THEN <<>> ELSE Append(f[x \div 10], x % 10)]
<1>1. ASSUME NEW x \in Nat PROVE DigitCount(x, Count(x))
  BY DigitCountExists, Zenon
<1>2. ASSUME NEW x \in Nat, NEW j, DigitCount(x, j) PROVE Count(x) = j
  BY <1>1, <1>2, DigitCountUnique
<1>. HIDE DEF Count
<1>3. ASSUME NEW x \in Nat PROVE h[x] = IF x = 0 THEN <<>> ELSE Append(h[x \div 10], x % 10)
  <2>1. h[x] = PlacesOf(x, Count(x))
    OBVIOUS
  <2>2. CASE x = 0
    <3>1. Count(0) = 0
      BY <1>1, ZeroDigits
    <3>2. PlacesOf(0, 0) = <<>>
      BY DEF PlacesOf
    <3>. QED BY <2>1, <2>2, <3>1, <3>2
  <2>3. CASE x # 0
    <3>1. PICK y \in Nat : y = x \div 10
      OBVIOUS
    <3>2. PICK j : j = Count(y) /\ DigitCount(y, j)
      BY <1>1
    <3>3. j \in Nat /\ DigitCount(x, j + 1)
      <4>1. x \in Nat \ {0}
        BY <2>3
      <4>2. DigitCount(x \div 10, j)
        BY <3>1, <3>2
      <4>3. DigitCount(x, j + 1)
        BY <4>1, <4>2, DigitCountBelow
      <4>. QED BY <3>2, <4>3 DEF DigitCount
    <3>4. Count(x) = j + 1
      BY <1>2, <3>3
    <3>5. PlacesOf(x, j + 1) = Append(PlacesOf(x \div 10, j), x % 10)
      BY <3>3, PlacesAppend
    <3>6. h[y] = PlacesOf(y, j)
      BY <3>2
    <3>. QED BY <2>1, <2>3, <3>1, <3>4, <3>5, <3>6
  <2>. QED BY <2>2, <2>3
<1>4. h = [x \in Nat |-> h[x]]
  OBVIOUS
<1>. HIDE DEF h
<1>5. Eq(h)
  BY <1>3, <1>4
<1>6. DecimalDigits = CHOOSE f : Eq(f)
  BY DEF DecimalDigits
<1>. HIDE DEF Eq
<1>7. Eq(DecimalDigits)
  BY <1>5, <1>6, Zenon
<1>8. PICK g : g = DecimalDigits
  OBVIOUS
<1>9. Eq(g)
  BY <1>7, <1>8, Zenon
<1>10. \A x \in Nat : g[x] = IF x = 0 THEN <<>> ELSE Append(g[x \div 10], x % 10)
  BY <1>9, Zenon DEF Eq
<1>11. g[n] = h[n]
  <2>. DEFINE S == {x \in Nat : g[x] # h[x]}
  <2>1. SUFFICES ASSUME S # {} PROVE FALSE
    OBVIOUS
  <2>2. PICK x \in S : \A y \in S : x <= y
    <3>1. S \in SUBSET Nat
      OBVIOUS
    <3>. HIDE DEF S
    <3>. QED BY <2>1, <3>1, LeastNatural
  <2>3. x \in Nat /\ g[x] # h[x]
    BY <2>2
  <2>4. CASE x = 0
    BY <1>3, <1>10, <2>3, <2>4
  <2>5. CASE x # 0
    <3>1. PICK y \in Nat : y = x \div 10 /\ y < x
      BY <2>3, <2>5
    <3>2. y \notin S
      BY <2>2, <2>3, <3>1
    <3>3. g[y] = h[y]
      BY <3>1, <3>2
    <3>. QED BY <1>3, <1>10, <2>3, <2>5, <3>1, <3>3
  <2>. QED BY <2>4, <2>5
<1>12. h[n] = PlacesOf(n, k)
  BY <1>2 DEF h
<1>. QED BY <1>8, <1>11, <1>12

LEMMA PrefixesOfPlaces ==
    ASSUME NEW n \in Nat, NEW k, DigitCount(n, k)
    PROVE  \E Q : PrefixValues(Q, PlacesOf(n, k), k) /\ Q[k] = n
<1>1. k \in Nat /\ n < Power(10, k)
  BY DEF DigitCount
<1>. DEFINE Q == [i \in 0 .. k |-> n \div Power(10, k - i)]
<1>2. \A i \in 0 .. k : Q[i] \in Nat
  <2>1. ASSUME NEW i \in 0 .. k PROVE n \div Power(10, k - i) \in Nat
    <3>1. PICK j \in Nat : j = k - i
      BY <1>1
    <3>. QED BY <3>1, PlaceIsDigit
  <2>. QED BY <2>1
<1>3. Q[0] = 0
  <2>1. PICK p \in Nat \ {0} : p = Power(10, k)
    BY <1>1, PowerPositive
  <2>2. n \in 0 .. p - 1
    BY <1>1, <2>1
  <2>3. Splits(n, 0, p, n)
    BY DEF Splits
  <2>4. n \div p = 0
    BY <2>2, <2>3, DivUnique
  <2>5. k - 0 = k /\ 0 \in 0 .. k
    BY <1>1
  <2>. QED BY <2>1, <2>4, <2>5
<1>4. Q[k] = n
  <2>1. Power(10, 0) = 1
    BY PowerIs
  <2>2. k - k = 0 /\ k \in 0 .. k /\ n \div 1 = n
    BY <1>1
  <2>. QED BY <2>1, <2>2
<1>5. ASSUME NEW i \in 1 .. k
      PROVE  PlacesOf(n, k)[i] \in 0 .. 9 /\ Q[i] = 10 * Q[i - 1] + PlacesOf(n, k)[i]
  <2>1. PICK j \in Nat : j = k - i /\ k - (i - 1) = j + 1
    BY <1>1
  <2>2. PICK x \in Nat, d \in 0 .. 9 : x = n \div Power(10, j) /\ d = x % 10
    <3>1. n \div Power(10, j) \in Nat
      BY PlaceIsDigit
    <3>2. PICK x \in Nat : x = n \div Power(10, j)
      BY <3>1
    <3>3. x % 10 \in 0 .. 9
      OBVIOUS
    <3>. QED BY <3>2, <3>3
  <2>3. PICK p \in Nat \ {0}, ten \in Nat \ {0} : p = Power(10, j) /\ ten = 10
    BY PowerPositive
  <2>4. PICK c : IsProduct(c, p, ten)
    BY DEF IsProduct
  <2>5. (n \div p) \div ten = n \div c
    BY <2>4, DivDiv
  <2>6. c = Power(10, j + 1)
    <3>1. Power(10, j + 1) = 10 * p
      BY <2>3, PowerIs
    <3>. QED BY <2>3, <2>4, <3>1 DEF IsProduct
  <2>7. n \div Power(10, j + 1) = x \div 10
    BY <2>2, <2>3, <2>5, <2>6
  <2>8. x = 10 * (x \div 10) + d
    BY <2>2
  <2>9. i \in 0 .. k /\ i - 1 \in 0 .. k
    BY <1>1
  <2>10. Q[i] = x /\ Q[i - 1] = x \div 10
    BY <2>1, <2>2, <2>7, <2>9
  <2>11. PlacesOf(n, k)[i] = d
    BY <2>1, <2>2 DEF PlacesOf
  <2>. QED BY <2>8, <2>10, <2>11
<1>6. Q \in [0 .. k -> Nat]
  BY <1>2
<1>7. PrefixValues(Q, PlacesOf(n, k), k)
  <2>. HIDE DEF Q
  <2>. QED BY <1>3, <1>5, <1>6 DEF PrefixValues
<1>. QED BY <1>4, <1>7

(* Zeros behind the digits.                                                 *)
Padded(digits, n) == [i \in 1 .. n |-> DigitAt(digits, i)]

LEMMA PrefixesOfPadded ==
    ASSUME NEW s \in Seq(0 .. 9), NEW L, L = Len(s), NEW n \in Nat, L <= n, NEW P, PrefixValues(P, s, L)
    PROVE  \E R : PrefixValues(R, Padded(s, n), n) /\ R[n] = P[L] * Power(10, n - L)
<1>1. L \in Nat
  OBVIOUS
<1>2. P \in [0 .. L -> Nat] /\ P[0] = 0 /\ \A i \in 1 .. L : s[i] \in 0 .. 9 /\ P[i] = 10 * P[i - 1] + s[i]
  BY DEF PrefixValues
<1>3. PICK x \in Nat : x = P[L]
  BY <1>1, <1>2
<1>. DEFINE R == [i \in 0 .. n |-> IF i <= L THEN P[i] ELSE x * Power(10, i - L)]
<1>4. \A i \in 0 .. n : R[i] \in Nat
  <2>1. ASSUME NEW i \in 0 .. n PROVE R[i] \in Nat
    <3>1. CASE i <= L
      BY <1>1, <1>2, <3>1
    <3>2. CASE ~(i <= L)
      <4>1. PICK j \in Nat : j = i - L
        BY <1>1, <3>2
      <4>2. PICK p \in Nat : p = Power(10, j)
        BY PowerIs
      <4>3. x * p \in Nat
        OBVIOUS
      <4>. QED BY <3>2, <4>1, <4>2, <4>3
    <3>. QED BY <3>1, <3>2
  <2>. QED BY <2>1
<1>5. ASSUME NEW i \in L .. n PROVE R[i] = x * Power(10, i - L)
  <2>1. Power(10, 0) = 1 /\ L - L = 0
    BY <1>1, PowerIs
  <2>2. i \in 0 .. n
    BY <1>1
  <2>3. x * 1 = x
    OBVIOUS
  <2>4. CASE i = L
    BY <1>1, <1>3, <2>1, <2>2, <2>3, <2>4
  <2>5. CASE i # L
    <3>1. ~(i <= L)
      BY <1>1, <2>5
    <3>. QED BY <2>2, <3>1
  <2>. QED BY <2>4, <2>5
<1>6. R[0] = 0
  BY <1>1, <1>2
<1>7. ASSUME NEW i \in 1 .. n
      PROVE  Padded(s, n)[i] \in 0 .. 9 /\ R[i] = 10 * R[i - 1] + Padded(s, n)[i]
  <2>1. Padded(s, n)[i] = IF i <= L THEN s[i] ELSE 0
    BY DEF Padded, DigitAt
  <2>2. i \in 0 .. n /\ i - 1 \in 0 .. n
    OBVIOUS
  <2>3. CASE i <= L
    <3>1. i \in 1 .. L /\ i - 1 <= L
      BY <1>1, <2>3
    <3>2. R[i] = P[i] /\ R[i - 1] = P[i - 1]
      BY <2>2, <2>3, <3>1
    <3>. QED BY <1>2, <2>1, <2>3, <3>1, <3>2
  <2>4. CASE ~(i <= L)
    <3>1. i - 1 \in L .. n /\ i \in L .. n
      BY <1>1, <2>4
    <3>2. PICK j \in Nat : j = (i - 1) - L /\ i - L = j + 1
      <4>1. PICK l \in Nat : l = L
        BY <1>1
      <4>2. (i - 1) - l \in Nat /\ i - l = ((i - 1) - l) + 1
        BY <2>4, <4>1
      <4>. QED BY <4>1, <4>2
    <3>3. PICK p \in Nat : p = Power(10, j)
      BY PowerIs
    <3>4. Power(10, j + 1) = 10 * p
      BY <3>3, PowerIs
    <3>5. R[i] = x * (10 * p) /\ R[i - 1] = x * p
      BY <1>5, <3>1, <3>2, <3>3, <3>4
    <3>6. x * (10 * p) = 10 * (x * p) + 0
      OBVIOUS
    <3>. QED BY <2>1, <2>4, <3>5, <3>6
  <2>. QED BY <2>3, <2>4
<1>8. R \in [0 .. n -> Nat]
  BY <1>4
<1>9. R[n] = x * Power(10, n - L)
  <2>1. n \in L .. n
    BY <1>1
  <2>. QED BY <1>5, <2>1
<1>10. PrefixValues(R, Padded(s, n), n)
  <2>. HIDE DEF R
  <2>. QED BY <1>6, <1>7, <1>8 DEF PrefixValues
<1>. QED BY <1>3, <1>9, <1>10

----------------------------------------------------------------------------
(* The leading digits an accumulator keeps.                                *)

(* digits are the first of the k digits of x, as many as are kept.          *)
Lead(digits, x, k) ==
    /\ digits \in Seq(0 .. 9)
    /\ k \in Nat
    /\ Len(digits) = IF k <= LeadingDigits THEN k ELSE LeadingDigits
    /\ \E P : /\ PrefixValues(P, digits, Len(digits))
              /\ P[Len(digits)] = x \div Power(10, k - Len(digits))

LEMMA PrefixesAppend ==
    ASSUME NEW s \in Seq(0 .. 9), NEW P, PrefixValues(P, s, Len(s)), NEW d \in 0 .. 9
    PROVE  \E R : PrefixValues(R, Append(s, d), Len(s) + 1) /\ R[Len(s) + 1] = 10 * P[Len(s)] + d
<1>0. PICK t : t = Append(s, d)
  OBVIOUS
<1>1. PICK n \in Nat : n = Len(s)
  OBVIOUS
<1>2. P \in [0 .. n -> Nat] /\ P[0] = 0 /\ \A i \in 1 .. n : s[i] \in 0 .. 9 /\ P[i] = 10 * P[i - 1] + s[i]
  BY <1>1 DEF PrefixValues
<1>3. Len(t) = n + 1 /\ t[n + 1] = d /\ \A i \in 1 .. n : t[i] = s[i]
  BY <1>0, <1>1
<1>4. PICK x \in Nat : x = P[n]
  BY <1>2
<1>. DEFINE R == [i \in 0 .. n + 1 |-> IF i <= n THEN P[i] ELSE 10 * x + d]
<1>5. R \in [0 .. n + 1 -> Nat] /\ R[0] = 0 /\ R[n + 1] = 10 * x + d
  BY <1>2
<1>6. ASSUME NEW i \in 1 .. n + 1 PROVE t[i] \in 0 .. 9 /\ R[i] = 10 * R[i - 1] + t[i]
  <2>1. i \in 0 .. n + 1 /\ i - 1 \in 0 .. n + 1 /\ i - 1 <= n
    OBVIOUS
  <2>2. R[i - 1] = P[i - 1]
    BY <2>1
  <2>3. CASE i <= n
    <3>1. i \in 1 .. n /\ R[i] = P[i]
      BY <2>1, <2>3
    <3>. QED BY <1>2, <1>3, <2>2, <3>1
  <2>4. CASE ~(i <= n)
    <3>1. i = n + 1 /\ i - 1 = n
      BY <2>4
    <3>. QED BY <1>3, <1>4, <1>5, <2>2, <3>1
  <2>. QED BY <2>3, <2>4
<1>7. PrefixValues(R, t, n + 1)
  <2>. HIDE DEF R
  <2>. QED BY <1>5, <1>6 DEF PrefixValues
<1>. QED BY <1>0, <1>1, <1>4, <1>5, <1>7

LEMMA LeadDigit ==
    ASSUME NEW s, NEW x \in Nat, NEW k, Lead(s, x, k), NEW d \in 0 .. 9, NEW y, Appended(y, x, d)
    PROVE  Lead(IF Len(s) < LeadingDigits THEN Append(s, d) ELSE s, y, k + 1)
<1>1. s \in Seq(0 .. 9) /\ k \in Nat /\ Len(s) = IF k <= LeadingDigits THEN k ELSE LeadingDigits
  BY DEF Lead
<1>2. PICK P : PrefixValues(P, s, Len(s)) /\ P[Len(s)] = x \div Power(10, k - Len(s))
  BY DEF Lead
<1>3. PICK n \in Nat, w \in Nat : n = Len(s) /\ w = LeadingDigits /\ n <= w /\ n <= k /\ k - n \in Nat
  BY <1>1, NumberAssumption
<1>4. y = x * 10 + d /\ y \in Nat
  BY DEF Appended
<1>5. CASE n < w
  <2>1. k = n
    BY <1>1, <1>3, <1>5
  <2>2. P[n] = x
    <3>1. k - n = 0 /\ x \div 1 = x
      BY <1>3, <2>1
    <3>2. Power(10, 0) = 1
      BY PowerIs
    <3>. QED BY <1>2, <1>3, <3>1, <3>2
  <2>3. PICK t : t = Append(s, d)
    OBVIOUS
  <2>4. t \in Seq(0 .. 9) /\ Len(t) = n + 1
    BY <1>1, <1>3, <2>3
  <2>5. PICK R : PrefixValues(R, t, Len(t)) /\ R[Len(t)] = 10 * P[Len(s)] + d
    <3>1. \E R : PrefixValues(R, Append(s, d), Len(s) + 1) /\ R[Len(s) + 1] = 10 * P[Len(s)] + d
      BY <1>1, <1>2, PrefixesAppend
    <3>. QED BY <1>3, <2>3, <2>4, <3>1
  <2>6. R[Len(t)] = y
    BY <1>3, <1>4, <2>2, <2>5
  <2>7. y \div Power(10, (k + 1) - Len(t)) = y
    <3>1. (k + 1) - Len(t) = 0 /\ y \div 1 = y
      BY <1>3, <1>4, <2>1, <2>4
    <3>2. Power(10, 0) = 1
      BY PowerIs
    <3>. QED BY <3>1, <3>2
  <2>8. Len(t) = IF k + 1 <= LeadingDigits THEN k + 1 ELSE LeadingDigits
    BY <1>3, <1>5, <2>1, <2>4
  <2>9. Lead(t, y, k + 1)
    <3>1. R[Len(t)] = y \div Power(10, (k + 1) - Len(t))
      BY <2>6, <2>7
    <3>2. k + 1 \in Nat
      BY <1>1
    <3>. QED BY <2>4, <2>5, <2>8, <3>1, <3>2 DEF Lead
  <2>. QED BY <1>3, <1>5, <2>3, <2>9
<1>6. CASE ~(n < w)
  <2>1. n = w /\ ~(k + 1 <= LeadingDigits)
    BY <1>1, <1>3, <1>6
  <2>2. PICK j \in Nat : j = k - n
    BY <1>3
  <2>3. y \div 10 = x
    BY <1>4
  <2>4. (y \div 10) \div Power(10, j) = y \div Power(10, j + 1)
    BY <1>4, PlaceBelow
  <2>5. (k + 1) - n = j + 1
    BY <1>1, <1>3, <2>2
  <2>6. P[Len(s)] = y \div Power(10, (k + 1) - Len(s))
    BY <1>2, <1>3, <2>2, <2>3, <2>4, <2>5
  <2>7. Len(s) = IF k + 1 <= LeadingDigits THEN k + 1 ELSE LeadingDigits
    BY <1>3, <2>1
  <2>8. Lead(s, y, k + 1)
    BY <1>1, <1>2, <2>6, <2>7 DEF Lead
  <2>. QED BY <1>3, <1>6, <2>8
<1>. QED BY <1>5, <1>6

(* w zeros.                                                                 *)
Zeros(w) == [i \in 1 .. w |-> 0]

(* The zeros flush_pending_zeros adds to n leading digits, and x with all   *)
(* of them at its end.                                                      *)
ZeroTail(n, z) == Zeros(Min({LeadingDigits - n, z}))

TimesTen(y, x, z) == y = x * Power(10, z)

LEMMA ZerosAppend ==
    ASSUME NEW s \in Seq(0 .. 9), NEW z \in Nat
    PROVE  /\ s \o Zeros(z + 1) = Append(s \o Zeros(z), 0)
           /\ Len(s \o Zeros(z)) = Len(s) + z
           /\ s \o Zeros(0) = s
<1>1. PICK n \in Nat : n = Len(s)
  OBVIOUS
<1>2. PICK f, g : f = Zeros(z) /\ g = Zeros(z + 1)
  OBVIOUS
<1>3. f \in Seq(0 .. 9) /\ Len(f) = z /\ \A i \in 1 .. z : f[i] = 0
  BY <1>2 DEF Zeros
<1>4. g \in Seq(0 .. 9) /\ Len(g) = z + 1 /\ \A i \in 1 .. z + 1 : g[i] = 0
  BY <1>2 DEF Zeros
<1>5. PICK u, r : u = s \o g /\ r = s \o f
  OBVIOUS
<1>6. u \in Seq(0 .. 9) /\ Len(u) = n + (z + 1)
  <2>1. g \in Seq(0 .. 9) /\ Len(g) = z + 1
    BY <1>4
  <2>2. s \o g \in Seq(0 .. 9) /\ Len(s \o g) = Len(s) + Len(g)
    BY <2>1, ConcatProperties
  <2>. QED BY <1>1, <1>5, <2>1, <2>2
<1>7. r \in Seq(0 .. 9) /\ Len(r) = n + z
  <2>1. f \in Seq(0 .. 9) /\ Len(f) = z
    BY <1>3
  <2>2. s \o f \in Seq(0 .. 9) /\ Len(s \o f) = Len(s) + Len(f)
    BY <2>1, ConcatProperties
  <2>. QED BY <1>1, <1>5, <2>1, <2>2
<1>8. PICK t : t = Append(r, 0)
  OBVIOUS
<1>9. t \in Seq(0 .. 9) /\ Len(t) = n + (z + 1) /\ t[n + (z + 1)] = 0 /\ \A i \in 1 .. n + z : t[i] = r[i]
  BY <1>7, <1>8
<1>10. ASSUME NEW i \in 1 .. n + (z + 1) PROVE u[i] = t[i]
  <2>1. CASE i <= n
    <3>1. u[i] = s[i] /\ r[i] = s[i]
      BY <1>1, <1>3, <1>4, <1>5, <2>1
    <3>. QED BY <1>9, <2>1, <3>1
  <2>2. CASE n < i /\ i <= n + z
    <3>1. i - n \in 1 .. z /\ i \in 1 .. n + z /\ i - n \in 1 .. z + 1
      BY <2>2
    <3>2. u[i] = g[i - n] /\ r[i] = f[i - n]
      BY <1>1, <1>3, <1>4, <1>5, <2>2
    <3>. QED BY <1>3, <1>4, <1>9, <3>1, <3>2
  <2>3. CASE i = n + (z + 1)
    <3>1. u[i] = g[i - n]
      BY <1>1, <1>4, <1>5, <2>3
    <3>. QED BY <1>4, <1>9, <2>3, <3>1
  <2>. QED BY <2>1, <2>2, <2>3
<1>11. u = t
  BY <1>6, <1>9, <1>10
<1>12. Zeros(0) = <<>>
  BY DEF Zeros
<1>13. s \o Zeros(z + 1) = Append(s \o Zeros(z), 0)
  BY <1>2, <1>5, <1>8, <1>11, Zenon
<1>14. Len(s \o Zeros(z)) = Len(s) + z
  BY <1>1, <1>2, <1>5, <1>7
<1>15. s \o Zeros(0) = s
  BY <1>12
<1>. QED BY <1>13, <1>14, <1>15

LEMMA ZeroTailGrows ==
    ASSUME NEW s \in Seq(0 .. 9), NEW z \in Nat, Len(s) <= LeadingDigits
    PROVE  s \o ZeroTail(Len(s), z + 1) = IF Len(s \o ZeroTail(Len(s), z)) < LeadingDigits
                                          THEN Append(s \o ZeroTail(Len(s), z), 0) ELSE s \o ZeroTail(Len(s), z)
<1>1. PICK n \in Nat : n = Len(s) /\ n <= LeadingDigits
  OBVIOUS
<1>2. PICK t : t = s \o ZeroTail(n, z)
  OBVIOUS
<1>3. PICK w \in Nat : w = LeadingDigits - n /\ LeadingDigits = n + w
  <2>1. LeadingDigits - n \in Nat /\ LeadingDigits = n + (LeadingDigits - n)
    BY <1>1, NumberAssumption
  <2>. QED BY <2>1
<1>4. PICK y \in Nat : y = z + 1
  OBVIOUS
<1>5. Min({w, z}) = IF w <= z THEN w ELSE z
  BY MinPair
<1>6. Min({w, y}) = IF w <= y THEN w ELSE y
  BY MinPair
<1>7. ASSUME w <= z PROVE s \o ZeroTail(n, z + 1) = t /\ ~(Len(t) < LeadingDigits)
  <2>1. Min({w, z}) = w /\ Min({w, y}) = w
    BY <1>4, <1>5, <1>6, <1>7
  <2>2. ZeroTail(n, z) = Zeros(w) /\ ZeroTail(n, z + 1) = Zeros(w)
    BY <1>3, <1>4, <2>1 DEF ZeroTail
  <2>3. Len(s \o Zeros(w)) = n + w
    BY <1>1, ZerosAppend
  <2>4. t = s \o Zeros(w) /\ s \o ZeroTail(n, z + 1) = t
    BY <1>2, <2>2
  <2>. QED BY <1>3, <2>3, <2>4
<1>8. ASSUME ~(w <= z) PROVE s \o ZeroTail(n, z + 1) = Append(t, 0) /\ Len(t) < LeadingDigits
  <2>1. Min({w, z}) = z /\ Min({w, y}) = z + 1
    BY <1>4, <1>5, <1>6, <1>8
  <2>2. ZeroTail(n, z) = Zeros(z) /\ ZeroTail(n, z + 1) = Zeros(z + 1)
    BY <1>3, <1>4, <2>1 DEF ZeroTail
  <2>3. Len(s \o Zeros(z)) = n + z /\ s \o Zeros(z + 1) = Append(s \o Zeros(z), 0)
    BY <1>1, ZerosAppend
  <2>4. t = s \o Zeros(z)
    BY <1>2, <2>2
  <2>5. Len(t) < LeadingDigits
    BY <1>3, <1>8, <2>3, <2>4
  <2>6. s \o ZeroTail(n, z + 1) = Append(t, 0)
    BY <2>2, <2>3, <2>4, Zenon
  <2>. QED BY <2>5, <2>6
<1>9. s \o ZeroTail(n, z + 1) = IF Len(t) < LeadingDigits THEN Append(t, 0) ELSE t
  BY <1>7, <1>8, Zenon
<1>. QED BY <1>1, <1>2, <1>9, Zenon

(* A flush keeps the leading digits those of the number with its zeros.     *)
LEMMA LeadZeros ==
    ASSUME NEW s, NEW x \in Nat, NEW k, Lead(s, x, k), NEW z \in Nat, NEW y, TimesTen(y, x, z)
    PROVE  Lead(s \o ZeroTail(Len(s), z), y, k + z)
<1>1. s \in Seq(0 .. 9) /\ k \in Nat /\ Len(s) <= LeadingDigits
  BY NumberAssumption DEF Lead
<1>2. PICK n \in Nat : n = Len(s)
  BY <1>1
<1>. DEFINE S == {i \in 0 .. z : Lead(s \o ZeroTail(n, i), x * Power(10, i), k + i)}
<1>3. 0 \in S
  <2>1. Power(10, 0) = 1
    BY PowerIs
  <2>2. Min({LeadingDigits - n, 0}) = 0
    <3>1. PICK w \in Nat : w = LeadingDigits - n
      BY <1>1, <1>2, NumberAssumption
    <3>2. Min({w, 0}) = IF w <= 0 THEN w ELSE 0
      BY MinPair
    <3>. QED BY <3>1, <3>2
  <2>3. ZeroTail(n, 0) = Zeros(0)
    BY <2>2 DEF ZeroTail, Zeros
  <2>4. s \o ZeroTail(n, 0) = s
    BY <1>1, <2>3, ZerosAppend
  <2>5. x * Power(10, 0) = x /\ k + 0 = k
    BY <1>1, <2>1
  <2>6. Lead(s \o ZeroTail(n, 0), x * Power(10, 0), k + 0)
    BY <2>4, <2>5
  <2>. QED BY <2>6
<1>4. ASSUME NEW i \in 1 .. z, i - 1 \in S PROVE i \in S
  <2>1. PICK j \in Nat : j = i - 1 /\ i = j + 1
    OBVIOUS
  <2>2. PICK t : t = s \o ZeroTail(n, j)
    OBVIOUS
  <2>3. PICK p \in Nat : p = Power(10, j)
    BY PowerIs
  <2>4. PICK u \in Nat : u = x * p
    OBVIOUS
  <2>5. Lead(t, u, k + j)
    BY <1>4, <2>1, <2>2, <2>3, <2>4
  <2>6. PICK o : o = x * Power(10, i)
    OBVIOUS
  <2>7. Appended(o, u, 0)
    <3>1. Power(10, j + 1) = 10 * p
      BY <2>3, PowerIs
    <3>2. x * (10 * p) = (x * p) * 10 + 0
      OBVIOUS
    <3>. QED BY <2>1, <2>4, <2>6, <3>1, <3>2 DEF Appended
  <2>8. Lead(IF Len(t) < LeadingDigits THEN Append(t, 0) ELSE t, o, (k + j) + 1)
    <3>1. 0 \in 0 .. 9
      OBVIOUS
    <3>. QED BY <2>5, <2>7, <3>1, LeadDigit
  <2>9. s \o ZeroTail(n, j + 1) = IF Len(t) < LeadingDigits THEN Append(t, 0) ELSE t
    <3>1. s \o ZeroTail(Len(s), j + 1) = IF Len(s \o ZeroTail(Len(s), j)) < LeadingDigits
                                          THEN Append(s \o ZeroTail(Len(s), j), 0) ELSE s \o ZeroTail(Len(s), j)
      BY <1>1, ZeroTailGrows
    <3>. QED BY <1>2, <2>2, <3>1, Zenon
  <2>10. (k + j) + 1 = k + i
    BY <1>1, <2>1
  <2>11. Lead(s \o ZeroTail(n, i), x * Power(10, i), k + i)
    BY <2>1, <2>6, <2>8, <2>9, <2>10
  <2>. QED BY <2>11
<1>5. 0 .. z \subseteq S
  <2>. HIDE DEF S
  <2>. QED BY <1>3, <1>4, SetInduction
<1>6. z \in S
  BY <1>5
<1>. QED BY <1>2, <1>6 DEF TimesTen

LEMMA DigitCountZeros ==
    ASSUME NEW x \in Nat \ {0}, NEW k, DigitCount(x, k), NEW z \in Nat, NEW y, TimesTen(y, x, z)
    PROVE  DigitCount(y, k + z)
<1>1. PICK p \in Nat \ {0} : p = Power(10, z)
  BY PowerPositive
<1>2. y = x * p
  BY <1>1 DEF TimesTen
<1>3. k \in Nat /\ k # 0
  <2>1. Power(10, 0) = 1
    BY PowerIs
  <2>. QED BY <2>1 DEF DigitCount
<1>4. PICK j \in Nat : k = j + 1 /\ j = k - 1
  BY <1>3
<1>5. PICK q \in Nat : q = Power(10, j)
  BY PowerIs
<1>6. Power(10, k) = 10 * q /\ Power(10, j + z) = q * p
  BY <1>1, <1>4, <1>5, PowerIs, PowerSum
<1>7. Power(10, k + z) = (10 * q) * p
  BY <1>1, <1>3, <1>6, PowerSum
<1>8. q <= x /\ x < 10 * q
  BY <1>3, <1>4, <1>5, <1>6 DEF DigitCount
<1>9. q * p <= x * p /\ x * p < (10 * q) * p
  <2>1. (x - q) * p >= 0 /\ (x - q) * p = x * p - q * p
    BY <1>8
  <2>2. PICK d \in Nat \ {0} : d = 10 * q - x
    <3>1. 10 * q - x \in Nat \ {0}
      BY <1>8
    <3>. QED BY <3>1
  <2>3. d * p >= p /\ d * p = (10 * q) * p - x * p
    BY <2>2, ProductGrows
  <2>. QED BY <2>1, <2>3
<1>10. (k + z) - 1 = j + z /\ k + z \in Nat
  BY <1>3, <1>4
<1>. QED BY <1>2, <1>6, <1>7, <1>9, <1>10 DEF DigitCount

----------------------------------------------------------------------------
(* The leading digits of a text read so far.                               *)

(* The leading digits and the count of digits are those of the mantissa     *)
(* without the zeros it ends in.                                            *)
LeadsWith(a, core, mantissa) ==
    /\ core \in Nat
    /\ TimesTen(mantissa, core, a.pending_zeros)
    /\ core = 0 => a.pending_zeros = 0
    /\ core # 0 => core % 10 # 0
    /\ DigitCount(core, a.core_digits)
    /\ Lead(a.leading, core, a.core_digits)

KeepsLeading(a, v) == \E core : LeadsWith(a, core, v.mantissa)

SameNumber(a, v, b, w) ==
    /\ b.leading = a.leading /\ b.core_digits = a.core_digits /\ b.pending_zeros = a.pending_zeros
    /\ w.mantissa = v.mantissa

LEMMA SameLeads ==
    ASSUME NEW a, NEW v, NEW b, NEW w, KeepsLeading(a, v), SameNumber(a, v, b, w)
    PROVE  KeepsLeading(b, w)
<1>1. PICK core : LeadsWith(a, core, v.mantissa)
  BY DEF KeepsLeading
<1>2. LeadsWith(b, core, w.mantissa)
  BY <1>1 DEF LeadsWith, SameNumber
<1>. QED BY <1>2 DEF KeepsLeading

(* The leading digits once the zeros held back are flushed.                 *)
FlushedLeading(a) == a.leading \o ZeroTail(Len(a.leading), a.pending_zeros)

LEMMA NonZeroFields ==
    ASSUME NEW L, NEW a \in Accumulators(L), NEW m \in Nat \ {0}, NEW digit \in 1 .. 9,
           NEW b, NonZeroPushed(b, a, digit, m)
    PROVE  /\ b.leading = IF Len(FlushedLeading(a)) < LeadingDigits THEN Append(FlushedLeading(a), digit)
                                                                    ELSE FlushedLeading(a)
           /\ b.core_digits = (a.core_digits + a.pending_zeros) + 1
           /\ b.pending_zeros = 0
<1>0. PICK s : s = FlushedLeading(a)
  OBVIOUS
<1>1. PICK f : f = FlushPendingZeros(a, m)
  OBVIOUS
<1>2. PICK K : f \in Accumulators(K)
  BY <1>1, FlushZeros
<1>3. f.core_digits = a.core_digits + a.pending_zeros /\ f.pending_zeros = 0
  BY <1>1, FlushZeros
<1>4. f.leading = s
  <2>1. PICK c, d : f = [a EXCEPT !.leading = s, !.core_digits = c, !.core_mod = d, !.pending_zeros = 0]
    BY <1>0, <1>1 DEF FlushPendingZeros, FlushedLeading, ZeroTail, Zeros
  <2>. QED BY <2>1 DEF Accumulators
<1>5. b = PushCoreDigit(f, digit, m)
  BY <1>1 DEF NonZeroPushed
<1>6. PICK r : r = IF Len(s) < LeadingDigits THEN Append(s, digit) ELSE s
  OBVIOUS
<1>7. PICK d : b = [f EXCEPT !.leading = r, !.core_digits = @ + 1, !.core_mod = d]
  BY <1>4, <1>5, <1>6 DEF PushCoreDigit
<1>8. b.leading = r /\ b.core_digits = f.core_digits + 1 /\ b.pending_zeros = f.pending_zeros
  BY <1>2, <1>7 DEF Accumulators
<1>. QED BY <1>0, <1>3, <1>6, <1>8

(* A non-zero digit makes the mantissa read so far the new core.            *)
LEMMA NonZeroLeads ==
    ASSUME NEW L, NEW a \in Accumulators(L), NEW m \in Nat \ {0}, NEW core, NEW mantissa \in Nat,
           LeadsWith(a, core, mantissa), NEW digit \in 1 .. 9,
           NEW b, NonZeroPushed(b, a, digit, m), NEW n, Appended(n, mantissa, digit)
    PROVE  LeadsWith(b, n, n)
<1>1. PICK s : s = FlushedLeading(a)
  OBVIOUS
<1>2. PICK z \in Nat, k \in Nat : z = a.pending_zeros /\ k = a.core_digits
  BY DEF Accumulators
<1>3. /\ b.leading = IF Len(s) < LeadingDigits THEN Append(s, digit) ELSE s
      /\ b.core_digits = (k + z) + 1
      /\ b.pending_zeros = 0
  BY <1>1, <1>2, NonZeroFields
<1>4. /\ core \in Nat /\ TimesTen(mantissa, core, z) /\ (core = 0 => z = 0)
      /\ DigitCount(core, k) /\ Lead(a.leading, core, k)
  BY <1>2 DEF LeadsWith
<1>5. Lead(s, mantissa, k + z)
  <2>1. PICK l : l = a.leading
    OBVIOUS
  <2>2. Lead(l \o ZeroTail(Len(l), z), mantissa, k + z)
    BY <1>4, <2>1, LeadZeros
  <2>. QED BY <1>1, <1>2, <2>1, <2>2 DEF FlushedLeading
<1>6. DigitCount(mantissa, k + z)
  <2>1. CASE core = 0
    <3>1. Power(10, 0) = 1
      BY PowerIs
    <3>2. z = 0 /\ mantissa = 0 /\ k + z = k
      BY <1>4, <2>1, <3>1 DEF TimesTen
    <3>. QED BY <1>4, <2>1, <3>2
  <2>2. CASE core # 0
    BY <1>4, <2>2, DigitCountZeros
  <2>. QED BY <2>1, <2>2
<1>7. digit \in 0 .. 9 /\ n \in Nat /\ n # 0 /\ n = 10 * mantissa + digit
  BY DEF Appended
<1>8. PICK l : l = b.leading
  OBVIOUS
<1>9. Lead(l, n, (k + z) + 1)
  <2>1. Lead(IF Len(s) < LeadingDigits THEN Append(s, digit) ELSE s, n, (k + z) + 1)
    BY <1>5, <1>7, LeadDigit
  <2>. QED BY <1>3, <1>8, <2>1
<1>10. DigitCount(n, (k + z) + 1)
  BY <1>6, <1>7, DigitCountStep
<1>11. n % 10 # 0
  <2>1. Splits(n, mantissa, 10, digit)
    BY <1>7 DEF Splits
  <2>2. digit \in 0 .. 10 - 1
    OBVIOUS
  <2>3. n % 10 = digit
    BY <2>1, <2>2, ModUnique
  <2>. QED BY <2>3
<1>12. TimesTen(n, n, 0)
  <2>1. Power(10, 0) = 1
    BY PowerIs
  <2>. QED BY <1>7, <2>1 DEF TimesTen
<1>. QED BY <1>3, <1>7, <1>8, <1>9, <1>10, <1>11, <1>12 DEF LeadsWith

(* One more zero held back, or a leading zero that changes nothing.         *)
LEMMA ZeroLeads ==
    ASSUME NEW a, NEW core, NEW mantissa \in Nat, LeadsWith(a, core, mantissa), NEW z \in Nat, z = a.pending_zeros,
           NEW b, b.leading = a.leading, b.core_digits = a.core_digits,
           b.pending_zeros = IF a.core_digits > 0 THEN z + 1 ELSE z, NEW n, Appended(n, mantissa, 0)
    PROVE  LeadsWith(b, core, n)
<1>1. /\ core \in Nat /\ TimesTen(mantissa, core, z) /\ (core = 0 => z = 0) /\ (core # 0 => core % 10 # 0)
      /\ DigitCount(core, a.core_digits) /\ Lead(a.leading, core, a.core_digits)
  BY DEF LeadsWith
<1>2. PICK k \in Nat : k = a.core_digits
  BY <1>1 DEF DigitCount
<1>3. n = mantissa * 10
  BY DEF Appended
<1>4. CASE core = 0
  <2>1. k = 0
    BY <1>1, <1>2, <1>4, ZeroDigits
  <2>2. Power(10, z) \in Nat
    BY PowerIs
  <2>3. n = 0 /\ TimesTen(n, core, z) /\ b.pending_zeros = z
    BY <1>1, <1>2, <1>3, <1>4, <2>1, <2>2 DEF TimesTen
  <2>. QED BY <1>1, <1>4, <2>3 DEF LeadsWith
<1>5. CASE core # 0
  <2>1. k # 0
    <3>1. Power(10, 0) = 1
      BY PowerIs
    <3>. QED BY <1>1, <1>2, <1>5, <3>1 DEF DigitCount
  <2>2. PICK p \in Nat : p = Power(10, z)
    BY PowerIs
  <2>3. Power(10, z + 1) = 10 * p
    BY <2>2, PowerIs
  <2>4. mantissa = core * p /\ (core * p) * 10 = core * (10 * p)
    BY <1>1, <2>2 DEF TimesTen
  <2>5. TimesTen(n, core, z + 1) /\ b.pending_zeros = z + 1
    BY <1>2, <1>3, <2>1, <2>3, <2>4 DEF TimesTen
  <2>. QED BY <1>1, <1>5, <2>5 DEF LeadsWith
<1>. QED BY <1>4, <1>5

LEMMA DigitLeads ==
    ASSUME NEW a, NEW v, NEW m \in Nat \ {0}, Agrees(a, v, m), KeepsLeading(a, v), NEW digit \in 0 .. 9, ~a.exponent,
           NEW w, MantissaRead(w, v, digit)
    PROVE  KeepsLeading(PushDigit(a, digit, m), w)
<1>1. PICK L : a \in Accumulators(L)
  BY DEF Agrees
<1>2. PICK core : LeadsWith(a, core, v.mantissa)
  BY DEF KeepsLeading
<1>3. PICK x \in Nat, k \in Nat : x = v.mantissa /\ k = a.fraction_digits
  BY <1>1 DEF Agrees, Readings, Accumulators
<1>4. PICK y \in Nat : Appended(y, x, digit)
  BY DEF Appended
<1>5. w.mantissa = y
  BY <1>3, <1>4 DEF Agrees, Readings, MantissaRead, Appended
<1>6. PICK j \in Nat : j = IF a.fraction THEN k + 1 ELSE k
  OBVIOUS
<1>7. PICK c : c = [a EXCEPT !.fraction_digits = j]
  OBVIOUS
<1>8. c = [a EXCEPT !.fraction_digits = IF a.fraction THEN @ + 1 ELSE @]
  BY <1>1, <1>3, <1>6, <1>7 DEF Accumulators
<1>9. /\ c \in Accumulators(L) /\ c.leading = a.leading /\ c.core_digits = a.core_digits
      /\ c.pending_zeros = a.pending_zeros
  BY <1>1, <1>7 DEF Accumulators
<1>10. LeadsWith(c, core, x)
  BY <1>2, <1>3, <1>9 DEF LeadsWith
<1>11. PICK b : b = PushDigit(a, digit, m)
  OBVIOUS
<1>12. CASE digit # 0
  <2>1. NonZeroPushed(b, c, digit, m)
    BY <1>8, <1>11, <1>12 DEF PushDigit, NonZeroPushed
  <2>2. digit \in 1 .. 9
    BY <1>12
  <2>3. LeadsWith(b, y, y)
    BY <1>4, <1>9, <1>10, <2>1, <2>2, NonZeroLeads
  <2>. QED BY <1>5, <1>11, <2>3 DEF KeepsLeading
<1>13. CASE digit = 0
  <2>1. PICK z \in Nat : z = c.pending_zeros
    BY <1>9 DEF Accumulators
  <2>2. PICK u \in Nat : u = IF c.core_digits > 0 THEN z + 1 ELSE z
    OBVIOUS
  <2>3. b = [c EXCEPT !.pending_zeros = u]
    BY <1>8, <1>9, <1>11, <1>13, <2>1, <2>2 DEF PushDigit
  <2>4. b.leading = c.leading /\ b.core_digits = c.core_digits /\ b.pending_zeros = u
    BY <1>9, <2>3 DEF Accumulators
  <2>5. LeadsWith(b, core, y)
    BY <1>4, <1>10, <1>13, <2>1, <2>2, <2>4, ZeroLeads
  <2>. QED BY <1>5, <1>11, <2>5 DEF KeepsLeading
<1>. QED BY <1>12, <1>13

(* One byte keeps the leading digits those of the reading.                  *)
LEMMA PushLeads ==
    ASSUME NEW a, NEW v, NEW m \in Nat \ {0}, Agrees(a, v, m), KeepsLeading(a, v), NEW byte, byte \notin WS
    PROVE  KeepsLeading(PushNumberByte(a, byte, m), ReadByte(v, byte))
<1>1. PICK b : b = [a EXCEPT !.started = TRUE, !.bytes = @ + 1]
  OBVIOUS
<1>2. Agrees(b, v, m)
  BY <1>1, Counted
<1>3. PICK L : b \in Accumulators(L)
  BY <1>2 DEF Agrees
<1>4. /\ a.exponent = v.exponent /\ a.exponent \in BOOLEAN /\ ~a.finished /\ b.exponent = a.exponent
      /\ v \in Readings
  BY <1>2 DEF Agrees, Readings
<1>5. b.leading = a.leading /\ b.core_digits = a.core_digits /\ b.pending_zeros = a.pending_zeros
  BY <1>1 DEF Agrees, Accumulators
<1>6. KeepsLeading(b, v)
  BY <1>5, SameLeads DEF SameNumber
<1>7. PushNumberByte(a, byte, m) =
        CASE byte = "-" /\ ~a.exponent /\ a.core_digits = 0 /\ ~a.fraction -> [b EXCEPT !.negative = TRUE]
          [] byte = "-" /\ a.exponent -> [b EXCEPT !.exponent_negative = TRUE]
          [] byte = "." -> [b EXCEPT !.fraction = TRUE]
          [] byte \in {"e", "E"} -> [b EXCEPT !.exponent = TRUE]
          [] byte \in Digits -> PushDigit(b, DigitOf[byte], m)
          [] OTHER -> b
  BY <1>1, <1>4 DEF PushNumberByte
<1>8. "-" \notin Digits /\ "." \notin Digits /\ "e" \notin Digits /\ "E" \notin Digits
  BY DEF Digits, NonZero
<1>9. PICK c, w : c = PushNumberByte(a, byte, m) /\ w = ReadByte(v, byte)
  OBVIOUS
<1>10. CASE byte \in Digits /\ ~a.exponent
  <2>1. PICK d \in 0 .. 9 : d = DigitOf[byte]
    BY <1>10, DigitOfType
  <2>2. c = PushDigit(b, d, m)
    BY <1>7, <1>8, <1>9, <1>10, <2>1
  <2>3. MantissaRead(w, v, d)
    BY <1>4, <1>8, <1>9, <1>10, <2>1 DEF ReadByte, MantissaRead
  <2>4. ~b.exponent
    BY <1>4, <1>10
  <2>5. KeepsLeading(PushDigit(b, d, m), w)
    BY <1>2, <1>6, <2>3, <2>4, DigitLeads
  <2>. QED BY <1>9, <2>2, <2>5
<1>11. CASE ~(byte \in Digits /\ ~a.exponent)
  <2>1. w.mantissa = v.mantissa
    <3>1. CASE w = v
      BY <3>1
    <3>2. CASE w = [v EXCEPT !.exponent_value = 10 * @ + DigitOf[byte]]
      BY <1>4, <3>2 DEF Readings
    <3>3. CASE \/ w = [v EXCEPT !.fraction = TRUE] \/ w = [v EXCEPT !.exponent = TRUE]
               \/ w = [v EXCEPT !.exponent_negative = TRUE] \/ w = [v EXCEPT !.negative = TRUE]
      BY <1>4, <3>3 DEF Readings
    <3>. QED BY <1>4, <1>9, <1>11, <3>1, <3>2, <3>3 DEF ReadByte
  <2>2. b.leading = c.leading /\ b.core_digits = c.core_digits /\ b.pending_zeros = c.pending_zeros
    <3>1. CASE c = b
      BY <3>1
    <3>2. CASE \/ c = [b EXCEPT !.fraction = TRUE] \/ c = [b EXCEPT !.exponent = TRUE]
               \/ c = [b EXCEPT !.exponent_negative = TRUE] \/ c = [b EXCEPT !.negative = TRUE]
      BY <1>3, <3>2 DEF Accumulators
    <3>3. CASE byte \in Digits /\ a.exponent
      <4>1. PICK d : c = [b EXCEPT !.exponent_value = d]
        BY <1>4, <1>7, <1>8, <1>9, <3>3 DEF PushDigit
      <4>. QED BY <1>3, <4>1 DEF Accumulators
    <3>. QED BY <1>4, <1>7, <1>9, <1>11, <3>1, <3>2, <3>3
  <2>3. SameNumber(b, v, c, w)
    BY <2>1, <2>2 DEF SameNumber
  <2>. QED BY <1>6, <1>9, <2>3, SameLeads
<1>. QED BY <1>10, <1>11

LEMMA RunLeads ==
    ASSUME NEW m \in Nat \ {0}, NEW n \in Nat, NEW a, NEW v, NEW text, NumberRun(a, v, text, n, m)
    PROVE  KeepsLeading(a[n], v[n])
<1>. DEFINE S == {i \in 0 .. n : KeepsLeading(a[i], v[i])}
<1>1. 0 \in S
  <2>1. PICK b, w : b = NewAccumulator /\ w = NothingRead
    OBVIOUS
  <2>2. b.leading = <<>> /\ b.core_digits = 0 /\ b.pending_zeros = 0 /\ w.mantissa = 0
    BY <2>1 DEF NewAccumulator, NothingRead
  <2>3. Power(10, 0) = 1
    BY PowerIs
  <2>4. DigitCount(0, 0) /\ TimesTen(0, 0, 0)
    BY <2>3 DEF DigitCount, TimesTen
  <2>5. Lead(<<>>, 0, 0)
    <3>1. PICK P : P = [i \in 0 .. 0 |-> 0]
      OBVIOUS
    <3>2. PrefixValues(P, <<>>, 0)
      BY <3>1 DEF PrefixValues
    <3>3. <<>> \in Seq(0 .. 9) /\ Len(<<>>) = 0
      OBVIOUS
    <3>4. 0 - 0 = 0 /\ 0 \div 1 = 0 /\ P[0] = 0
      BY <3>1
    <3>. QED BY <2>3, <3>2, <3>3, <3>4, NumberAssumption DEF Lead
  <2>6. LeadsWith(b, 0, w.mantissa)
    BY <2>2, <2>4, <2>5 DEF LeadsWith
  <2>. QED BY <2>1, <2>6 DEF NumberRun, KeepsLeading
<1>2. ASSUME NEW i \in 1 .. n, i - 1 \in S PROVE i \in S
  <2>1. PICK j \in 0 .. n : j = i - 1
    OBVIOUS
  <2>2. NumberRun(a, v, text, j, m)
    BY <2>1 DEF NumberRun
  <2>3. Agrees(a[j], v[j], m) /\ KeepsLeading(a[j], v[j]) /\ text[i] \notin WS
    BY <1>2, <2>1, <2>2, RunAgrees DEF NumberRun
  <2>4. KeepsLeading(PushNumberByte(a[j], text[i], m), ReadByte(v[j], text[i]))
    BY <2>3, PushLeads
  <2>. QED BY <2>1, <2>4 DEF NumberRun
<1>3. 0 .. n \subseteq S
  <2>. HIDE DEF S
  <2>. QED BY <1>1, <1>2, SetInduction
<1>4. n \in S
  BY <1>3
<1>. QED BY <1>4

----------------------------------------------------------------------------
(* Comparing digit by digit.                                               *)

LEMMA MaxPair ==
    ASSUME NEW x \in Int, NEW y \in Int
    PROVE  Max({x, y}) = IF x >= y THEN x ELSE y
BY DEF Max

LEMMA LeastOf ==
    ASSUME NEW S \in SUBSET Nat, S # {}
    PROVE  Min(S) \in S /\ \A y \in S : Min(S) <= y
<1>1. PICK n \in S : \A y \in S : n <= y
  BY LeastNatural
<1>2. Min(S) = CHOOSE x \in S : \A y \in S : x <= y
  BY DEF Min
<1>. QED BY <1>1, <1>2

LEMMA GreatestOf ==
    ASSUME NEW n \in Nat, NEW S \in SUBSET (0 .. n), S # {}
    PROVE  Max(S) \in S
<1>1. PICK T : T = {j \in 0 .. n : n - j \in S}
  OBVIOUS
<1>2. T \in SUBSET Nat /\ T # {}
  <2>1. PICK i \in S : TRUE
    OBVIOUS
  <2>2. n - i \in 0 .. n /\ n - (n - i) = i
    OBVIOUS
  <2>. QED BY <1>1, <2>1, <2>2
<1>3. PICK j \in T : \A i \in T : j <= i
  BY <1>2, LeastNatural
<1>4. PICK x \in S : x = n - j
  BY <1>1
<1>5. ASSUME NEW y \in S PROVE x >= y
  <2>1. n - y \in 0 .. n /\ n - (n - y) = y
    OBVIOUS
  <2>2. n - y \in T
    BY <1>1, <2>1
  <2>3. j \in 0 .. n /\ j <= n - y
    BY <1>1, <1>3, <2>2
  <2>. QED BY <1>4, <2>1, <2>3
<1>6. Max(S) = CHOOSE y \in S : \A i \in S : y >= i
  BY DEF Max
<1>. QED BY <1>4, <1>5, <1>6

(* r is the order of x and y.                                               *)
Tells(r, x, y) ==
    \/ r = 1 /\ y < x
    \/ r = 0 /\ x = y
    \/ r = -1 /\ x < y

Differing(s, t, n) == {i \in 1 .. n : DigitAt(s, i) # DigitAt(t, i)}

(* The first digit that differs tells which value is the greater.           *)
LEMMA DigitsTell ==
    ASSUME NEW n \in Nat, NEW s, NEW t, NEW P, NEW Q, PrefixValues(P, Padded(s, n), n), PrefixValues(Q, Padded(t, n), n)
    PROVE  /\ P[n] \in Nat /\ Q[n] \in Nat
           /\ Differing(s, t, n) = {} => P[n] = Q[n]
           /\ Differing(s, t, n) # {} =>
                /\ Tells(Sign(DigitAt(s, Min(Differing(s, t, n))) - DigitAt(t, Min(Differing(s, t, n)))), P[n], Q[n])
                /\ P[n] # Q[n]
<1>1. PICK d, f : d = Padded(s, n) /\ f = Padded(t, n)
  OBVIOUS
<1>2. \A i \in 1 .. n : d[i] = DigitAt(s, i) /\ f[i] = DigitAt(t, i)
  BY <1>1 DEF Padded
<1>3. PrefixValues(P, d, n) /\ PrefixValues(Q, f, n)
  BY <1>1
<1>4. \A i \in 1 .. n : d[i] \in 0 .. 9 /\ f[i] \in 0 .. 9
  BY <1>3 DEF PrefixValues
<1>5. P[n] \in Nat /\ Q[n] \in Nat
  BY <1>3 DEF PrefixValues
<1>6. PICK E : E = Differing(s, t, n)
  OBVIOUS
<1>7. E = {i \in 1 .. n : d[i] # f[i]}
  BY <1>2, <1>6 DEF Differing
<1>8. ASSUME E = {} PROVE P[n] = Q[n]
  <2>1. \A i \in 1 .. n : d[i] = f[i]
    BY <1>7, <1>8
  <2>. QED BY <1>3, <2>1, SameDigits
<1>9. ASSUME E # {} PROVE Tells(Sign(DigitAt(s, Min(E)) - DigitAt(t, Min(E))), P[n], Q[n]) /\ P[n] # Q[n]
  <2>1. E \in SUBSET Nat
    BY <1>7
  <2>2. PICK j \in E : j = Min(E) /\ \A i \in E : j <= i
    BY <1>9, <2>1, LeastOf
  <2>3. j \in 1 .. n /\ d[j] # f[j]
    BY <1>7
  <2>4. ASSUME NEW i \in 1 .. j - 1 PROVE d[i] = f[i]
    <3>1. i \in 1 .. n /\ ~(j <= i)
      BY <2>3
    <3>. QED BY <1>7, <2>2, <3>1
  <2>5. PICK x \in 0 .. 9, y \in 0 .. 9 : x = d[j] /\ y = f[j] /\ x = DigitAt(s, j) /\ y = DigitAt(t, j)
    BY <1>2, <1>4, <2>3
  <2>6. CASE x < y
    <3>1. P[n] < Q[n]
      <4>1. (\A i \in 1 .. j - 1 : d[i] = f[i]) /\ d[j] < f[j]
        BY <2>4, <2>5, <2>6
      <4>. QED BY <1>3, <2>3, <4>1, FirstDiffering
    <3>2. Sign(x - y) = -1
      BY <2>6 DEF Sign
    <3>. QED BY <1>5, <2>2, <2>5, <3>1, <3>2 DEF Tells
  <2>7. CASE y < x
    <3>1. Q[n] < P[n]
      <4>1. (\A i \in 1 .. j - 1 : f[i] = d[i]) /\ f[j] < d[j]
        BY <2>4, <2>5, <2>7
      <4>. QED BY <1>3, <2>3, <4>1, FirstDiffering
    <3>2. Sign(x - y) = 1
      BY <2>7 DEF Sign
    <3>. QED BY <1>5, <2>2, <2>5, <3>1, <3>2 DEF Tells
  <2>. QED BY <2>3, <2>5, <2>6, <2>7
<1>. QED BY <1>5, <1>6, <1>8, <1>9

LEMMA TimesOrder ==
    ASSUME NEW x \in Nat, NEW y \in Nat, NEW p \in Nat \ {0}
    PROVE  /\ x < y => x * p < y * p
           /\ x <= y => x * p <= y * p
<1>1. ASSUME x < y PROVE x * p < y * p
  <2>1. PICK d \in Nat \ {0} : d = y - x
    <3>1. y - x \in Nat \ {0}
      BY <1>1
    <3>. QED BY <3>1
  <2>2. d * p >= p /\ d * p = y * p - x * p
    BY <2>1, ProductGrows
  <2>3. x * p \in Nat /\ y * p \in Nat
    OBVIOUS
  <2>. QED BY <2>2, <2>3
<1>2. ASSUME x = y PROVE x * p <= y * p
  <2>1. x * p \in Nat
    OBVIOUS
  <2>. QED BY <1>2, <2>1
<1>3. x * p \in Nat /\ y * p \in Nat
  OBVIOUS
<1>. QED BY <1>1, <1>2, <1>3

LEMMA ScaledTells ==
    ASSUME NEW r, NEW x \in Nat, NEW y \in Nat, Tells(r, x, y), NEW p \in Nat \ {0}
    PROVE  Tells(r, x * p, y * p)
BY TimesOrder DEF Tells

(* The exponent of the first digit tells which value is the greater.        *)
LEMMA ExponentTells ==
    ASSUME NEW x \in Nat, NEW y \in Nat \ {0}, NEW k, NEW l, DigitCount(x, k), DigitCount(y, l),
           NEW p \in Nat, NEW q \in Nat, k + p < l + q
    PROVE  x * Power(10, p) < y * Power(10, q)
<1>1. k \in Nat /\ l \in Nat /\ l # 0
  <2>1. Power(10, 0) = 1
    BY PowerIs
  <2>. QED BY <2>1 DEF DigitCount
<1>2. PICK j \in Nat : l = j + 1 /\ j = l - 1
  BY <1>1
<1>3. PICK a \in Nat \ {0} : a = Power(10, p)
  BY PowerPositive
<1>4. PICK b \in Nat \ {0} : b = Power(10, q)
  BY PowerPositive
<1>5. PICK c \in Nat : c = Power(10, k)
  BY <1>1, PowerIs
<1>6. PICK d \in Nat : d = Power(10, j)
  BY PowerIs
<1>7. x < c /\ d <= y
  BY <1>1, <1>2, <1>5, <1>6 DEF DigitCount
<1>8. x * a < c * a /\ d * b <= y * b
  BY <1>7, TimesOrder
<1>9. c * a <= d * b
  <2>1. k + p \in Nat /\ j + q \in Nat /\ k + p <= j + q
    BY <1>1, <1>2
  <2>2. Power(10, k + p) <= Power(10, j + q)
    BY <2>1, PowerMonotone
  <2>3. Power(10, k + p) = c * a /\ Power(10, j + q) = d * b
    BY <1>1, <1>3, <1>4, <1>5, <1>6, PowerSum
  <2>. QED BY <2>2, <2>3
<1>10. x * a \in Nat /\ c * a \in Nat /\ d * b \in Nat /\ y * b \in Nat
  OBVIOUS
<1>. QED BY <1>3, <1>4, <1>8, <1>9, <1>10

DigitsOrder(s, t, n, k) ==
    IF Differing(s, t, n) # {}
    THEN Sign(DigitAt(s, Min(Differing(s, t, n))) - DigitAt(t, Min(Differing(s, t, n))))
    ELSE IF k > n THEN 1 ELSE 0

LEMMA PlacesAreDigits ==
    ASSUME NEW n \in Nat, NEW k \in Nat
    PROVE  PlacesOf(n, k) \in Seq(0 .. 9) /\ Len(PlacesOf(n, k)) = k
<1>1. PICK t : t = PlacesOf(n, k)
  OBVIOUS
<1>2. \A i \in 1 .. k : (n \div Power(10, k - i)) % 10 \in 0 .. 9
  <2>1. ASSUME NEW i \in 1 .. k PROVE (n \div Power(10, k - i)) % 10 \in 0 .. 9
    <3>1. PICK j \in Nat : j = k - i
      OBVIOUS
    <3>2. (n \div Power(10, j)) % 10 \in 0 .. 9
      BY PlaceIsDigit
    <3>. QED BY <3>1, <3>2
  <2>. QED BY <2>1
<1>. QED BY <1>1, <1>2 DEF PlacesOf

(* The whole number kept, and the one cut off after the leading digits:     *)
(* what is cut off is not zero, because the core does not end in one.       *)
LEMMA CutTells ==
    ASSUME NEW x \in Nat, x % 10 # 0, NEW c \in Nat \ {0}, NEW h \in Nat, NEW y \in Nat, NEW r,
           h = x \div Power(10, c), Tells(r, h, y)
    PROVE  Tells(IF r = 0 THEN 1 ELSE r, x, y * Power(10, c))
<1>1. PICK d \in Nat \ {0} : d = Power(10, c)
  BY PowerPositive
<1>2. PICK u \in 0 .. d - 1 : x = h * d + u
  <2>1. x = (x \div d) * d + (x % d) /\ x % d \in 0 .. d - 1
    BY DivIs
  <2>. QED BY <1>1, <2>1
<1>3. u # 0
  <2>1. SUFFICES ASSUME u = 0 PROVE FALSE
    OBVIOUS
  <2>2. PICK j \in Nat : c = j + 1
    <3>1. c - 1 \in Nat /\ c = (c - 1) + 1
      OBVIOUS
    <3>. QED BY <3>1
  <2>3. PICK e \in Nat : e = Power(10, j)
    BY PowerIs
  <2>4. d = 10 * e
    BY <1>1, <2>2, <2>3, PowerIs
  <2>5. PICK v \in Nat : v = h * e
    OBVIOUS
  <2>6. x = v * 10 + 0
    <3>1. h * (10 * e) = (h * e) * 10
      OBVIOUS
    <3>. QED BY <1>2, <2>1, <2>4, <2>5, <3>1
  <2>. QED BY <2>6
<1>4. PICK a \in Nat, b \in Nat : a = h * d /\ b = y * d
  OBVIOUS
<1>5. x = a + u
  BY <1>2, <1>4
<1>6. CASE r = 1 /\ y < h
  <2>1. b < a
    BY <1>4, <1>6, TimesOrder
  <2>. QED BY <1>1, <1>4, <1>5, <1>6, <2>1 DEF Tells
<1>7. CASE r = 0 /\ h = y
  BY <1>1, <1>3, <1>4, <1>5, <1>7 DEF Tells
<1>8. CASE r = -1 /\ h < y
  <2>1. PICK g \in Nat : g = h + 1
    OBVIOUS
  <2>2. g * d <= y * d
    BY <1>8, <2>1, TimesOrder
  <2>3. g * d = a + d
    BY <1>4, <2>1
  <2>4. x < b
    <3>1. a + d <= b
      BY <1>4, <2>2, <2>3
    <3>2. u < d
      OBVIOUS
    <3>. QED BY <1>5, <3>1, <3>2
  <2>. QED BY <1>1, <1>4, <1>8, <2>4 DEF Tells
<1>. QED BY <1>6, <1>7, <1>8 DEF Tells

LEMMA SameExponentTells ==
    ASSUME NEW x \in Nat \ {0}, x % 10 # 0, NEW y \in Nat \ {0}, NEW k, NEW l, DigitCount(x, k), DigitCount(y, l),
           l <= LeadingDigits, NEW s, Lead(s, x, k), NEW p \in Nat, NEW q \in Nat, k + p = l + q
    PROVE  Tells(DigitsOrder(s, PlacesOf(y, l), Max({Len(s), l}), k), x * Power(10, p), y * Power(10, q))
<1>1. k \in Nat /\ l \in Nat
  BY DEF DigitCount
<1>2. /\ s \in Seq(0 .. 9) /\ Len(s) \in Nat
      /\ Len(s) = IF k <= LeadingDigits THEN k ELSE LeadingDigits
  BY DEF Lead
<1>3. PICK L \in Nat : L = Len(s)
  BY <1>2
<1>4. PICK P : PrefixValues(P, s, L) /\ P[L] = x \div Power(10, k - L)
  BY <1>3 DEF Lead
<1>5. PICK n \in Nat : n = Max({L, l}) /\ n = IF L >= l THEN L ELSE l
  <2>1. Max({L, l}) = IF L >= l THEN L ELSE l
    BY <1>1, MaxPair
  <2>. QED BY <1>1, <2>1
<1>6. PICK t : t = PlacesOf(y, l)
  OBVIOUS
<1>7. t \in Seq(0 .. 9) /\ Len(t) = l
  BY <1>1, <1>6, PlacesAreDigits
<1>8. PICK Q : PrefixValues(Q, t, l) /\ Q[l] = y
  BY <1>6, PrefixesOfPlaces
<1>9. L <= n /\ l <= n /\ n - L \in Nat /\ n - l \in Nat
  BY <1>1, <1>5
<1>10. PICK R : PrefixValues(R, Padded(s, n), n) /\ R[n] = P[L] * Power(10, n - L)
  BY <1>2, <1>3, <1>4, <1>9, PrefixesOfPadded
<1>11. PICK T : PrefixValues(T, Padded(t, n), n) /\ T[n] = Q[l] * Power(10, n - l)
  BY <1>7, <1>8, <1>9, PrefixesOfPadded
<1>12. PICK E : E = Differing(s, t, n)
  OBVIOUS
<1>13. PICK r : r = IF E # {} THEN Sign(DigitAt(s, Min(E)) - DigitAt(t, Min(E))) ELSE 0
  OBVIOUS
<1>14. PICK g \in Nat, h \in Nat : g = R[n] /\ h = T[n]
  BY <1>10, <1>11, DigitsTell
<1>15. Tells(r, g, h) /\ (E # {} => g # h)
  <2>1. /\ E = {} => g = h
        /\ E # {} => Tells(Sign(DigitAt(s, Min(E)) - DigitAt(t, Min(E))), g, h) /\ g # h
    BY <1>10, <1>11, <1>12, <1>14, DigitsTell
  <2>. QED BY <1>13, <1>14, <2>1 DEF Tells
<1>16. PICK o : o = DigitsOrder(s, t, n, k)
  OBVIOUS
<1>17. o = IF E # {} THEN r ELSE IF k > n THEN 1 ELSE 0
  BY <1>12, <1>13, <1>16 DEF DigitsOrder
<1>18. E = {} <=> r = 0
  BY <1>13, <1>14, <1>15 DEF Tells
<1>19. PICK X, Y : X = x * Power(10, p) /\ Y = y * Power(10, q)
  OBVIOUS
<1>20. CASE k <= LeadingDigits
  <2>1. L = k
    BY <1>2, <1>3, <1>20
  <2>2. P[L] = x
    <3>1. k - L = 0 /\ x \div 1 = x
      BY <1>1, <2>1
    <3>2. Power(10, 0) = 1
      BY PowerIs
    <3>. QED BY <1>4, <3>1, <3>2
  <2>3. o = r
    BY <1>1, <1>5, <1>17, <1>18, <2>1
  <2>4. PICK c \in Nat, i \in Nat, j \in Nat : i = n - L /\ j = n - l /\ p = i + c /\ q = j + c
    <3>1. p - (n - L) \in Nat /\ q - (n - l) = p - (n - L)
      BY <1>1, <1>5, <2>1
    <3>2. p = (n - L) + (p - (n - L)) /\ q = (n - l) + (p - (n - L))
      BY <1>1, <1>5, <2>1, <3>1
    <3>. QED BY <1>9, <3>1, <3>2
  <2>5. PICK d \in Nat \ {0} : d = Power(10, c)
    BY PowerPositive
  <2>6. PICK e \in Nat : e = Power(10, i)
    BY PowerIs
  <2>7. PICK f \in Nat : f = Power(10, j)
    BY PowerIs
  <2>8. Power(10, p) = e * d /\ Power(10, q) = f * d
    BY <2>4, <2>5, <2>6, <2>7, PowerSum
  <2>9. g = x * e /\ h = y * f
    BY <1>8, <1>10, <1>11, <1>14, <2>2, <2>4, <2>6, <2>7
  <2>10. X = g * d /\ Y = h * d
    <3>1. x * (e * d) = (x * e) * d /\ y * (f * d) = (y * f) * d
      OBVIOUS
    <3>. QED BY <1>19, <2>8, <2>9, <3>1
  <2>11. Tells(r, g * d, h * d)
    BY <1>15, ScaledTells
  <2>. QED BY <1>3, <1>5, <1>6, <1>16, <1>19, <2>3, <2>10, <2>11
<1>21. CASE ~(k <= LeadingDigits)
  <2>1. L = LeadingDigits /\ L \in Nat /\ L < k /\ n = L
    BY <1>1, <1>2, <1>3, <1>5, <1>21, NumberAssumption
  <2>2. o = IF r = 0 THEN 1 ELSE r
    BY <1>1, <1>17, <1>18, <2>1
  <2>3. PICK c \in Nat \ {0}, j \in Nat : c = k - L /\ j = n - l /\ q = (j + c) + p
    <3>1. k - L \in Nat \ {0} /\ q = ((n - l) + (k - L)) + p
      BY <1>1, <1>9, <2>1
    <3>. QED BY <1>9, <3>1
  <2>4. g = x \div Power(10, c)
    <3>1. n - L = 0
      BY <2>1
    <3>2. Power(10, 0) = 1
      BY PowerIs
    <3>3. P[L] \in Nat
      BY <1>4 DEF PrefixValues
    <3>4. R[n] = P[L]
      BY <1>10, <3>1, <3>2, <3>3
    <3>. QED BY <1>4, <1>14, <2>3, <3>4
  <2>5. Tells(o, x, h * Power(10, c))
    <3>1. Tells(IF r = 0 THEN 1 ELSE r, x, h * Power(10, c))
      BY <1>15, <2>4, CutTells
    <3>. QED BY <2>2, <3>1
  <2>6. PICK a \in Nat \ {0} : a = Power(10, p)
    BY PowerPositive
  <2>7. PICK d \in Nat : d = Power(10, c)
    BY PowerIs
  <2>8. PICK f \in Nat : f = Power(10, j)
    BY PowerIs
  <2>9. Power(10, q) = (f * d) * a
    <3>1. Power(10, j + c) = f * d
      BY <2>7, <2>8, PowerSum
    <3>2. j + c \in Nat
      OBVIOUS
    <3>. QED BY <2>3, <2>6, <3>1, <3>2, PowerSum
  <2>10. h = y * f
    BY <1>8, <1>11, <1>14, <2>3, <2>8
  <2>11. PICK b \in Nat : b = h * d
    OBVIOUS
  <2>12. X = x * a /\ Y = b * a
    <3>1. y * ((f * d) * a) = ((y * f) * d) * a
      OBVIOUS
    <3>. QED BY <1>19, <2>6, <2>9, <2>10, <2>11, <3>1
  <2>13. Tells(o, x * a, b * a)
    BY <2>5, <2>7, <2>11, ScaledTells
  <2>. QED BY <1>3, <1>5, <1>6, <1>16, <1>19, <2>12, <2>13
<1>. QED BY <1>20, <1>21

LEMMA FewDigits ==
    ASSUME NEW x \in Nat \ {0}, NEW l, DigitCount(x, l), x < Power(10, LeadingDigits)
    PROVE  l <= LeadingDigits
<1>1. l \in Nat /\ LeadingDigits \in Nat
  BY NumberAssumption DEF DigitCount
<1>2. ASSUME LeadingDigits < l PROVE FALSE
  <2>1. PICK j \in Nat : j = l - 1 /\ LeadingDigits <= j
    <3>1. l - 1 \in Nat /\ LeadingDigits <= l - 1
      BY <1>1, <1>2
    <3>. QED BY <3>1
  <2>2. PICK w \in Nat : w = LeadingDigits
    BY <1>1
  <2>3. Power(10, w) <= Power(10, j)
    BY <2>1, <2>2, PowerMonotone
  <2>4. Power(10, w) \in Nat /\ Power(10, j) \in Nat
    BY PowerIs
  <2>5. Power(10, j) <= x
    BY <1>1, <1>2, <2>1 DEF DigitCount
  <2>. QED BY <2>2, <2>3, <2>4, <2>5
<1>. QED BY <1>1, <1>2

(* The zeros stripped from a bound's coefficient.                           *)
LEMMA ZerosStripped ==
    ASSUME NEW c \in Nat \ {0}, NEW scale \in Nat, c < Power(10, LeadingDigits)
    PROVE  LET zeros == Max({k \in 0 .. scale : c % PowerOfTen(k) = 0})
           IN  /\ zeros \in 0 .. scale
               /\ \E b \in Nat \ {0} : /\ b = c \div PowerOfTen(zeros)
                                       /\ TimesTen(c, b, zeros)
                                       /\ b < Power(10, LeadingDigits)
<1>1. PICK S : S = {k \in 0 .. scale : c % PowerOfTen(k) = 0}
  OBVIOUS
<1>2. 0 \in S
  <2>1. PowerOfTen(0) = 1
    BY PowerIs DEF PowerOfTen
  <2>2. c % 1 = 0
    OBVIOUS
  <2>. QED BY <1>1, <2>1, <2>2
<1>3. PICK z \in S : z = Max(S)
  <2>1. S \in SUBSET (0 .. scale) /\ S # {}
    BY <1>1, <1>2
  <2>. QED BY <2>1, GreatestOf
<1>4. z \in 0 .. scale /\ z \in Nat /\ c % PowerOfTen(z) = 0
  BY <1>1
<1>5. PICK p \in Nat \ {0} : p = Power(10, z) /\ p = PowerOfTen(z)
  BY <1>4, PowerPositive DEF PowerOfTen
<1>6. PICK b \in Nat : b = c \div p /\ c = b * p
  <2>1. c \div p \in Nat /\ c = (c \div p) * p + (c % p)
    BY DivIs
  <2>2. c % p = 0
    BY <1>4, <1>5
  <2>3. (c \div p) * p \in Nat
    BY <2>1
  <2>. QED BY <2>1, <2>2, <2>3
<1>7. b # 0
  BY <1>6
<1>8. b <= c
  <2>1. p * b >= b
    BY ProductGrows
  <2>2. p * b = b * p
    OBVIOUS
  <2>. QED BY <1>6, <2>1, <2>2
<1>9. b < Power(10, LeadingDigits)
  <2>1. Power(10, LeadingDigits) \in Nat
    BY NumberAssumption, PowerIs
  <2>. QED BY <1>8, <2>1
<1>10. TimesTen(c, b, z)
  BY <1>5, <1>6 DEF TimesTen
<1>. QED BY <1>1, <1>3, <1>4, <1>5, <1>6, <1>7, <1>9, <1>10

(* The core of a number against the magnitude of a bound, both scaled by    *)
(* 10^shift to whole numbers.                                               *)
LEMMA MagnitudeTells ==
    ASSUME NEW a, NEW core \in Nat \ {0}, NEW mantissa, LeadsWith(a, core, mantissa),
           NEW c \in Nat, c < Power(10, LeadingDigits), NEW scale \in Nat,
           NEW e \in Int, e = ValueShift(a), NEW shift \in Nat, e + shift \in Nat, scale <= shift
    PROVE  Tells(CompareMagnitude(a, c, scale), core * Power(10, e + shift), c * Power(10, shift - scale))
<1>1. PICK p \in Nat, i \in Nat : p = e + shift /\ i = shift - scale
  <2>1. shift - scale \in Nat
    OBVIOUS
  <2>. QED BY <2>1
<1>2. PICK r : r = CompareMagnitude(a, c, scale)
  OBVIOUS
<1>3. PICK X \in Nat : X = core * Power(10, p)
  <2>1. Power(10, p) \in Nat
    BY PowerIs
  <2>. QED BY <2>1
<1>4. PICK zeros : zeros = Max({k \in 0 .. scale : c % PowerOfTen(k) = 0})
  OBVIOUS
<1>5. PICK digits : digits = DecimalDigits[c \div PowerOfTen(zeros)]
  OBVIOUS
<1>6. PICK s, k : s = a.leading /\ k = a.core_digits
  OBVIOUS
<1>7. PICK n : n = Max({Len(s), Len(digits)})
  OBVIOUS
<1>8. PICK exponents : exponents = (k + e - 1) - (Len(digits) - (scale - zeros) - 1)
  OBVIOUS
<1>9. r = CASE c = 0 -> 1
            [] c # 0 /\ exponents # 0 -> Sign(exponents)
            [] c # 0 /\ exponents = 0 -> DigitsOrder(s, digits, n, k)
  <2>1. r = CompareMagnitudeExponents(a, c, digits, exponents)
    BY <1>2, <1>4, <1>5, <1>6, <1>8
       DEF CompareMagnitude, CompareMagnitudeZeros, CompareMagnitudeDigits
  <2>2. r = CompareMagnitudeDiffering(a, c, digits, exponents, n, Differing(s, digits, n))
    BY <1>6, <1>7, <2>1 DEF CompareMagnitudeExponents, Differing
  <2>. QED BY <1>6, <2>2 DEF CompareMagnitudeDiffering, DigitsOrder
<1>10. CASE c = 0
  <2>1. r = 1
    BY <1>9, <1>10
  <2>2. Power(10, p) \in Nat \ {0} /\ Power(10, i) \in Nat
    <3>1. Power(10, p) \in Nat \ {0}
      BY PowerPositive
    <3>2. Power(10, i) \in Nat
      BY PowerIs
    <3>. QED BY <3>1, <3>2
  <2>3. X > 0 /\ c * Power(10, i) = 0
    BY <1>3, <1>10, <2>2
  <2>4. Tells(r, X, c * Power(10, i))
    BY <2>1, <2>3 DEF Tells
  <2>. QED BY <1>1, <1>2, <1>3, <2>4
<1>11. CASE c # 0
  <2>1. zeros \in 0 .. scale /\ \E b \in Nat \ {0} : /\ b = c \div PowerOfTen(zeros)
                                                    /\ TimesTen(c, b, zeros)
                                                    /\ b < Power(10, LeadingDigits)
    BY <1>4, <1>11, ZerosStripped
  <2>2. PICK b \in Nat \ {0} : b = c \div PowerOfTen(zeros) /\ TimesTen(c, b, zeros) /\ b < Power(10, LeadingDigits)
    BY <2>1
  <2>3. PICK l : DigitCount(b, l)
    BY DigitCountExists
  <2>4. l \in Nat /\ l <= LeadingDigits
    BY <2>2, <2>3, FewDigits DEF DigitCount
  <2>5. digits = PlacesOf(b, l) /\ Len(digits) = l
    <3>1. DecimalDigits[b] = PlacesOf(b, l)
      BY <2>3, DecimalDigitsAre
    <3>2. Len(PlacesOf(b, l)) = l
      BY <2>4, PlacesAreDigits
    <3>. QED BY <1>5, <2>2, <3>1, <3>2
  <2>6. k \in Nat /\ DigitCount(core, k) /\ Lead(s, core, k) /\ core % 10 # 0
    BY <1>6 DEF LeadsWith, DigitCount
  <2>7. PICK q \in Nat : q = i + zeros
    BY <2>1
  <2>8. exponents = (k + p) - (l + q) /\ exponents \in Int
    <3>1. PICK z \in Nat : z = zeros
      BY <2>1
    <3>2. exponents = (k + e - 1) - (l - (scale - z) - 1)
      BY <1>8, <2>5, <3>1
    <3>3. p = e + shift /\ i = shift - scale /\ q = i + z
      BY <1>1, <2>7, <3>1
    <3>4. k \in Nat /\ l \in Nat
      BY <2>4, <2>6
    <3>. QED BY <3>2, <3>3, <3>4
  <2>9. c * Power(10, i) = b * Power(10, q)
    <3>0. zeros \in Nat
      BY <2>1
    <3>1. PICK u \in Nat, w \in Nat : u = Power(10, i) /\ w = Power(10, zeros)
      <4>1. Power(10, i) \in Nat
        BY PowerIs
      <4>2. Power(10, zeros) \in Nat
        BY <3>0, PowerIs
      <4>. QED BY <4>1, <4>2
    <3>2. Power(10, q) = u * w
      BY <2>7, <3>0, <3>1, PowerSum
    <3>3. c = b * w
      BY <2>2, <3>1 DEF TimesTen
    <3>4. (b * w) * u = b * (u * w)
      OBVIOUS
    <3>. QED BY <3>1, <3>2, <3>3, <3>4
  <2>10. PICK Y \in Nat : Y = b * Power(10, q)
    <3>1. Power(10, q) \in Nat
      BY PowerIs
    <3>. QED BY <3>1
  <2>11. Tells(r, X, Y)
    <3>1. CASE k + p < l + q
      <4>1. X < Y
        BY <1>3, <2>3, <2>6, <2>10, <3>1, ExponentTells
      <4>2. r = -1
        BY <1>9, <1>11, <2>4, <2>6, <2>8, <3>1 DEF Sign
      <4>. QED BY <4>1, <4>2 DEF Tells
    <3>2. CASE l + q < k + p
      <4>1. Y < X
        BY <1>3, <2>3, <2>6, <2>10, <3>2, ExponentTells
      <4>2. r = 1
        BY <1>9, <1>11, <2>4, <2>6, <2>8, <3>2 DEF Sign
      <4>. QED BY <4>1, <4>2 DEF Tells
    <3>3. CASE k + p = l + q
      <4>1. r = DigitsOrder(s, PlacesOf(b, l), Max({Len(s), l}), k)
        <5>1. exponents = 0
          BY <2>4, <2>6, <2>8, <3>3
        <5>2. r = DigitsOrder(s, digits, n, k)
          BY <1>9, <1>11, <5>1
        <5>. QED BY <1>7, <2>5, <5>2
      <4>2. Tells(DigitsOrder(s, PlacesOf(b, l), Max({Len(s), l}), k), core * Power(10, p), b * Power(10, q))
        BY <2>3, <2>4, <2>6, <3>3, SameExponentTells
      <4>. QED BY <1>3, <2>10, <4>1, <4>2
    <3>. QED BY <2>4, <2>6, <3>1, <3>2, <3>3
  <2>. QED BY <1>1, <1>2, <1>3, <2>9, <2>10, <2>11
<1>. QED BY <1>10, <1>11

----------------------------------------------------------------------------
(* Numbers against their bounds.                                           *)

(* The digits of a text before its exponent, with its sign.                 *)
SignedMantissa(v) == IF v.negative THEN -v.mantissa ELSE v.mantissa

LEMMA NegatedTells ==
    ASSUME NEW r, NEW x \in Nat, NEW y \in Nat, Tells(r, x, y)
    PROVE  Tells(-r, -x, -y)
BY DEF Tells

LEMMA BoundTells ==
    ASSUME NEW a, NEW v, NEW m \in Nat \ {0}, Agrees(a, v, m), KeepsLeading(a, v), v.exponent_value <= ExponentCap,
           NEW bound, NEW c \in Int, c = bound.coef, NEW scale \in Nat, scale = bound.scale,
           -PowerOfTen(LeadingDigits) < c, c < PowerOfTen(LeadingDigits),
           NEW K \in Nat, DecimalShift(v) + K >= 0, scale <= K
    PROVE  Tells(CompareToBound(a, bound), SignedMantissa(v) * PowerOfTen(DecimalShift(v) + K),
                 c * PowerOfTen(K - scale))
<1>1. PICK core \in Nat : LeadsWith(a, core, v.mantissa)
  BY DEF KeepsLeading, LeadsWith
<1>2. PICK z \in Nat, k \in Nat : z = a.pending_zeros /\ k = a.core_digits
  BY DEF Agrees, Accumulators
<1>3. PICK d \in Int : d = DecimalShift(v) /\ ValueShift(a) = d + z
  BY <1>2, AgreedShift
<1>4. PICK j \in Nat, i \in Nat : j = d + K /\ i = K - scale
  <2>1. d + K \in Nat /\ K - scale \in Nat
    BY <1>3
  <2>. QED BY <2>1
<1>5. PICK e \in Int, p \in Nat : e = ValueShift(a) /\ p = e + K /\ p = z + j
  <2>1. d + z \in Int /\ (d + z) + K = z + j /\ z + j \in Nat
    BY <1>4
  <2>. QED BY <1>3, <2>1
<1>6. PICK u \in Nat \ {0} : u = Power(10, j) /\ u = PowerOfTen(j)
  BY PowerPositive DEF PowerOfTen
<1>7. PICK w \in Nat \ {0} : w = Power(10, i) /\ w = PowerOfTen(i)
  BY PowerPositive DEF PowerOfTen
<1>8. PICK t \in Nat \ {0} : t = Power(10, z)
  BY PowerPositive
<1>9. PICK x \in Nat : x = v.mantissa
  BY DEF Agrees, Readings
<1>10. x = core * t
  BY <1>1, <1>2, <1>8, <1>9 DEF LeadsWith, TimesTen
<1>11. PICK X \in Nat : X = x * u
  OBVIOUS
<1>12. X = core * Power(10, p)
  <2>1. Power(10, z + j) = t * u
    BY <1>6, <1>8, PowerSum
  <2>2. (core * t) * u = core * (t * u)
    OBVIOUS
  <2>. QED BY <1>5, <1>10, <1>11, <2>1, <2>2
<1>13. DigitCount(core, k)
  BY <1>1, <1>2 DEF LeadsWith
<1>14. k = 0 <=> core = 0
  <2>1. Power(10, 0) = 1
    BY PowerIs
  <2>2. ASSUME core = 0 PROVE k = 0
    BY <1>13, <2>2, ZeroDigits
  <2>3. ASSUME k = 0 PROVE core = 0
    BY <1>13, <2>1, <2>3 DEF DigitCount
  <2>. QED BY <2>2, <2>3
<1>15. v.negative \in BOOLEAN /\ a.negative = v.negative
  BY DEF Agrees, Readings
<1>16. PICK r : r = CompareToBound(a, bound)
  OBVIOUS
<1>17. PICK N \in Nat : N = PowerOfTen(LeadingDigits) /\ N = Power(10, LeadingDigits)
  BY NumberAssumption, PowerIs DEF PowerOfTen
<1>18. PICK S \in Int : S = SignedMantissa(v) * u /\ S = IF v.negative THEN -X ELSE X
  <2>1. (-x) * u = -(x * u) /\ x * u \in Int
    OBVIOUS
  <2>. QED BY <1>9, <1>11, <1>15, <2>1 DEF SignedMantissa
<1>19. PICK Y \in Int : Y = c * w
  OBVIOUS
<1>20. /\ c = 0 => Y = 0
       /\ c > 0 => Y > 0
       /\ c < 0 => Y < 0
  <2>1. ASSUME c > 0 PROVE Y > 0
    <3>1. c \in Nat \ {0}
      BY <2>1
    <3>2. c * w >= w
      BY <3>1, ProductGrows
    <3>. QED BY <1>19, <3>2
  <2>2. ASSUME c < 0 PROVE Y < 0
    <3>1. PICK b \in Nat \ {0} : b = -c
      <4>1. -c \in Nat \ {0}
        BY <2>2
      <4>. QED BY <4>1
    <3>2. b * w >= w
      BY ProductGrows
    <3>3. b * w = -(c * w)
      BY <3>1
    <3>. QED BY <1>19, <3>2, <3>3
  <2>3. ASSUME c = 0 PROVE Y = 0
    BY <1>19, <2>3
  <2>. QED BY <2>1, <2>2, <2>3
<1>21. core # 0 => X > 0
  <2>1. ASSUME core # 0 PROVE X > 0
    <3>1. Power(10, p) \in Nat \ {0}
      BY PowerPositive
    <3>2. core * Power(10, p) >= Power(10, p)
      BY <2>1, <3>1, ProductGrows
    <3>. QED BY <1>12, <3>1, <3>2
  <2>. QED BY <2>1
<1>22. Tells(r, S, Y)
  <2>1. CASE k = 0
    <3>1. r = -Sign(c)
      BY <1>2, <1>16, <2>1 DEF CompareToBound
    <3>2. X = 0
      <4>1. Power(10, p) \in Nat
        BY PowerIs
      <4>. QED BY <1>12, <1>14, <2>1, <4>1
    <3>3. S = 0
      BY <1>18, <3>2
    <3>4. CASE c = 0
      <4>1. Sign(c) = 0
        BY <3>4 DEF Sign
      <4>2. r = 0 /\ Y = 0
        BY <1>20, <3>1, <3>4, <4>1
      <4>. QED BY <3>3, <4>2 DEF Tells
    <3>5. CASE c > 0
      BY <1>20, <3>1, <3>3, <3>5 DEF Sign, Tells
    <3>6. CASE c < 0
      <4>1. Sign(c) = -1
        BY <3>6 DEF Sign
      <4>2. r = 1 /\ Y < 0
        <5>1. PICK g \in Int : g = Sign(c)
          BY <4>1
        <5>2. r = -g /\ g + 1 = 0
          BY <3>1, <4>1, <5>1
        <5>3. r = 1
          BY <5>2
        <5>. QED BY <1>20, <3>6, <5>3
      <4>. QED BY <3>3, <4>2 DEF Tells
    <3>. QED BY <3>4, <3>5, <3>6
  <2>2. CASE k # 0 /\ v.negative /\ c >= 0
    <3>1. r = -1
      <4>1. a.core_digits # 0 /\ a.negative = TRUE /\ (bound.coef < 0) = FALSE
        BY <1>2, <1>15, <2>2
      <4>2. r = IF a.negative THEN -1 ELSE 1
        BY <1>16, <4>1 DEF CompareToBound
      <4>. QED BY <4>1, <4>2
    <3>2. S < 0 /\ Y >= 0
      BY <1>14, <1>18, <1>20, <1>21, <2>2
    <3>. QED BY <3>1, <3>2 DEF Tells
  <2>3. CASE k # 0 /\ ~v.negative /\ c < 0
    <3>1. r = 1
      BY <1>2, <1>15, <1>16, <2>3 DEF CompareToBound
    <3>2. S > 0 /\ Y < 0
      BY <1>14, <1>18, <1>20, <1>21, <2>3
    <3>. QED BY <3>1, <3>2 DEF Tells
  <2>4. CASE k # 0 /\ v.negative /\ c < 0
    <3>1. PICK b \in Nat : b = -c /\ b < N
      <4>1. -c \in Nat /\ -c < N
        BY <1>17, <2>4
      <4>. QED BY <4>1
    <3>2. PICK g : g = CompareMagnitude(a, b, scale)
      OBVIOUS
    <3>3. r = -g
      BY <1>2, <1>15, <1>16, <2>4, <3>1, <3>2 DEF CompareToBound
    <3>4. core \in Nat \ {0}
      BY <1>14, <2>4
    <3>5. Tells(CompareMagnitude(a, b, scale), core * Power(10, e + K), b * Power(10, K - scale))
      <4>1. PICK q : q = v.mantissa
        OBVIOUS
      <4>2. LeadsWith(a, core, q)
        BY <1>1, <4>1
      <4>3. e + K \in Nat /\ b < Power(10, LeadingDigits)
        BY <1>5, <1>17, <3>1
      <4>. QED BY <1>5, <3>4, <4>2, <4>3, MagnitudeTells
    <3>6. PICK y \in Nat : y = b * w
      OBVIOUS
    <3>7. Tells(g, X, y)
      BY <1>4, <1>5, <1>7, <1>12, <3>2, <3>5, <3>6
    <3>8. Y = -y
      BY <1>19, <3>1, <3>6
    <3>9. S = -X
      BY <1>18, <2>4
    <3>. QED BY <3>3, <3>7, <3>8, <3>9, NegatedTells
  <2>5. CASE k # 0 /\ ~v.negative /\ c >= 0
    <3>1. PICK b \in Nat : b = c /\ b < N
      <4>1. c \in Nat /\ c < N
        BY <1>17, <2>5
      <4>. QED BY <4>1
    <3>2. r = CompareMagnitude(a, b, scale)
      BY <1>2, <1>15, <1>16, <2>5, <3>1 DEF CompareToBound
    <3>3. core \in Nat \ {0}
      BY <1>14, <2>5
    <3>4. Tells(CompareMagnitude(a, b, scale), core * Power(10, e + K), b * Power(10, K - scale))
      <4>1. PICK q : q = v.mantissa
        OBVIOUS
      <4>2. LeadsWith(a, core, q)
        BY <1>1, <4>1
      <4>3. e + K \in Nat /\ b < Power(10, LeadingDigits)
        BY <1>5, <1>17, <3>1
      <4>. QED BY <1>5, <3>3, <4>2, <4>3, MagnitudeTells
    <3>5. S = X
      BY <1>18, <2>5
    <3>. QED BY <1>4, <1>5, <1>7, <1>12, <1>19, <3>1, <3>2, <3>4, <3>5
  <2>. QED BY <1>15, <2>1, <2>2, <2>3, <2>4, <2>5
<1>. QED BY <1>3, <1>4, <1>6, <1>7, <1>16, <1>18, <1>19, <1>22

(* minimum and maximum are decided exactly: after any text of a number the  *)
(* accumulator, which keeps only its first LeadingDigits digits, a count of *)
(* the others and an exponent, orders the number and the bound as the       *)
(* decimal value of the text does, so accepts_plan admits it for minimum,   *)
(* maximum and their exclusive forms exactly when the value is in range.    *)
(* Both sides are scaled by 10^K, for any K that makes them whole.  The     *)
(* bound has at most LeadingDigits digits, and the exponent of the text is  *)
(* one that the code's cap does not cut off.                                *)
THEOREM BoundsExact ==
    ASSUME NEW bound \in [coef : Int, scale : Nat, exclusive : BOOLEAN],
           -PowerOfTen(LeadingDigits) < bound.coef, bound.coef < PowerOfTen(LeadingDigits),
           NEW m \in Nat \ {0}, NEW n \in Nat, NEW text, NEW a, NEW v,
           NumberRun(a, v, text, n, m), v[n].exponent_value <= ExponentCap,
           NEW K \in Nat, DecimalShift(v[n]) + K >= 0, bound.scale <= K
    PROVE  LET x == SignedMantissa(v[n]) * PowerOfTen(DecimalShift(v[n]) + K)
               y == bound.coef * PowerOfTen(K - bound.scale)
           IN  /\ CompareToBound(a[n], bound) >= (IF bound.exclusive THEN 1 ELSE 0)
                    <=> IF bound.exclusive THEN x > y ELSE x >= y
               /\ CompareToBound(a[n], bound) <= (IF bound.exclusive THEN -1 ELSE 0)
                    <=> IF bound.exclusive THEN x < y ELSE x <= y
<1>1. PICK c \in Int, scale \in Nat : c = bound.coef /\ scale = bound.scale
  OBVIOUS
<1>2. PICK b, w : b = a[n] /\ w = v[n]
  OBVIOUS
<1>3. Agrees(b, w, m) /\ KeepsLeading(b, w)
  BY <1>2, RunAgrees, RunLeads
<1>4. Tells(CompareToBound(b, bound), SignedMantissa(w) * PowerOfTen(DecimalShift(w) + K), c * PowerOfTen(K - scale))
  BY <1>1, <1>2, <1>3, BoundTells
<1>5. PICK r : r = CompareToBound(b, bound)
  OBVIOUS
<1>6. PICK x \in Int : x = SignedMantissa(w) * PowerOfTen(DecimalShift(w) + K)
  <2>1. DecimalShift(w) + K \in Nat
    <3>1. DecimalShift(w) \in Int
      BY <1>2, <1>3, AgreedShift
    <3>. QED BY <1>2, <3>1
  <2>2. PICK p \in Nat : p = PowerOfTen(DecimalShift(w) + K)
    BY <2>1, PowerIs DEF PowerOfTen
  <2>3. PICK s \in Int : s = SignedMantissa(w)
    BY <1>3 DEF Agrees, Readings, SignedMantissa
  <2>4. s * p \in Int
    OBVIOUS
  <2>. QED BY <2>2, <2>3, <2>4
<1>7. PICK y \in Int : y = c * PowerOfTen(K - scale)
  <2>1. K - scale \in Nat
    BY <1>1
  <2>2. PICK p \in Nat : p = PowerOfTen(K - scale)
    BY <2>1, PowerIs DEF PowerOfTen
  <2>3. c * p \in Int
    OBVIOUS
  <2>. QED BY <2>2, <2>3
<1>8. Tells(r, x, y)
  BY <1>4, <1>5, <1>6, <1>7
<1>9. /\ r >= 1 <=> x > y
      /\ r >= 0 <=> x >= y
      /\ r <= -1 <=> x < y
      /\ r <= 0 <=> x <= y
  BY <1>8 DEF Tells
<1>. QED BY <1>1, <1>2, <1>5, <1>6, <1>7, <1>9
=============================================================================
