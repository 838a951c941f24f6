--------------------------- MODULE CanonicalItem ---------------------------
(***************************************************************************)
(* Canonical values of uniqueItems (structured/canonical.rs): the builder  *)
(* that folds the bytes of one array item into a value, with a journal of  *)
(* its own so that a byte can be taken back, and the set of the values     *)
(* seen in the array, by fingerprint.                                      *)
(*                                                                         *)
(* A value is a tuple that begins with its kind.  The code keeps values in *)
(* an arena and cuts the arena back on rollback; here they are kept by     *)
(* value.  The memory budget is left out.                                  *)
(***************************************************************************)
EXTENDS JsonLexer, Integers

CONSTANT Fingerprint(_)     \* the set's hash of a value; values may collide

----------------------------------------------------------------------------
(* Numbers are equal by value, not by spelling. *)

DecimalValue(digits) == FoldLeft(LAMBDA value, digit : 10 * value + DigitOf[digit], 0, digits)

SignedExponent(text) ==
    CASE text = <<>> -> 0
      [] text # <<>> -> IF text[1] = "-" THEN -DecimalValue(Tail(text))
                        ELSE DecimalValue(IF text[1] = "+" THEN Tail(text) ELSE text)

NumberTrimmed(negative, digits, exponent) ==
    LET nonzero == {i \in DOMAIN digits : digits[i] # "0"}
    IN IF nonzero = {} THEN <<"Number", FALSE, <<>>, 0>>
       ELSE <<"Number", negative, SubSeq(digits, Min(nonzero), Max(nonzero)),
              exponent + Len(digits) - Max(nonzero)>>

(* e and dot are the positions of the exponent and of the point, past the end
   of what they divide when there is none. *)
FirstByte(text, bytes) ==
    LET at == {i \in DOMAIN text : text[i] \in bytes} IN IF at = {} THEN Len(text) + 1 ELSE Min(at)

NormalizeNumberAt(negative, body, e, dot) ==
    NumberTrimmed(negative, SubSeq(body, 1, Min({dot, e}) - 1) \o SubSeq(body, dot + 1, e - 1),
                  SignedExponent(SubSeq(body, e + 1, Len(body))) - (IF dot < e THEN e - dot - 1 ELSE 0))

NormalizeNumberBody(negative, body) ==
    NormalizeNumberAt(negative, body, FirstByte(body, {"e", "E"}), FirstByte(body, {"."}))

NormalizeNumber(text) ==
    NormalizeNumberBody(text[1] = "-", IF text[1] = "-" THEN Tail(text) ELSE text)

LiteralFromTag == [tru |-> <<"Bool", TRUE>>, fals |-> <<"Bool", FALSE>>, nul |-> <<"Null">>]

(* A number, or a literal by the phase before its last byte. *)
ScalarValue(frame) ==
    IF frame.phase = "LiteralDone" THEN LiteralFromTag[frame.text[1]] ELSE NormalizeNumber(frame.text)

----------------------------------------------------------------------------
(* The builder: its stack, the completed value if any, and its journal. *)

ValueStart == [kind |-> "Scalar", phase |-> "BeforeValue", text |-> <<>>]

KeyOrClose == [at |-> "KeyOrClose", key |-> <<>>]

StringStart(as_key) == [kind |-> "Str", decoder |-> "None", text |-> <<>>, as_key |-> as_key]

NewBuilder == [stack |-> <<ValueStart>>, root |-> <<>>, journal |-> <<>>, out |-> "ok"]

BuilderMark(b) == [journal_len |-> Len(b.journal), root |-> b.root]

(* record: one reversible mutation of the builder (BuilderUndo), written before
   the mutation is made. *)
Record(b, entry) == [b EXCEPT !.journal = Append(@, entry)]

ReplaceTop(b, entry, frame) == [Record(b, entry) EXCEPT !.stack = [@ EXCEPT ![Len(b.stack)] = frame]]

PushTop(b, frame) == [Record(b, [op |-> "PopFrame"]) EXCEPT !.stack = Append(@, frame)]

PopTop(b) == [Record(b, [op |-> "PushFrame", old |-> Last(b.stack)]) EXCEPT !.stack = Front(@)]

RestoreScalar(b) == [op |-> "RestoreScalar", depth |-> Len(b.stack), old |-> Last(b.stack)]

RestoreString(b) ==
    [op |-> "RestoreString", depth |-> Len(b.stack), decoder |-> Last(b.stack).decoder, text |-> Last(b.stack).text]

RestoreObjectPhase(b) == [op |-> "RestoreObjectPhase", depth |-> Len(b.stack), phase |-> Last(b.stack).phase]

TruncateChildren(b) ==
    [op |-> "TruncateChildren", depth |-> Len(b.stack), old_len |-> Len(Last(b.stack).children)]

TruncateEntries(b) ==
    [op |-> "TruncateEntries", depth |-> Len(b.stack), old_len |-> Len(Last(b.stack).entries)]

(* What restore does for one entry, the newest first; the root is restored
   last, from the mark. *)
RevertFrame(entry, frame) ==
    CASE entry.op = "RestoreScalar" -> entry.old
      [] entry.op = "RestoreString" ->
            [kind |-> "Str", decoder |-> entry.decoder, text |-> entry.text, as_key |-> frame.as_key]
      [] entry.op = "RestoreObjectPhase" -> [frame EXCEPT !.phase = entry.phase]
      [] entry.op = "TruncateChildren" -> [frame EXCEPT !.children = SubSeq(@, 1, entry.old_len)]
      [] entry.op = "TruncateEntries" -> [frame EXCEPT !.entries = SubSeq(@, 1, entry.old_len)]

RevertStack(entry, stack) ==
    CASE entry.op = "RestoreRoot" -> stack
      [] entry.op = "PopFrame" -> Front(stack)
      [] entry.op = "PushFrame" -> Append(stack, entry.old)
      [] entry.op \notin {"RestoreRoot", "PopFrame", "PushFrame"} ->
            [stack EXCEPT ![entry.depth] = RevertFrame(entry, stack[entry.depth])]

Unwound(stack, journal, journal_len) ==
    LET before[k \in journal_len .. Len(journal)] ==
            IF k = Len(journal) THEN stack ELSE RevertStack(journal[k + 1], before[k + 1])
    IN before[journal_len]

RestoreBuilder(b, mark) ==
    [stack |-> Unwound(b.stack, b.journal, mark.journal_len),
     root |-> mark.root,
     journal |-> SubSeq(b.journal, 1, mark.journal_len),
     out |-> "ok"]

CommitHistory(b) == [b EXCEPT !.journal = <<>>]

(* The object's entry is added and its phase left: two mutations, two entries. *)
AddEntry(b, top, value) ==
    ReplaceTop(Record(b, TruncateEntries(b)), RestoreObjectPhase(b),
               [kind |-> "Object", phase |-> KeyOrClose, entries |-> Append(top.entries, <<top.phase.key, value>>)])

(* A completed value goes to the container now on top, or is the item. *)
CompleteValue(b, value) ==
    LET top == Last(b.stack) IN
    CASE b.stack = <<>> -> [Record(b, [op |-> "RestoreRoot"]) EXCEPT !.root = <<value>>]
      [] b.stack # <<>> /\ top.kind = "Array" ->
            ReplaceTop(b, TruncateChildren(b), [top EXCEPT !.children = Append(@, value)])
      [] b.stack # <<>> /\ top.kind = "Object" /\ top.phase.at = "Value" -> AddEntry(b, top, value)
      [] OTHER -> [b EXCEPT !.out = "err"]

(* The byte is consumed. *)
Done(t) == [t EXCEPT !.out = IF @ = "run" THEN "ok" ELSE @]

BuildScalarClosed(closed) ==
    IF closed.root # <<>> THEN Done(closed) ELSE closed

BuildScalarNext(b, frame, byte, next) ==
    CASE next = "StartString" -> Done(ReplaceTop(b, RestoreScalar(b), StringStart(FALSE)))
      [] next = "StartArray" -> Done(ReplaceTop(b, RestoreScalar(b), [kind |-> "Array", children |-> <<>>]))
      [] next = "StartObject" ->
            Done(ReplaceTop(b, RestoreScalar(b),
                            [kind |-> "Object", phase |-> KeyOrClose, entries |-> <<>>]))
      [] next = "Invalid" -> [b EXCEPT !.out = "err"]
      [] next = "Done" ->
            BuildScalarClosed(CompleteValue(PopTop(b), ScalarValue(frame)))
      [] next \notin {"StartString", "StartArray", "StartObject", "Invalid", "Done"} ->
            Done(ReplaceTop(b, RestoreScalar(b),
                            [kind |-> "Scalar", phase |-> next,
                             text |-> IF next \in NumberPhases THEN Append(frame.text, byte)
                                      ELSE IF next = "LiteralDone" THEN <<frame.phase>> ELSE frame.text]))

BuildScalar(b, frame, byte) ==
    BuildScalarNext(b, frame, byte, StepScalar(frame.phase, byte))

InPhase(frame, at, key) == [frame EXCEPT !.phase = [at |-> at, key |-> key]]

AttachKey(b, key) ==
    IF b.stack # <<>> /\ Last(b.stack).kind = "Object"
    THEN ReplaceTop(b, RestoreObjectPhase(b), InPhase(Last(b.stack), "Colon", key))
    ELSE [b EXCEPT !.out = "err"]

BuildStringStep(b, frame, step) ==
    IF step.ok
    THEN Done(ReplaceTop(b, RestoreString(b), [kind |-> "Str", decoder |-> step.decoder,
                                               text |-> frame.text \o step.scalar, as_key |-> frame.as_key]))
    ELSE [b EXCEPT !.out = "err"]

BuildString(b, frame, byte) ==
    CASE byte = "\"" /\ frame.decoder = "None" ->
            Done(IF frame.as_key THEN AttachKey(PopTop(b), frame.text)
                                 ELSE CompleteValue(PopTop(b), <<"String", frame.text>>))
      [] ~(byte = "\"" /\ frame.decoder = "None") -> BuildStringStep(b, frame, Decode(frame.decoder, byte))

(* The entries of an object are sorted by key when it closes, so that their
   order does not tell objects apart: its value holds them as a set. *)
BuildContainer(b, frame, byte) ==
    LET separator == IF frame.kind = "Array" \/ frame.phase.at = "KeyOrClose" THEN WS \cup {","} ELSE WS
    IN CASE byte \in separator -> Done(b)
         [] byte \notin separator /\ frame.kind = "Array" ->
               IF byte = "]" THEN Done(CompleteValue(PopTop(b), <<"Array", frame.children>>))
               ELSE PushTop(b, ValueStart)
         [] byte \notin separator /\ frame.kind = "Object" ->
               CASE frame.phase.at = "KeyOrClose" ->
                       IF byte = "\"" THEN Done(PushTop(b, StringStart(TRUE)))
                       ELSE IF byte = "}" THEN Done(CompleteValue(PopTop(b), <<"Object", ToSet(frame.entries)>>))
                       ELSE [b EXCEPT !.out = "err"]
                 [] frame.phase.at = "Colon" ->
                       IF byte = ":"
                       THEN Done(ReplaceTop(b, RestoreObjectPhase(b), InPhase(frame, "Value", frame.phase.key)))
                       ELSE [b EXCEPT !.out = "err"]
                 [] frame.phase.at = "Value" -> PushTop(b, ValueStart)

(* One turn of push_byte's loop; a number that ends leaves the byte to its
   container, a container leaves it to the value it opens. *)
BuildStep(b, byte) ==
    LET frame == Last(b.stack) IN
    CASE b.out # "run" -> b
      [] b.out = "run" /\ frame.kind = "Scalar" -> BuildScalar(b, frame, byte)
      [] b.out = "run" /\ frame.kind = "Str" -> BuildString(b, frame, byte)
      [] b.out = "run" /\ frame.kind \in {"Array", "Object"} -> BuildContainer(b, frame, byte)

BuildTurns == 3

BuildByte(b, byte) ==
    LET after[turn \in 0 .. BuildTurns] == IF turn = 0 THEN b ELSE BuildStep(after[turn - 1], byte)
    IN after[BuildTurns]

(* feed_item: a byte that fails is taken back. *)
FeedItemFed(b, byte, fed) ==
    CASE b.root # <<>> -> [b EXCEPT !.out = IF byte \in WS THEN "ok" ELSE "err"]
      [] b.root = <<>> -> IF fed.out = "ok" THEN fed ELSE [RestoreBuilder(fed, BuilderMark(b)) EXCEPT !.out = "err"]

FeedItem(b, byte) == FeedItemFed(b, byte, BuildByte([b EXCEPT !.out = "run"], byte))

ItemIsDone(b) == b.root # <<>>

(* Whether finish can close the builder: a number or literal has no byte of
   its own that ends it. *)
CanFinish(b) ==
    \/ b.root # <<>>
    \/ Len(b.stack) = 1 /\ b.stack[1].kind = "Scalar" /\ b.stack[1].phase \in NumberPhases \cup {"LiteralDone"}

FinishBuilder(b) == IF b.root # <<>> THEN b ELSE CompleteValue(PopTop(b), ScalarValue(b.stack[1]))

----------------------------------------------------------------------------
(* The set of values seen in one array, by fingerprint. *)

ItemBucket(set, hash) == IF hash \in DOMAIN set THEN set[hash] ELSE <<>>

SetContains(set, value) == value \in ToSet(ItemBucket(set, Fingerprint(value)))

SetInsert(set, value) ==
    [hash \in DOMAIN set \cup {Fingerprint(value)} |->
        IF hash = Fingerprint(value) THEN Append(ItemBucket(set, hash), value) ELSE set[hash]]

(* rollback_insert: a bucket that was created is removed. *)
RollbackInsert(set, hash, old_len) ==
    IF old_len = 0 THEN Restrict(set, DOMAIN set \ {hash})
    ELSE [set EXCEPT ![hash] = SubSeq(@, 1, old_len)]

ContainsString(set, text) == \E hash \in DOMAIN set : <<"String", text>> \in ToSet(set[hash])
=============================================================================
