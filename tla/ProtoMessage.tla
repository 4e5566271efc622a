----------------------------- MODULE ProtoMessage -----------------------------
(***************************************************************************)
(* What the classes that protoc generates do, as operators on messages.    *)
(*                                                                         *)
(* A class is the sequence of the kinds of its fields, by their numbers.   *)
(* A message has a value for each field, and the fields it read and did    *)
(* not know (_internal_metadata_).  A string is a sequence of its parts;   *)
(* a float is its bits, 0 for +0.0 only.                                   *)
(*                                                                         *)
(* What goes over the wire is a sequence of items.  An item may be cut off *)
(* at the end of the data, or be the end of a group.                       *)
(***************************************************************************)
EXTENDS Integers, Sequences, SequencesExt, FiniteSetsExt

Book == <<"string", "int32", "float">>
HelloRequest == <<"string">>
HelloReply == <<"string">>

Default(kind) == IF kind = "string" THEN <<>> ELSE 0
WireType(kind) == CASE kind = "string" -> "len"
                    [] kind = "int32" -> "varint"
                    [] kind = "float" -> "fixed32"

Item(num, wt, val) == [num |-> num, wt |-> wt, val |-> val, cut |-> FALSE]

\* A part of a string that is not UTF-8.
BadPart == "bad"
ValidUTF8(str) == \A i \in DOMAIN str : str[i] # BadPart

-----------------------------------------------------------------------------
Message(class) == [f |-> [num \in DOMAIN class |-> Default(class[num])], unknown |-> <<>>]

\* The arena makes no difference to the values.
SharedCtor(class) == Message(class)
Clear(class, m) == Message(class)

\* The setters and getters of the headers.
SetField(m, num, val) == [m EXCEPT !.f[num] = val]
GetField(m, num) == m.f[num]

CopyConstructor(from) == [f |-> from.f, unknown |-> from.unknown]

\* Mutant: fields with the default value are copied too.
MergeFrom_All(class, to, from) == [f |-> from.f, unknown |-> to.unknown \o from.unknown]

\* Only what is not the default value is taken over.
MergeFrom(class, to, from) ==
  [f |-> [num \in DOMAIN class |->
            IF from.f[num] = Default(class[num]) THEN to.f[num] ELSE from.f[num]],
   unknown |-> to.unknown \o from.unknown]

CopyFrom(class, to, from) == MergeFrom(class, Clear(class, to), from)

-----------------------------------------------------------------------------
(* Out.                                                                    *)

\* Mutant: minus zero, whose bits are 1 here, counts as the default value.
Written_Zero(class, m, num) ==
  IF m.f[num] = Default(class[num]) \/ (class[num] = "float" /\ m.f[num] = 1) THEN <<>>
  ELSE <<Item(num, WireType(class[num]), m.f[num])>>

\* A field goes out if its value, for a float its bits, is not the default.
Written(class, m, num) ==
  IF m.f[num] = Default(class[num]) THEN <<>>
  ELSE <<Item(num, WireType(class[num]), m.f[num])>>

\* In the order of the numbers, then what was not understood.  A string that
\* is not UTF-8 is logged and written.
InternalSerialize(class, m) ==
  FlattenSeq([num \in 1 .. Len(class) |-> Written(class, m, num)]) \o m.unknown

\* The bytes of an item: a tag, and the length and bytes of a string, the
\* groups of seven bits of a number, ten if it is negative, or four bytes.
ItemSize(item) == 1 + CASE item.wt = "len" -> 1 + Len(item.val)
                        [] item.wt = "varint" -> IF item.val < 0 THEN 10 ELSE 1
                        [] item.wt = "fixed32" -> 4

SizeOf(items) == FoldLeft(LAMBDA total, item : total + ItemSize(item), 0, items)

\* SerializeToString makes room for that many bytes, and then writes.
ByteSizeLong(class, m) ==
  LET size(num) == IF m.f[num] = Default(class[num]) THEN 0
                   ELSE CASE class[num] = "string" -> 1 + (1 + Len(m.f[num]))
                          [] class[num] = "int32" -> 1 + (IF m.f[num] < 0 THEN 10 ELSE 1)
                          [] class[num] = "float" -> 1 + 4
  IN  MapThenSumSet(size, DOMAIN class) + SizeOf(m.unknown)

-----------------------------------------------------------------------------
(* In.                                                                     *)

\* What is left in a field whose bytes ended too early: nothing to rely on.
Garbage(kind) == IF kind = "string" THEN <<"?">> ELSE 3

ParseFails(s) == [s EXCEPT !.ok = FALSE, !.left = TRUE]

\* Mutant: what is not understood is dropped.
HandleUnusual_Drops(s, item) == IF item.cut \/ item.wt = "end" THEN ParseFails(s) ELSE s

\* The end of a group ends the loop, which is an error at the top level;
\* anything else is kept.
HandleUnusual(s, item) ==
  IF item.cut \/ item.wt = "end" THEN ParseFails(s)
  ELSE [s EXCEPT !.msg.unknown = Append(@, item)]

\* One round of the loop: s is the message, whether all went well, and
\* whether the loop has been left.
ParseItem(class, s, item) ==
  LET known == item.num \in DOMAIN class /\ item.wt = WireType(class[item.num])
      set(t, val) == [t EXCEPT !.msg.f[item.num] = val]
  IN  IF s.left THEN s
      ELSE IF ~known THEN HandleUnusual(s, item)
      ELSE IF item.cut THEN set(ParseFails(s), Garbage(class[item.num]))
      ELSE IF class[item.num] = "string" /\ ~ValidUTF8(item.val) THEN set(ParseFails(s), item.val)
      ELSE set(s, item.val)

InternalParse(class, m, items) ==
  FoldLeft(LAMBDA s, item : ParseItem(class, s, item),
           [msg |-> m, ok |-> TRUE, left |-> FALSE], items)

\* The message is cleared first; what was read before an error stays in it.
ParseFromString(class, items) == InternalParse(class, Message(class), items)
=============================================================================
