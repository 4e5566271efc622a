------------------------------- MODULE BookUser -------------------------------
(***************************************************************************)
(* Two objects of the class Book of msg.proto, and a string: a program     *)
(* that calls their methods in any order, of which protobuf_test is one.   *)
(* The string may come from elsewhere, with fields of another version of   *)
(* msg.proto, or cut off.                                                  *)
(***************************************************************************)
EXTENDS ProtoMessage

CONSTANTS Names, Pages, Prices,   (* values of the fields                  *)
          Foreign,                (* items of another version              *)
          MaxUnknown,             (* how many of them a message may hold   *)
          MaxCalls                (* how many steps the program takes      *)

ASSUME BookAssumption == MaxUnknown \in Nat /\ MaxCalls \in Nat

ASSUME ValuesAssumption ==
  /\ Names \subseteq Seq(STRING) /\ Pages \subseteq Int /\ Prices \subseteq Nat
  /\ \A item \in Foreign :
       /\ item.num \in Nat /\ item = Item(item.num, item.wt, item.val)
       /\ \/ item.wt = "len" /\ item.val \in Seq(STRING)
          \/ item.wt = "varint" /\ item.val \in Int
          \/ item.wt \in {"fixed32", "end"} /\ item.val \in Nat

VARIABLES book,     (* the two objects                                     *)
          bookstr,  (* the string                                          *)
          calls     (* history: the number of steps, for the bound         *)

bookVars == <<book, bookstr, calls>>
Objects == {"book", "book2"}

BookInit == book = [o \in Objects |-> Message(Book)] /\ bookstr = <<>> /\ calls = 0

SetName(o, v) == book' = [book EXCEPT ![o] = SetField(@, 1, v)] /\ UNCHANGED bookstr
SetPages(o, v) == book' = [book EXCEPT ![o] = SetField(@, 2, v)] /\ UNCHANGED bookstr
SetPrice(o, v) == book' = [book EXCEPT ![o] = SetField(@, 3, v)] /\ UNCHANGED bookstr

BookClear(o) == book' = [book EXCEPT ![o] = Clear(Book, @)] /\ UNCHANGED bookstr

\* o = o2 is allowed, and changes nothing.
BookCopyFrom(o, o2) ==
  /\ book' = [book EXCEPT ![o] = IF o = o2 THEN @ ELSE CopyFrom(Book, @, book[o2])]
  /\ UNCHANGED bookstr

\* A new object in the place of o.
BookCopyConstruct(o, o2) ==
  book' = [book EXCEPT ![o] = CopyConstructor(book[o2])] /\ UNCHANGED bookstr

\* o = o2 is an error of the caller.
BookMergeFrom(o, o2) ==
  /\ o # o2
  /\ Len(book[o].unknown) + Len(book[o2].unknown) <= MaxUnknown
  /\ book' = [book EXCEPT ![o] = MergeFrom(Book, @, book[o2])]
  /\ UNCHANGED bookstr

InternalSwap(o, o2) == book' = [book EXCEPT ![o] = book[o2], ![o2] = book[o]]

Swap(o, o2) == InternalSwap(o, o2) /\ UNCHANGED bookstr

\* To move is to swap, as neither lies in an arena.
MoveAssign(o, o2) == InternalSwap(o, o2) /\ UNCHANGED bookstr

SerializeToString(o) == bookstr' = InternalSerialize(Book, book[o]) /\ UNCHANGED book

\* protobuf_test does not look at the result.
BookParseFromString(o) ==
  book' = [book EXCEPT ![o] = ParseFromString(Book, bookstr).msg] /\ UNCHANGED bookstr

\* External: another program adds a field, or the string is cut in the last.
OtherVersion ==
  /\ Len(bookstr) <= Len(Book)
  /\ Len(ParseFromString(Book, bookstr).msg.unknown) < MaxUnknown
  /\ \E item \in Foreign : bookstr' = Append(bookstr, item)
  /\ UNCHANGED book

CutOff == /\ bookstr # <<>>
          /\ bookstr' = [bookstr EXCEPT ![Len(bookstr)].cut = TRUE]
          /\ UNCHANGED book

BookStep ==
  \/ \E o \in Objects :
       \/ \E v \in Names : SetName(o, v)
       \/ \E v \in Pages : SetPages(o, v)
       \/ \E v \in Prices : SetPrice(o, v)
       \/ BookClear(o) \/ SerializeToString(o) \/ BookParseFromString(o)
       \/ \E o2 \in Objects : \/ BookCopyFrom(o, o2) \/ BookCopyConstruct(o, o2)
                              \/ BookMergeFrom(o, o2) \/ Swap(o, o2) \/ MoveAssign(o, o2)
  \/ OtherVersion \/ CutOff

BookNext == calls < MaxCalls /\ calls' = calls + 1 /\ BookStep
BookSpec == BookInit /\ [][BookNext]_bookVars

-----------------------------------------------------------------------------
(* Properties.                                                             *)

Valid(m) == ValidUTF8(GetField(m, 1))

\* What is written is read again to the last field, also those that were not
\* understood, minus zero and negative numbers, unless a string is not UTF-8:
\* that is written without complaint, and then cannot be read.  And what is
\* written takes exactly the room that was made for it.
\* (msg.pb.cc _InternalSerialize, ByteSizeLong, _InternalParse.)
RoundTrip ==
  \A o \in Objects :
    LET m == book[o]
        items == InternalSerialize(Book, m)
        read == ParseFromString(Book, items)
    IN  /\ ByteSizeLong(Book, m) = SizeOf(items)
        /\ read.ok = Valid(m)
        /\ Valid(m) => read.msg = m

\* To read two messages one behind the other is to read the first and merge
\* the second into it; to copy, construct or clear and merge is the same.
\* (msg.pb.cc MergeImpl, CopyFrom, the copy constructor.)
MergeIsConcat ==
  \A o, o2 \in Objects :
    LET read == ParseFromString(Book, InternalSerialize(Book, book[o])
                                        \o InternalSerialize(Book, book[o2]))
    IN  /\ read.ok = (Valid(book[o]) /\ Valid(book[o2]))
        /\ read.ok => read.msg = MergeFrom(Book, book[o], book[o2])
        /\ CopyFrom(Book, book[o], book[o2]) = CopyConstructor(book[o2])

\* Reading against its definition: it succeeds if every item is whole, none
\* ends a group and the names are UTF-8; then a field has the last of its
\* values, and what does not fit the class, by number or by type, is kept in
\* its order.  (msg.pb.cc _InternalParse.)
ReadsLast ==
  LET known(item) == item.num \in DOMAIN Book /\ item.wt = WireType(Book[item.num])
      given(num) == {i \in DOMAIN bookstr : known(bookstr[i]) /\ bookstr[i].num = num}
      others == {i \in DOMAIN bookstr : ~known(bookstr[i])}
      read == ParseFromString(Book, bookstr)
  IN  /\ read.ok = \A i \in DOMAIN bookstr :
                      LET item == bookstr[i]
                      IN  /\ ~item.cut /\ item.wt # "end"
                          /\ known(item) /\ item.num = 1 => ValidUTF8(item.val)
      /\ read.ok =>
           /\ Len(read.msg.unknown) = Cardinality(others)
           /\ \A i \in others :
                read.msg.unknown[Cardinality({j \in others : j <= i})] = bookstr[i]
           /\ \A num \in DOMAIN Book :
                GetField(read.msg, num) = IF given(num) = {} THEN Default(Book[num])
                                          ELSE bookstr[Max(given(num))].val
=============================================================================
