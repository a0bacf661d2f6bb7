-------------------------------- MODULE Params --------------------------------
(***************************************************************************)
(* The messages of the script: how the configuration names the types of    *)
(* their parameters (src/Src/server/messageconfig_reader.cpp), how the     *)
(* parameters are read from a message (analytical_param.cpp), and what the *)
(* writers of msgpackager.cpp make of a value.                             *)
(*                                                                         *)
(* A byte is a number below Base.  A fixed type is its width and a value   *)
(* of one is its bytes, so that signed and unsigned types of a width are   *)
(* one.  A string is its characters after their number in two bytes, low   *)
(* byte first.  FLOAT is left out, and strings that do not fit the 4096    *)
(* bytes they are read into.                                               *)
(***************************************************************************)
EXTENDS Integers, Sequences, FiniteSets

CONSTANTS
  Base,        (* values of a byte: 256                                     *)
  Width        (* bytes of each fixed type, by the type's name              *)

ASSUME ParamsAssumption ==
  /\ Base \in Nat \ {0, 1}
  /\ \A type \in DOMAIN Width : Width[type] \in Nat \ {0}
  /\ {"STRING", "REPEAT", "ERROR"} \cap DOMAIN Width = {}

-------------------------------------------------------------------------------
(* The configuration: a sequence of messages, each with the words of its    *)
(* <arg>, and the kind of its <function>: "defined" by the script, not      *)
(* defined, or "" when there is none.                                       *)

KnownWord == DOMAIN Width \cup {"STRING", "REPEAT"}

(* The last word is taken as it comes. *)
SplitUnchecked(words) == TRUE      \* mutant: DataTypeCheck is not called
Split(words) == \A i \in 1 .. Len(words) - 1 : words[i] \in KnownWord
ParseType(word) == IF word \in KnownWord THEN word ELSE "ERROR"

(* The messages before the first one that is refused. *)
Accepted(nodes) ==
  {i \in DOMAIN nodes : \A j \in 1 .. i : Split(nodes[j].words)}

(* Of two messages with one id the first is kept. *)
ReadMsgConfigure(nodes) ==
  LET ids == {nodes[i].id : i \in Accepted(nodes)}
      first(id) == CHOOSE i \in Accepted(nodes) :
                     /\ nodes[i].id = id
                     /\ \A j \in Accepted(nodes) : nodes[j].id = id => i <= j
      types(words) == [k \in DOMAIN words |-> ParseType(words[k])]
  IN  [id \in ids |-> [function |-> nodes[first(id)].function,
                       types |-> types(nodes[first(id)].words)]]

-------------------------------------------------------------------------------
(* Writing: a value is a record of its type and its bytes. *)

CountBytes(n) == << n % Base, (n \div Base) % Base >>
Encode(value) ==
  IF value.type = "STRING" THEN CountBytes(Len(value.bytes)) \o value.bytes ELSE value.bytes
SizeOf(value) == Len(value.bytes) + (IF value.type = "STRING" THEN 2 ELSE 0)

(* The bytes of those of the values that have their place in some. *)
EncodeSome(values, some) ==
  LET upTo[i \in 0 .. Len(values)] ==
        IF i = 0 THEN << >>
        ELSE upTo[i - 1] \o (IF i \in some THEN Encode(values[i]) ELSE << >>)
  IN  upTo[Len(values)]
EncodeAll(values) == EncodeSome(values, DOMAIN values)

-------------------------------------------------------------------------------
(* Reading.  body is what follows the header; a reader has the position of  *)
(* currentpos in it, the values pushed for the script and how many it       *)
(* counted.  It has failed for good when it is not ok.                      *)

CountAt(body, pos) == body[pos + 1] + Base * body[pos + 2]

Pushed(r, type, body, from, to) ==
  [r EXCEPT !.pos = to, !.cnt = @ + 1,
            !.args = Append(@, [type |-> type, bytes |-> SubSeq(body, from + 1, to)])]
Failed(r) == [r EXCEPT !.ok = FALSE]

ReadParamTemplate(r, type, body) ==
  LET end == r.pos + Width[type]
  IN  IF end <= Len(body) THEN Pushed(r, type, body, r.pos, end) ELSE Failed(r)

(* lua_pushstring takes a string up to its first 0, and whole says that none *)
(* was cut by it.                                                           *)
Zeros(bytes) == {i \in DOMAIN bytes : bytes[i] = 0}
UpToZero(bytes) ==
  LET n == CHOOSE n \in 0 .. Len(bytes) :
             /\ \A i \in Zeros(bytes) : n < i
             /\ n = Len(bytes) \/ n + 1 \in Zeros(bytes)
  IN  SubSeq(bytes, 1, n)

PushedString(r, body, from, to) ==
  LET bytes == SubSeq(body, from + 1, to)
  IN  [r EXCEPT !.pos = to, !.cnt = @ + 1, !.whole = @ /\ Zeros(bytes) = {},
                !.args = Append(@, [type |-> "STRING", bytes |-> UpToZero(bytes)])]

ReadParamStringStays(r, body) ==  \* mutant: currentpos is not moved past the count
  LET end == r.pos + 2 + CountAt(body, r.pos)
  IN  IF r.pos + 2 > Len(body) \/ end > Len(body) THEN Failed(r)
      ELSE [PushedString(r, body, r.pos + 2, end) EXCEPT !.pos = end - 2]
ReadParamString(r, body) ==
  LET end == r.pos + 2 + CountAt(body, r.pos)
  IN  IF r.pos + 2 > Len(body) \/ end > Len(body) THEN Failed(r)
      ELSE PushedString(r, body, r.pos + 2, end)

(* ERROR, and REPEAT where it is not the first: nothing is pushed. *)
ReadParamData(r, type, body) ==
  IF type \in DOMAIN Width THEN ReadParamTemplate(r, type, body)
  ELSE IF type = "STRING" THEN ReadParamString(r, body)
  ELSE [r EXCEPT !.cnt = @ + 1]

ReadAll(r, types, body) ==
  LET after[i \in 0 .. Len(types)] ==
        IF i = 0 THEN r
        ELSE LET before == after[i - 1]
             IN  IF before.ok THEN ReadParamData(before, types[i], body) ELSE before
  IN  after[Len(types)]

Times(n, types) == [i \in 1 .. n * Len(types) |-> types[((i - 1) % Len(types)) + 1]]

(* The player's identifier is pushed, and counted, before the parameters. *)
Start == [ok |-> TRUE, whole |-> TRUE, pos |-> 0, cnt |-> 1, args |-> << >>]

(* A REPEAT whose count is missing is no failure, one whose count is 0 is.  *)
ReadRepeat(types, body) ==
  IF Len(body) < 2 THEN Start
  ELSE IF CountAt(body, 0) = 0 THEN Failed(Start)
  ELSE ReadAll([Start EXCEPT !.pos = 2, !.cnt = 2], Times(CountAt(body, 0), Tail(types)), body)

ReadTypes(types, body) ==
  IF types # << >> /\ Head(types) = "REPEAT" THEN ReadRepeat(types, body)
  ELSE ReadAll(Start, types, body)

(* How many arguments are on the script's stack. *)
PushedBy(types, body) ==
  1 + Len(ReadTypes(types, body).args)
    + (IF types # << >> /\ Head(types) = "REPEAT" /\ Len(body) >= 2 /\ CountAt(body, 0) > 0
         THEN 1 ELSE 0)

(* What ReadParam returns: -1, 0 or the number of arguments it counted. *)
ReadParam(config, id, body) ==
  IF id \notin DOMAIN config \/ config[id].function = "" THEN 0
  ELSE IF config[id].function # "defined" THEN -1
  ELSE LET r == ReadTypes(config[id].types, body) IN IF r.ok THEN r.cnt ELSE 0
===============================================================================
