------------------------------- MODULE Messages -------------------------------
(***************************************************************************)
(* The packages the script fills and sends, messageBegin ... add ...       *)
(* messageEnd (src/Src/server/packager_interface.cpp, msgpackager.cpp),    *)
(* over the runs of the script that use them: a message's                  *)
(* (lua_module.cpp HandleMsg), another's (a timer's or the console's) and  *)
(* one nested in a run, which addTimer makes of a timer with start 0.      *)
(* _lua_lock lets one of them run at a time.                               *)
(*                                                                         *)
(* The script is external: each of its runs opens, fills and closes its    *)
(* messages as brackets, and may be ended by an error anywhere.  What it   *)
(* means to send is a ghost (open) beside what the engine keeps.           *)
(***************************************************************************)
EXTENDS Params

CONSTANTS
  HeadSize,    (* sizeof(MsgHead) - sizeof(long): 8                         *)
  MaxSend,     (* MAX_SEND_DATA_SIZE: 25000                                 *)
  Wrap,        (* values of an unsigned short: 65536                        *)
  BufferSize,  (* bytes of a MsgBuffer: MaxSend + 2                         *)
  Nodes,       (* the messages of the configuration file                    *)
  Player,      (* unsigned int, AU_VALIDE_SOCKET_FD included                *)
  Value,       (* the values a script adds                                  *)
  Incoming,    (* the messages that arrive: an id and a body                *)
  MaxValues,   (* bound: values in the messages that are open               *)
  MaxPackages, (* bound: packages at a time                                 *)
  MaxRuns,     (* bound: nesting of runs                                    *)
  MaxLeft      (* bound: times something is left over between two wipes     *)

ASSUME MessagesAssumption ==
  /\ HeadSize \in Nat \ {0} /\ MaxSend \in Nat /\ Wrap \in Nat
  /\ HeadSize < MaxSend /\ MaxSend < Wrap /\ MaxSend - HeadSize - 2 <= Base * Base
  /\ BufferSize \in Nat /\ MaxSend <= BufferSize
  /\ Player \subseteq Nat
  /\ Value \subseteq [type : DOMAIN Width \cup {"STRING"}, bytes : Seq(0 .. Base - 1)]
  /\ \A v \in Value : IF v.type = "STRING" THEN Zeros(v.bytes) = {}
                      ELSE Len(v.bytes) = Width[v.type]
  /\ Nodes \in Seq([id : Int, words : Seq(STRING), function : STRING])
  /\ Incoming \subseteq [id : Int, body : Seq(0 .. Base - 1)]
  /\ MaxValues \in Nat /\ MaxPackages \in Nat \ {0} /\ MaxRuns \in Nat /\ MaxLeft \in Nat

VARIABLES
  msgcfg,     (* the messages the configuration defines, by id               *)
  packages,  (* g_packager, if there is one, then package_stack from its top *)
  runs,      (* kinds of the runs of the script, the outermost first        *)
  open,      (* the messages the runs are filling, the latest first         *)
  left,      (* times since the last wipe something may have been left over *)
  sent,      (* what the last step gave to PushMsgToSock, if anything       *)
  handed     (* the message the last step gave to HandleLuaFun, if any      *)

messageVars == << msgcfg, packages, runs, open, left, sent, handed >>

MessagesInit ==
  /\ msgcfg = ReadMsgConfigure(Nodes)
  /\ packages = << >> /\ runs = << >> /\ open = << >>
  /\ left = 0 /\ sent = << >> /\ handed = << >>

Quiet == sent' = << >> /\ handed' = << >> /\ UNCHANGED msgcfg

-------------------------------------------------------------------------------
(* A package: datasize is an unsigned short; body is what lies between the  *)
(* header and the position of the next value.                               *)

MessageBegin(player) == [player |-> player, datasize |-> HeadSize, body |-> << >>]

(* A value that does not fit is counted all the same. *)
AddValueWide(p, v) ==     \* mutant: the size is not an unsigned short
  [p EXCEPT !.datasize = @ + SizeOf(v),
            !.body = IF p.datasize + SizeOf(v) >= MaxSend THEN @ ELSE @ \o Encode(v)]
AddValue(p, v) ==
  LET size == (p.datasize + SizeOf(v)) % Wrap
  IN  [p EXCEPT !.datasize = size,
                !.body = IF size >= MaxSend THEN @ ELSE @ \o Encode(v)]

(* A string that does not fit is left out; its length is an unsigned short. *)
Kept(v) == [v EXCEPT !.bytes = SubSeq(@, 1, Len(@) % Wrap)]
AddValueString(p, v) ==
  IF p.datasize + SizeOf(Kept(v)) >= MaxSend THEN p
  ELSE [p EXCEPT !.datasize = @ + SizeOf(Kept(v)), !.body = @ \o Encode(Kept(v))]

Add(p, v) == IF v.type = "STRING" THEN AddValueString(p, v) ELSE AddValue(p, v)

MessageEnd(p) == p.datasize > HeadSize /\ p.datasize < MaxSend
GetPackageData(p) == SubSeq(p.body, 1, p.datasize - HeadSize)
GetPlayerID(p) == p.player % Wrap
Clear(p) == [p EXCEPT !.datasize = 0]

-------------------------------------------------------------------------------
(* The packages. *)

GetPackagerReuses(p) ==     \* mutant: a package in use is taken again
  IF packages # << >> THEN << p >> \o Tail(packages) ELSE << p >>
GetPackager(p) ==
  IF packages # << >> /\ packages[1].datasize = 0 THEN << p >> \o Tail(packages)
  ELSE << p >> \o packages

ReleasePackage ==
  IF Len(packages) > 1 THEN Tail(packages) ELSE << Clear(packages[1]) >>

CheckPackError == IF packages = << >> THEN << >> ELSE << Clear(packages[1]) >>

-------------------------------------------------------------------------------
(* Runs of the script.  A message belongs to the run at whose depth it was  *)
(* opened; bytes and size are what all of its values make.  tainted: its    *)
(* package may not be where the run takes it to be, since a nested run left *)
(* its own behind or a size wrapped round.                                  *)

Depth == Len(runs)
InMessage == open # << >> /\ open[1].run = Depth
Taint(messages) == [i \in DOMAIN messages |-> [messages[i] EXCEPT !.tainted = TRUE]]

ScriptBegins(player) ==
  /\ runs # << >> /\ Len(packages) < MaxPackages
  /\ packages' = GetPackager(MessageBegin(player))
  /\ open' = << [run |-> Depth, player |-> player, values |-> << >>,
              bytes |-> << >>, size |-> HeadSize, tainted |-> FALSE] >> \o open
  /\ Quiet /\ UNCHANGED << runs, left >>

Wraps(p, v) == v.type \in DOMAIN Width /\ p.datasize + SizeOf(v) >= Wrap

(* MaxValues: two values fewer for each package beneath.  What an addition  *)
(* behind the end of the buffer overwrites is not modelled.                 *)
CanAdd(v) ==
  /\ InMessage
  /\ Len(open[1].values) + 2 * Len(packages) < MaxValues + 2
  /\ HeadSize + Len(Add(packages[1], v).body) <= BufferSize
  /\ Wraps(packages[1], v) => left < MaxLeft

ScriptAdds(v) ==
  /\ CanAdd(v)
  /\ packages' = [packages EXCEPT ![1] = Add(@, v)]
  /\ LET added == [open EXCEPT ![1].values = Append(@, v), ![1].bytes = @ \o Encode(v),
                                ![1].size = @ + SizeOf(v)]
     IN  IF Wraps(packages[1], v)
           THEN open' = Taint(added) /\ left' = left + 1
           ELSE open' = added /\ UNCHANGED left
  /\ Quiet /\ UNCHANGED runs

ScriptEnds ==
  /\ InMessage
  /\ sent' = IF MessageEnd(packages[1])
               THEN << [to |-> GetPlayerID(packages[1]), body |-> GetPackageData(packages[1]),
                        meant |-> open[1]] >>
               ELSE << >>
  /\ packages' = ReleasePackage
  /\ open' = Tail(open)
  /\ handed' = << >> /\ UNCHANGED << msgcfg, runs, left >>

-------------------------------------------------------------------------------
(* How runs begin and end. *)

OtherRunBegins ==
  /\ runs = << >> /\ runs' = << "other" >>
  /\ Quiet /\ UNCHANGED << packages, open, left >>

NestedRunBegins ==
  /\ runs # << >> /\ Depth < MaxRuns
  /\ runs' = Append(runs, "nested")
  /\ Quiet /\ UNCHANGED << packages, open, left >>

(* HandleLuaFun: the script's function is called with as many of the values *)
(* on the script's stack as ReadParam counted, which is an error when it    *)
(* did not push so many.                                                    *)
CallsFunction(id, body) ==
  LET cnt == ReadParam(msgcfg, id, body)
  IN  cnt > 0 /\ cnt = PushedBy(msgcfg[id].types, body)

HandleLuaFun(msg) ==
  /\ runs = << >>
  /\ handed' = << [id |-> msg.id, body |-> msg.body, cnt |-> ReadParam(msgcfg, msg.id, msg.body)] >>
  /\ IF CallsFunction(msg.id, msg.body)
       THEN runs' = << "message" >> /\ UNCHANGED << packages, left >>
       ELSE packages' = CheckPackError /\ left' = 0 /\ UNCHANGED runs
  /\ sent' = << >> /\ UNCHANGED << msgcfg, open >>

ScriptReturns ==
  /\ runs # << >> /\ ~InMessage
  /\ runs' = SubSeq(runs, 1, Depth - 1)
  /\ Quiet /\ UNCHANGED << packages, open, left >>

(* An error ends the run: of a message's run the engine wipes the packages, *)
(* any other leaves its own on the ones of the run around.                  *)
Mine == {i \in DOMAIN open : open[i].run = Depth}
Outer == SubSeq(open, Cardinality(Mine) + 1, Len(open))

ScriptFails ==
  /\ runs # << >>
  /\ (runs[Depth] # "message" /\ InMessage) => left < MaxLeft
  /\ runs' = SubSeq(runs, 1, Depth - 1)
  /\ IF runs[Depth] = "message"
       THEN packages' = CheckPackError /\ left' = 0 /\ open' = << >>
       ELSE /\ open' = IF InMessage THEN Taint(Outer) ELSE open
            /\ left' = IF InMessage THEN left + 1 ELSE left
            /\ UNCHANGED packages
  /\ Quiet

MessagesNext ==
  \/ OtherRunBegins \/ NestedRunBegins
  \/ \E msg \in Incoming : HandleLuaFun(msg)
  \/ \E player \in Player : ScriptBegins(player)
  \/ \E v \in Value : ScriptAdds(v)
  \/ ScriptEnds \/ ScriptReturns \/ ScriptFails

MessagesSpec == MessagesInit /\ [][MessagesNext]_messageVars

-------------------------------------------------------------------------------
(* The types. *)
MessagesTypeOK ==
  /\ packages \in Seq([player : Player, datasize : 0 .. Wrap - 1, body : Seq(0 .. Base - 1)])
  /\ runs \in Seq({"message", "other", "nested"})
  /\ open \in Seq([run : Nat, player : Player, values : Seq(Value),
                   bytes : Seq(0 .. Base - 1), size : Nat, tainted : BOOLEAN])
  /\ left \in Nat

Fits(message) == message.size < MaxSend

(* The values as the package takes them: a string's length is an unsigned   *)
(* short.                                                                   *)
Cut(values) ==
  [k \in DOMAIN values |-> IF values[k].type = "STRING" THEN Kept(values[k]) ELSE values[k]]

(* What a script sends holds, when it fits, exactly the values it added, in *)
(* their order, whatever other runs began, sent or left behind in between:  *)
(* messageEnd takes the package on top of package_stack for the one the     *)
(* script means.  Of a message that does not fit only strings can be        *)
(* missing when it goes out, or be cut to their length as an unsigned       *)
(* short: AddValue counts what it does not store, so that MessageEnd        *)
(* refuses the package; AddValueString does not.  The message is for the    *)
(* player named, taken modulo 65536: GetPlayerID returns the unsigned int   *)
(* as an unsigned short, so a player above 65535 is not reached, and        *)
(* another may be.                                                          *)
SentAsAdded ==
  \A i \in DOMAIN sent :
    LET meant == sent[i].meant
        strings == {k \in DOMAIN meant.values : meant.values[k].type = "STRING"}
        Without(out) == EncodeSome(Cut(meant.values), DOMAIN meant.values \ out)
    IN  ~meant.tainted =>
          /\ sent[i].to = meant.player % Wrap
          /\ Fits(meant) => sent[i].body = meant.bytes
          /\ \E out \in SUBSET strings : sent[i].body = Without(out)

(* The receiver of a message that fits, configured with the types of its    *)
(* values, reads exactly those values.                                      *)
ReadAsAdded ==
  \A i \in DOMAIN sent :
    LET values == sent[i].meant.values
        types == [k \in DOMAIN values |-> values[k].type]
        r == ReadTypes(types, sent[i].body)
    IN  ~sent[i].meant.tainted /\ Fits(sent[i].meant) =>
          r.ok /\ r.args = values /\ r.cnt = 1 + Len(values)

(* What the script's function is called with for a message is what the      *)
(* message says: written again, the arguments are the front of its body,    *)
(* unless a string of it holds a 0, and the function is called with them.   *)
(* ReadParam counts a type that is none without pushing anything; only the  *)
(* last type of a message's configuration can be one, and REPEAT behind the *)
(* first place.                                                             *)
ArgumentsAsReceived ==
  \A i \in DOMAIN handed : handed[i].cnt > 0 =>
    LET types == msgcfg[handed[i].id].types
        r == ReadTypes(types, handed[i].body)
        repeats == Head(types) = "REPEAT" /\ Len(handed[i].body) >= 2
        written == (IF types # << >> /\ repeats THEN SubSeq(handed[i].body, 1, 2) ELSE << >>)
                   \o EncodeAll(r.args)
    IN  /\ r.whole => SubSeq(handed[i].body, 1, Len(written)) = written
        /\ CallsFunction(handed[i].id, handed[i].body)
           \/ types[Len(types)] = "ERROR"
           \/ \E k \in 2 .. Len(types) : types[k] = "REPEAT"
===============================================================================
