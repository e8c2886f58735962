------------------------------- MODULE Command -------------------------------
(***************************************************************************)
(* The control frames of LoganManager/Command.cpp: Command keeps the       *)
(* fields of a frame and, in cmdset, its bytes                             *)
(*     begin address type command length data... checksum end              *)
(* which every setter writes anew.  Bytes that an earlier, longer frame    *)
(* left behind the end stay.                                               *)
(***************************************************************************)
EXTENDS Integers, Sequences

CONSTANTS
    Addresses, Types, Cmds,   \* the bytes the setters are given
    Datas,                    \* the data that setData is given
    MaxCalls                  \* bound: calls of setters

Byte == 256
Bytes == 0..(Byte - 1)
Begin == 254
End == 255
max_length == 7 + 255

ASSUME InputAssumption ==
    /\ Addresses \subseteq Bytes /\ Types \subseteq Bytes /\ Cmds \subseteq Bytes
    /\ Datas \subseteq Seq(Bytes)
    /\ MaxCalls \in Nat

VARIABLES
    command,   \* the object: fields, check and cmdset
    given,     \* history: what the setters were given, and whether any ran
    calls      \* history: how many did

vars == <<command, given, calls>>

Frames == [address : Bytes, ctype : Bytes, cmd : Bytes, data : Seq(Bytes),
           check : Bytes, cmdset : [0..(max_length - 1) -> Bytes]]

length(C) == Len(C.data)
getCmdLength(C) == length(C) + 7

TypeOK ==
    /\ command \in Frames /\ length(command) \in Bytes
    /\ given \in [address : Bytes, ctype : Bytes, cmd : Bytes,
                  data : Seq(Bytes), set : BOOLEAN]
    /\ calls \in 0..MaxCalls

-----------------------------------------------------------------------------
(* The sum of the bytes of s: of those from lo + 1 to hi, by halves.        *)
Sum(s) ==
    LET f[r \in (0..Len(s)) \X (0..Len(s))] ==
          LET lo == r[1]
              hi == r[2]
              mid == (lo + hi) \div 2
          IN  IF lo >= hi THEN 0
              ELSE IF lo + 1 = hi THEN s[hi]
              ELSE f[<<lo, mid>>] + f[<<mid, hi>>]
    IN  f[<<0, Len(s)>>]

CheckOf(address, ctype, cmd, data) ==
    (address + ctype + cmd + Len(data) + Sum(data)) % Byte

calcCheck(C) ==
    [C EXCEPT !.check = CheckOf(C.address, C.ctype, C.cmd, C.data)]

FrameOf(C) ==
    <<Begin, C.address, C.ctype, C.cmd, length(C)>> \o C.data
    \o <<C.check, End>>

makecmd(C) ==
    [C EXCEPT !.cmdset = [i \in 0..(max_length - 1) |->
        IF i < getCmdLength(C) THEN FrameOf(C)[i + 1] ELSE C.cmdset[i]]]

(* Mutant: the bytes are written before the checksum is known. *)
update_Early(C) == calcCheck(makecmd(C))
update(C) == makecmd(calcCheck(C))

setAddress(C, address) == update([C EXCEPT !.address = address])
setType(C, ctype)      == update([C EXCEPT !.ctype = ctype])
setCmd(C, cmd)         == update([C EXCEPT !.cmd = cmd])

(* A negative length changes nothing.  The length is stored in a byte       *)
(* before it is compared with 0xff.                                         *)
setData(C, udata, len) ==
    IF len < 0 THEN C
    ELSE update([C EXCEPT !.data = SubSeq(udata, 1, len % Byte)])

parseCommand(C, address, ctype, cmd, data) ==
    setData(setCmd(setType(setAddress(C, address), ctype), cmd),
            data, Len(data))

(* The constructor writes the frame once, with a checksum that was not      *)
(* computed.                                                                *)
NewCommand ==
    makecmd([address |-> 1, ctype |-> 240, cmd |-> 0, data |-> <<>>,
             check |-> 239, cmdset |-> [i \in 0..(max_length - 1) |-> 0]])

Init ==
    /\ command = NewCommand
    /\ given = [address |-> 1, ctype |-> 240, cmd |-> 0, data |-> <<>>,
                set |-> FALSE]
    /\ calls = 0

-----------------------------------------------------------------------------
(* The table of Cmd::Init, and the requests for a sound's level. *)
Table ==
    { <<0, 3, 144, <<>> >>,                                  \* CenterCtrlFlag
      <<0, 2, 130, <<0>> >>, <<0, 2, 130, <<1>> >>,          \* Sys
      <<0, 2, 104, <<0, 1>> >>, <<0, 2, 104, <<0, 0>> >>,    \* Projector
      <<0, 2, 11, <<35>> >>, <<0, 2, 11, <<50>> >> }         \* Screen
    \cup {<<0, 2, 68, <<sound, step>> >> : sound \in 0..3, step \in {1, 255}}
    \cup {<<0, 2, 68, <<0, 0>> >>}                           \* Mute

GetCurrentSound(address, sound) == <<address, 2, 64, <<sound>> >>

Requests == Table \cup {GetCurrentSound(a, s) : a \in Addresses, s \in 0..3}

SetAddress == \E a \in Addresses :
    /\ command' = setAddress(command, a)
    /\ given' = [given EXCEPT !.address = a, !.set = TRUE]

SetType == \E t \in Types :
    /\ command' = setType(command, t)
    /\ given' = [given EXCEPT !.ctype = t, !.set = TRUE]

SetCmd == \E c \in Cmds :
    /\ command' = setCmd(command, c)
    /\ given' = [given EXCEPT !.cmd = c, !.set = TRUE]

SetData == \E d \in Datas :
    /\ command' = setData(command, d, Len(d))
    /\ given' = [given EXCEPT !.data = d, !.set = TRUE]

SetNothing == \E d \in Datas :
    /\ command' = setData(command, d, -1)
    /\ given' = given

Parse ==
    \E row \in Requests :
        /\ command' = parseCommand(command, row[1], row[2], row[3], row[4])
        /\ given' = [address |-> row[1], ctype |-> row[2], cmd |-> row[3],
                     data |-> row[4], set |-> TRUE]

Next ==
    /\ calls < MaxCalls /\ calls' = calls + 1
    /\ SetAddress \/ SetType \/ SetCmd \/ SetData \/ SetNothing \/ Parse

Spec == Init /\ [][Next]_vars

-----------------------------------------------------------------------------
(* What a device reads from the bytes it is sent. *)
Read(b) == [address |-> b[1], ctype |-> b[2], cmd |-> b[3],
            data |-> [i \in 1..b[4] |-> b[4 + i]]]

WellFormed(b) ==
    /\ b[0] = Begin /\ b[6 + b[4]] = End
    /\ LET r == Read(b)
       IN  b[5 + b[4]] = CheckOf(r.address, r.ctype, r.cmd, r.data)

(* Once a setter has run, the bytes are a frame with a right checksum, and a *)
(* device reads from them what the setters were given last, in whatever      *)
(* order they ran and however long the frames before were.                   *)
FrameDecodes ==
    given.set /\ Len(given.data) < Byte =>
        /\ WellFormed(command.cmdset)
        /\ Read(command.cmdset) = [address |-> given.address,
                                   ctype |-> given.ctype, cmd |-> given.cmd,
                                   data |-> given.data]

(* A device that checks what it is sent sees when one byte of a frame has   *)
(* changed on the way, whichever it is but the length.                      *)
ChangeShows ==
    given.set =>
        LET b == command.cmdset
        IN  \A k \in (0..(6 + b[4])) \ {4}, v \in Bytes :
              v # b[k] => ~WellFormed([b EXCEPT ![k] = v])
=============================================================================
