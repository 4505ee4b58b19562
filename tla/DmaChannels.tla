----------------------------- MODULE DmaChannels -----------------------------
(***************************************************************************)
(* DMACache between its hosts (vga_controller.vhd, sound_controller.vhd)   *)
(* and port 0 of the SDRAM controller.                                     *)
(*                                                                         *)
(* The controller's side is what sdram.vhd shows of itself: a request is   *)
(* decided upon in phase 2 of each round, and the eight words of a granted *)
(* burst are strobed in phases 10 to 1.  A host sets an address and a      *)
(* length, then asks for the words one at a time.                          *)
(***************************************************************************)
EXTENDS DMACache

CONSTANTS
    Starts, Lengths,   \* per channel: the addresses and lengths its host sets
    Video,             \* channels that set the address once and then a length per line
    Eager,             \* channels whose host asks before the first word can be there
    Abrupt             \* channels whose host sets a new address while a burst is on its way
ASSUME HostAssumption ==
    /\ Starts \in [Channel -> SUBSET Address]
    /\ Lengths \in [Channel -> SUBSET (0 .. MaxLen)]
    /\ Video \subseteq Channel /\ Eager \subseteq Channel /\ Abrupt \subseteq Channel

VARIABLES
    phase, burst, rsp,  \* the controller: phase, line being fetched (or NoBurst), vga_ack/vga_nak
    host,               \* channels_from_host
    asked,              \* words of the transfer the host has still to ask for
    waiting,            \* a word was asked for and has not come
    want,               \* history: address of the next word the host is owed
    stock               \* history: words written to the FIFO and not yet read; negative
                        \* while the words before an unaligned start are still to come

portVars == <<phase, burst, rsp>>
hostVars == <<host, asked, waiting, want, stock>>
vars == <<dmaVars, portVars, hostVars>>

NoBurst == -8
NoWord == -1       \* no address was set yet

-----------------------------------------------------------------------------
(* Port 0 of the SDRAM controller.                                         *)

fillPhase == burst # NoBurst /\ phase \in (10 .. 15) \union {0, 1}
Strobed == IF fillPhase THEN burst + ((phase - 10) % 16) ELSE 0
LineOf(a) == a - (a % 8)

\* A request is granted unless the bank is busy or a refresh is due; "nak"
\* is only said when another port gets the slot, and that only when nothing
\* was requested.
Port0(granted) ==
    /\ phase' = (phase + 1) % 16
    /\ IF phase # 2 THEN rsp' = "none" /\ UNCHANGED burst
       ELSE IF sdram_req /\ granted
       THEN rsp' = "ack" /\ burst' = LineOf(internals[activechannel].addr)
       ELSE /\ burst' = NoBurst
            /\ rsp' \in IF sdram_req THEN {"none"} ELSE {"none", "nak"}

-----------------------------------------------------------------------------
(* Hosts.                                                                  *)

\* No burst of the channel is on its way or about to be asked for: every word
\* it may hold has arrived.  Between two frames, or two samples, there is time
\* enough for that.
Quiet(c) ==
    /\ ~waiting[c] /\ ~host[c].setaddr /\ ~host[c].setreqlen
    /\ Full(c) \/ internals[c].count <= 0
    /\ ~(activechannel = c /\ inputstate # rd1)

\* Bandwidth: the host asks for a word only when it can be there.
Ready(c) == c \in Eager \/ (stock[c] > 0 /\ ~host[c].setaddr)

\* What a host may do in a clock.  A video host sets its address at the start
\* of a frame and a length for each line; the others set both at once.
MayAsk(c) == asked[c] > 0 /\ (~waiting[c] \/ valid[c]) /\ Ready(c)
MaySet(c) == Quiet(c) \/ (c \in Abrupt /\ ~waiting[c] /\ ~host[c].setaddr)
MayContinue(c) == c \in Video /\ asked[c] = 0 /\ ~waiting[c] /\ want[c] # NoWord

Rest == [kind |-> "rest"]
Ask == [kind |-> "ask"]
SetAddr(a) == [kind |-> "address", addr |-> a]
SetLen(n) == [kind |-> "length", len |-> n]
SetBoth(a, n) == [kind |-> "both", addr |-> a, len |-> n]

Moves(c) ==
    {Rest} \union (IF MayAsk(c) THEN {Ask} ELSE {})
    \union (IF MayContinue(c) THEN {SetLen(n) : n \in Lengths[c]} ELSE {})
    \union (IF ~MaySet(c) THEN {}
            ELSE IF c \in Video THEN {SetAddr(a) : a \in Starts[c]}
            ELSE {SetBoth(a, n) : a \in Starts[c], n \in Lengths[c]})

Setting(m) == m.kind \in {"address", "both"}
Sizing(m) == m.kind \in {"length", "both"}

Hosts(move) ==
    /\ host' = [c \in Channel |->
          [setaddr |-> Setting(move[c]),
           addr |-> IF Setting(move[c]) THEN move[c].addr ELSE host[c].addr,
           setreqlen |-> Sizing(move[c]),
           reqlen |-> IF Sizing(move[c]) THEN move[c].len ELSE host[c].reqlen,
           req |-> move[c] = Ask]]
    /\ asked' = [c \in Channel |->
          CASE Sizing(move[c]) -> move[c].len [] move[c].kind = "address" -> 0
            [] move[c] = Ask -> asked[c] - 1 [] OTHER -> asked[c]]
    /\ waiting' = [c \in Channel |->
          move[c] = Ask \/ (waiting[c] /\ ~valid[c] /\ ~Setting(move[c]))]
    /\ want' = [c \in Channel |->
          IF Setting(move[c]) THEN move[c].addr
          ELSE IF valid[c] /\ waiting[c] THEN (want[c] + 1) % Memory ELSE want[c]]

Landed(c) == cache_wren /\ cache_wraddr.chan = c
Stock ==
    stock' = [c \in Channel |->
        IF host[c].setaddr THEN -(host[c].addr % 8)
        ELSE stock[c] + (IF Landed(c) THEN 1 ELSE 0) - (IF Served(c) THEN 1 ELSE 0)]

-----------------------------------------------------------------------------
Init ==
    /\ DmaInit
    /\ phase = 0 /\ burst = NoBurst /\ rsp = "none"
    /\ host = [c \in Channel |-> [setaddr |-> FALSE, addr |-> 0, setreqlen |-> FALSE,
                                  reqlen |-> 0, req |-> FALSE]]
    /\ asked = [c \in Channel |-> 0] /\ waiting = [c \in Channel |-> FALSE]
    /\ want = [c \in Channel |-> NoWord] /\ stock = [c \in Channel |-> 0]

Tick(granted, move) ==
    /\ DmaTick(host, rsp = "ack", rsp = "nak", fillPhase, Strobed)
    /\ Port0(granted)
    /\ Hosts(move)
    /\ Stock

AllMoves == {m \in [Channel -> UNION {Moves(c) : c \in Channel}] : \A c \in Channel : m[c] \in Moves(c)}
Next == \E granted \in BOOLEAN, move \in AllMoves : Tick(granted, move)

Spec == Init /\ [][Next]_vars /\ WF_vars(Next)

-----------------------------------------------------------------------------
TypeOK ==
    /\ DmaTypeOK
    /\ phase \in 0 .. 15 /\ rsp \in {"none", "ack", "nak"}
    /\ burst = NoBurst \/ burst \in Address
    /\ host \in [Channel -> FromHost]
    /\ asked \in [Channel -> 0 .. MaxLen] /\ waiting \in [Channel -> BOOLEAN]
    /\ want \in [Channel -> Address \union {NoWord}]
    /\ stock \in [Channel -> -8 .. Depth + 8]

\* Every word asked for is answered once, with the next word of the transfer:
\* the pointers of a channel's FIFO, its burst on its way and its registered
\* write port agree, whatever the other channels fetch and ask for meanwhile.
AnsweredInOrder == \A c \in Channel : valid[c] => waiting[c] /\ data_out = want[c]

\* A burst is asked for only when it fits, so that no word is overwritten before
\* it was read, although the counter lags behind the words that are arriving; and
\* a host is served only from words that have arrived, although it starts at 1.
StockKept ==
    \A c \in Channel : (Landed(c) => stock[c] < Depth) /\ (Served(c) => stock[c] > 0)

\* When the last burst of a transfer has arrived, the FIFO holds every word
\* its host has still to ask for, wherever in a burst the transfer began.
TransferCovered ==
    \A c \in Channel :
        /\ internals[c].count <= 0 /\ ~(activechannel = c /\ inputstate # rd1)
        /\ ~cache_wren /\ ~host[c].setaddr /\ ~host[c].setreqlen
        => asked[c] <= stock[c]

=============================================================================
