------------------------------- MODULE MCReader -------------------------------
(***************************************************************************)
(* The reader with its sizes scaled down by 120: the stdio block is a      *)
(* whole number of samples but not of reads, neither of the input's nor of *)
(* the pipe's, as 4096 bytes are against 1440.                             *)
(***************************************************************************)
EXTENDS Reader

MCFILE_READ_SIZE == 12
MCUSB_READ_SIZE == 8
MCBUFSIZ == 32
MCPIPE_SIZE == 64
MCPIPE_READ_SIZE == 6

\* 75 samples and an odd byte.
MCInput == [i \in 1 .. 151 |-> (i * 37 + i \div 7) % 256]

File == [opt |-> "f"]
Card(n) == [opt |-> "uc", card |-> n]
ById(v, p) == [opt |-> "ui", vendor |-> v, product |-> p]
Gain(n) == [opt |-> "g", gain |-> n]
Little == [opt |-> "l"]
Big == [opt |-> "b"]
Bad == [opt |-> "bad"]

\* The bus and the cards: the dongle as card 1, as cards 0 and 1, as card 2
\* only; a device that cannot be asked; nothing at all.
Hub == <<7531, 2>>
Dongle == <<3034, 10296>>
Computer(devices, cards) == [devices |-> devices, cards |-> [c \in cards |-> Dongle]]
MCSystems ==
    {Computer(<<Hub, Dongle>>, {1}), Computer(<<Hub, Dongle>>, {0, 1}),
     Computer(<<Dongle, Hub>>, {2}), Computer(<< << >>, Dongle>>, {1}), Computer(<< >>, {})}

MCCommandLines ==
    {<<Little, File>>, <<File, Gain(2)>>, <<Big, Card(1), Gain(0)>>, <<File, ById(3034, 10296)>>,
     <<ById(3034, 10296), Card(1), File>>, <<Little>>, <<Bad>>}

MCStarts ==
    [args: MCCommandLines, system: {Computer(<<Hub, Dongle>>, {1})}]
        \cup [args: {<<ById(3034, 10296)>>}, system: MCSystems]
MCMaxOverruns == 1
===============================================================================
