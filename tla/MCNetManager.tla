---------------------------- MODULE MCNetManager ----------------------------
(* An instance of NetManager for TLC: three of the five rails, which are    *)
(* nets 1 to 3, with the rules the code has for them, and rows whose        *)
(* numbers are those of the nets behind.                                    *)
EXTENDS NetManager

GND == 100
TOP_RAIL == 101
DAC0 == 106
GPIO1 == 131

MCRails == <<GND, TOP_RAIL, DAC0>>
MCPins == {GPIO1}
MCRows == 4..10
MCConnectable ==
    {<<4, 5>>, <<6, 7>>, <<9, 10>>, <<8, GPIO1>>, <<4, GPIO1>>, <<GPIO1, 5>>,
     <<GND, 4>>, <<8, TOP_RAIL>>, <<GND, DAC0>>, <<TOP_RAIL, GPIO1>>}
MCNeverJoined ==
    {<<GND, TOP_RAIL>>, <<TOP_RAIL, DAC0>>, <<GPIO1, TOP_RAIL>>, <<GPIO1, DAC0>>}
MCKeptOut == <<{TOP_RAIL}, {GND, DAC0}, {TOP_RAIL}>>
=============================================================================
