-------------------------------- MODULE MCGfx --------------------------------
(* The environments of GfxPipeline that TLC explores. *)
EXTENDS GfxPipeline

World(kinds, faults, suspends) == [kinds |-> kinds, faults |-> faults, suspends |-> suspends]

\* Every client, every failure of the encoder, writes that suspend; and a
\* first picture for those who open the channel.
Environments == {World(AllKinds, AllFaults, TRUE), World({"avc", "noavc"}, {}, FALSE)}

\* Writes that suspend, with a client that takes H.264.
Slow == {World({"avc"}, {}, TRUE)}

\* One client that takes H.264 and one without a graphics channel.
TwoClients == {World({"avc", "nogfx"}, {}, FALSE)}
==============================================================================
