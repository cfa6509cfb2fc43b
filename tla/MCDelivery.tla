----------------------------- MODULE MCDelivery -----------------------------
(***************************************************************************)
(* Small instances of Delivery for TLC.                                    *)
(***************************************************************************)
EXTENDS Delivery

MCEmailChannels   == {0}
MCWebhookChannels == {1, 2}
MCSnapshots       == {{0, 1}, {1, 2}}
=============================================================================
