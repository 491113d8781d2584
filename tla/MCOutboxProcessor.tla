--------------------------- MODULE MCOutboxProcessor ---------------------------
(* Values for TLC.  The relay has a message for one of the events only, and *)
(* the two ceilings let one caller dead-letter what another would retry.    *)
EXTENDS OutboxProcessor

CONSTANTS e1, e2, w1, w2

MCEvents == {e1, e2}
MCProjected == {e1}
MCCallers == {w1, w2}
MCCeilings == {1, 3}
=============================================================================
