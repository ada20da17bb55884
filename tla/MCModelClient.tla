---------------------------- MODULE MCModelClient ----------------------------
\* Module ModelClient for TLC, alone; one of the answers is cut off.
EXTENDS ModelClient, TLC

CONSTANTS k1, k2, k3, whole, cut
MCKeys == {k1, k2, k3}
MCResponses == {whole, cut}
MCUsable == {whole}
=============================================================================
