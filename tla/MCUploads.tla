----------------------------- MODULE MCUploads -----------------------------
EXTENDS Uploads

CONSTANTS f1, c1, c2

MCOneFile  == {f1}
MCTwoParts == {1, 2}
MCCalls    == {c1, c2}
=============================================================================
