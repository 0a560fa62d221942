---------------------------- MODULE MCPublicLink ----------------------------
EXTENDS PublicLink

CONSTANTS t1, t2, bad, none
MCTexts == {none, t1, t2, bad}
MCMalformed == {bad}
\* Around one block, and around several.
MCPayloadSizes == {1, 15, 16, 17, 95, 96}
=============================================================================
