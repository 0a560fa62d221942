---------------------------- MODULE MCIcuUtilities ----------------------------
EXTENDS IcuUtilities

CONSTANTS pt, en, p1, p2, none, args, n1, n2, w1

MCLocales == {pt, en}
MCPortuguese == {pt}
MCPatterns == {p1, p2}
MCArguments == {none, args}
\* Two numbers, so that the major and the minor one can be told apart.
MCNumbers == {n1, n2}
MCWordings == {w1}
=============================================================================
