------------------------------ MODULE MCCabac ------------------------------
EXTENDS Cabac

\* Two contexts: an adaptive one close to one half, and a slow one that is
\* nearly certain of a zero.
MCContexts == [c \in {"even", "sure"} |->
  IF c = "even" THEN InitModel(32, 35, 8) ELSE InitModel(40, 16, 1)]

\* Remainders of coefficients, one with the longest prefix, and a difference of
\* motion vectors.
MCRemainders ==
  [kind : {"rem"}, value : {9, 12, 20000}, rice : {1}, cutoff : {5}, log2Range : {15}]
  \cup [kind : {"rem"}, value : {5}, rice : {1}, cutoff : {0}, log2Range : {17}]

\* The patterns of equally probable bins leave bytes 0xff behind that wait for a
\* carry, up to four of them, and then set off the carry.
MCOps ==
  [kind : {"ctx"}, ctx : {"even", "sure"}, bin : {0, 1}]
  \cup {[kind |-> "ep", bin |-> 1], [kind |-> "trm", bin |-> 0], [kind |-> "align"]}
  \cup {[kind |-> "eps", bins |-> 257, num |-> 16], [kind |-> "eps", bins |-> 65535, num |-> 16],
        [kind |-> "eps", bins |-> 510, num |-> 9]}
  \cup MCRemainders
=============================================================================
