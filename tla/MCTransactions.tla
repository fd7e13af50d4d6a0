---------------------------- MODULE MCTransactions ----------------------------
(* A small instance of Transactions: two connections, two levels, one account  *)
(* and requests for another that does not exist.                               *)
EXTENDS Transactions

MCTexts == {"a", "b"}
MCLists == {<<"b", "a">>}

Level(k, o, h) == [key |-> k, order |-> o, hints |-> h]

\* A good file, one with two levels of one order_index, and one with a tool
\* that names no level of it.
GoodFile == [levels |-> <<Level("k2", 2, <<"a">>), Level("k1", 1, <<>>)>>,
             tools |-> <<"k1">>]
SameOrder == [levels |-> <<Level("k1", 1, <<>>), Level("k2", 1, <<>>)>>, tools |-> <<>>]
UnknownLevel == [levels |-> <<>>, tools |-> <<"k2">>]
MCFiles == {GoodFile, SameOrder, UnknownLevel}

MCOffered ==
    {[kind |-> "replace", level |-> 1, list |-> <<"b", "a">>],
     [kind |-> "read", level |-> 1],
     [kind |-> "put", user |-> "ann", role |-> "admin", goal |-> 2],
     [kind |-> "put", user |-> "bob", role |-> "player", goal |-> 0],
     [kind |-> "put", user |-> "bob", role |-> Gone, goal |-> 1]}
      \cup Load
=============================================================================
