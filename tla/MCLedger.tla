------------------------------ MODULE MCLedger ------------------------------
(***************************************************************************)
(* Small instances of Ledger: a treasury, customers alice and bob with an  *)
(* account each, carol who has yet to be verified and open hers, and one   *)
(* administrator.  Each set of commands below is the traffic of one run.   *)
(***************************************************************************)
EXTENDS Ledger, TLC

CONSTANTS alice, bob, carol, root,
          treasury, aliceAcct, bobAcct, carolAcct,
          k1, k2, k3, h1, h2

Directory == << [account |-> aliceAcct, owner |-> alice],
                [account |-> bobAcct,   owner |-> bob],
                [account |-> carolAcct, owner |-> carol],
                [account |-> treasury,  owner |-> None] >>

Position(a) == CHOOSE i \in DOMAIN Directory : Directory[i].account = a
MCOwner == [a \in Accounts |-> Directory[Position(a)].owner]
MCOrder == [a \in Accounts |-> Position(a)]

Pay(u, k, from, to, amt, h, right) ==
  [type |-> "TRANSFER", user |-> u, key |-> k, source |-> from, destination |-> to,
   amount |-> amt, challenge |-> h, rightCode |-> right, reverses |-> 0]

PaySmall(u, k, from, to, amt) == Pay(u, k, from, to, amt, None, FALSE)

Deposit(k, to, amt) ==
  [PaySmall(root, k, treasury, to, amt) EXCEPT !.type = "DEMO_DEPOSIT"]

AskChallenge(u, from, to, amt) ==
  [type |-> "CHALLENGE", user |-> u, source |-> from, destination |-> to, amount |-> amt]

\* Alice spends more than she has under two keys at once, low and high, and retries
\* both; she presents one challenge under another key and for another amount, another
\* with a wrong code, and bob presents hers and pays under a key of the same name.
PaymentCommands ==
  {Deposit(k1, aliceAcct, 4),
   PaySmall(alice, k1, aliceAcct, bobAcct, 2),
   PaySmall(bob, k1, bobAcct, aliceAcct, 2),
   Pay(alice, k1, aliceAcct, bobAcct, 3, h1, TRUE),
   Pay(alice, k2, aliceAcct, bobAcct, 3, h1, TRUE),
   Pay(alice, k2, aliceAcct, bobAcct, 4, h1, TRUE),
   Pay(alice, k2, aliceAcct, bobAcct, 3, h2, FALSE),
   Pay(bob, k1, aliceAcct, bobAcct, 3, h1, TRUE)}

PaymentChallenges == {AskChallenge(alice, aliceAcct, bobAcct, 3)}

\* Carol joins, is paid, pays, and is frozen, all at once, while administrators
\* reverse whatever has been posted.
LifecycleCommands ==
  {Deposit(k1, carolAcct, 1),
   PaySmall(carol, k1, carolAcct, aliceAcct, 1)}

\* Opposite payments over the same two accounts.
CrossingCommands ==
  {Deposit(k1, aliceAcct, 1),
   PaySmall(alice, k1, aliceAcct, bobAcct, 1),
   PaySmall(bob, k1, bobAcct, aliceAcct, 1)}

InterchangeableSessions == Permutations(Sessions)
=============================================================================
