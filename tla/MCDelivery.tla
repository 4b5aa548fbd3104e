----------------------------- MODULE MCDelivery -----------------------------
EXTENDS Delivery

CONSTANTS spam, list

To(b) == [do |-> "transfer", to |-> b]

\* spam is spam, list comes from a mailing list.  A user who has the list filed, and
\* one who has it copied and kept out of Junk, but deletes the rest.
RuleSetsDef ==
    { << [match |-> {list}, actions |-> <<To("F")>>] >>,
      << [match |-> {list}, actions |-> <<[do |-> "copy", to |-> "F"], [do |-> "junk", score |-> 0],
                                       [do |-> "stop"]>>],
         [match |-> {spam, list}, actions |-> <<[do |-> "delete"]>>] >> }

VerdictDef == (spam :> 100) @@ (list :> 0)
=============================================================================
