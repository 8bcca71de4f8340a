------------------------ MODULE MCExtensionRuntimes -------------------------
\* One extension whose runtime is replaced while calls of a tenant go on.
EXTENDS ExtensionRuntimes

CONSTANTS t1, c1, c2, a1

Scenario(n, m, cs) == [changes |-> n, faults |-> m, clients |-> cs]

\* Two calls with one replacement or without; one with two replacements or with
\* a second fault beside the first.
Mixed == {Scenario(0, 2, {c1, c2}), Scenario(1, 1, {c1, c2}), Scenario(1, 2, {c1}),
          Scenario(2, 1, {c1})}

=============================================================================
