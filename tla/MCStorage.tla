------------------------------ MODULE MCStorage ------------------------------
EXTENDS Storage

CONSTANTS c1, c2, c3, a

\* the card's path, the same by /any, and one of no storage; one client uses the
\* CLI's 'storage' commands
MCOpens == [c \in Clients |->
               CASE c = c1 -> {<<"ext", a>>, <<"bad", a>>}
                 [] c = c2 -> {<<"any", a>>}
                 [] c = c3 -> {<<"ext", a>>}]
MCCalls == [c \in Clients |->
               CASE c = c1 -> {<<"unmount", <<"ext", a>>>>, <<"format", <<"ext", a>>>>}
                 [] c = c2 -> {}
                 [] c = c3 -> {<<"remove", <<"any", a>>>>}]
===============================================================================
