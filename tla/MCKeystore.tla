---------------------------- MODULE MCKeystore -----------------------------
EXTENDS Keystore
CONSTANTS alice, own, bob, mallory, gui, cli

MCLabels == {alice}
MCOwn == {own}
MCForeign == {bob, mallory}
MCGenuine == {bob}
MCFiles == {[label |-> alice, key |-> bob, secret |-> FALSE],
            [label |-> alice, key |-> mallory, secret |-> FALSE]}
MCTorn == {[label |-> alice, key |-> mallory, secret |-> FALSE]}
=============================================================================
