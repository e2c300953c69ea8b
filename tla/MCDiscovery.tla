------------------------------ MODULE MCDiscovery ------------------------------
\* Instances of Discovery for TLC.
EXTENDS Discovery

\* All three machines undisturbed, or two of them with two incidents.
MCScenarios == {<<VALID_ROLES, 0>>, <<{"system1", "system2"}, 2>>}

MCThree == {<<VALID_ROLES, 0>>}
================================================================================
