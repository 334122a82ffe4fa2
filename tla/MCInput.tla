------------------------------ MODULE MCInput ------------------------------
EXTENDS Input

Keys == {<<"char">>, <<"shift">>, <<"E0", "arrow">>}
=============================================================================
