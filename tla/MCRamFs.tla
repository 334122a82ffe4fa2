------------------------------ MODULE MCRamFs -------------------------------
EXTENDS RamFs
MCContents == {<<>>, <<"p">>, <<"q", "p">>}
=============================================================================
