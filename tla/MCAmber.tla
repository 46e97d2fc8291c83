--------------------------------- MODULE MCAmber --------------------------------
\* amber_bytes on its own, for what its reports do not keep.
EXTENDS AmberBytes

MCData == {<<"a", "b", "a">>, << >>, <<"b", "a">>}
================================================================================
