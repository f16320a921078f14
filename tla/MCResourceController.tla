------------------------- MODULE MCResourceController -------------------------
EXTENDS ResourceController

OnePod == {<<"default", "web">>}
=============================================================================
