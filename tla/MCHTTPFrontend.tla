--------------------------- MODULE MCHTTPFrontend ---------------------------
(* A frontend with every timeout and one with none.                        *)
EXTENDS HTTPFrontend

MCConfigs == {{}, AllTimeouts}

=============================================================================
