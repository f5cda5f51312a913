---------------------------- MODULE MCControlPlane ----------------------------
\* The second version of the file changes a line item, adds a buyer, a buyer on this
\* machine and a creative that does not decode; a scan finds them on two pages.
EXTENDS ControlPlane

MCPages == <<{"buyer", "local_buyer"}, {"line_item", "creative"}>>
MCFiles == <<<<"line_item">>, <<"line_item", "buyer", "local_buyer", "creative">>>>
MCUndecodable == {<<"creative", 2>>}
==============================================================================
