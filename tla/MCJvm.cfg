CONSTANT Class = Class
CONSTANT Kinds = {"fields", "methods"}
CONSTANT Names <- MCNames
CONSTANT Infos = {"info"}
CONSTANT Parsed <- MCParsed
CONSTANT W16 = 65536
CONSTANT EmptyResize = 1
CONSTANT MaxCap = 3
SPECIFICATION Spec
CHECK_DEADLOCK FALSE
INVARIANT AttributeNamed
