--------------------------- MODULE MCAvatarCache ---------------------------
EXTENDS AvatarCache
=============================================================================
