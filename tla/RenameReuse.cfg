SPECIFICATION Spec
CONSTANT Scripts = {"RenameThenReuse"}
INVARIANT QuietDisksAgree
