-------------------------------- MODULE Paths --------------------------------
(***************************************************************************)
(* The names of files: pathJoin and pathExt (fs.cc), and the files of a    *)
(* package and of a union of packages (pkg.hh, srcfile.hh, deps.hh,        *)
(* compiler.cc).  A string is a sequence of bytes.                         *)
(***************************************************************************)
EXTENDS Integers, SequencesExt

Slash == 47
Dot   == 46

\* What follows the last dot, unless the name begins with that dot.
pathExt(fn) ==
  LET dots == {i \in 2 .. Len(fn) : fn[i] = Dot}
  IN IF dots = {} THEN <<>> ELSE SubSeq(fn, Max(dots) + 1, Len(fn))

\* A slash goes between a part that is not empty and whatever follows it: an
\* empty part after it leaves the slash at the end.
pathJoin(parts) ==
  FlattenSeq([k \in DOMAIN parts |->
                IF k > 1 /\ parts[k - 1] # <<>> THEN <<Slash>> \o parts[k] ELSE parts[k]])

-----------------------------------------------------------------------------
(* A package and its source files *)

srcName   == <<115, 114, 99>>
binName   == <<98, 105, 110>>
pchExt    == <<Dot, 112, 99, 104>>
objExt    == <<Dot, 97>>
unionName == <<Dot, 117, 110, 105, 111, 110>>

\* Pkg::Pkg asserts this of a name.
ValidName(name) == name # <<>> /\ Head(name) # Slash /\ Last(name) # Slash

basename(name) ==
  LET slashes == {i \in DOMAIN name : name[i] = Slash}
  IN IF slashes = {} THEN name ELSE SubSeq(name, Max(slashes) + 1, Len(name))

srcDir(rxDir, pkg)  == rxDir \o <<Slash>> \o srcName \o <<Slash>> \o pkg
binFile(rxDir, pkg) == rxDir \o <<Slash>> \o binName \o <<Slash>> \o basename(pkg)

\* Bug: the path of a source file is taken from the directory of all packages.
pathname_NameOnly(pkg, filename) == pathJoin(<<filename>>)

\* SrcFile::pathname
pathname(pkg, filename) == pathJoin(<<pkg, filename>>)

\* The path of an entry the scan of a directory finds in it.
ScannedPath(basedir, filename) == pathJoin(<<basedir, <<>>, filename>>)

\* The path processSrcFiles reads.
ReadPath(rxDir, pkg, filename) == pathJoin(<<rxDir, srcName, pathname(pkg, filename)>>)

-----------------------------------------------------------------------------
(* The files the compiler and the dependencies keep *)

pkgPCHFile(pkgDir, pkg) == pkgDir \o <<Slash>> \o pkg \o pchExt
pkgObjFile(pkgDir, pkg) == pkgDir \o <<Slash>> \o pkg \o objExt

binPathForPkg(pkgDir, pkg) == pkgDir \o <<Slash>> \o pkg
PCHPathForPkg(pkgDir, pkg) == binPathForPkg(pkgDir, pkg) \o pchExt

\* Bug: the PCHs of unions are put among those of packages.
PCHPathForPkgUnionID_NoDir(pkgDir, id) == pkgDir \o <<Slash>> \o id \o pchExt

PCHPathForPkgUnionID(pkgDir, id) == pkgDir \o <<Slash>> \o unionName \o <<Slash>> \o id \o pchExt

=============================================================================
